----------------------------- MODULE PackingProofs -----------------------------
(***************************************************************************)
(* Machine-checked proofs about IterablePacking and PackedIndex, for every *)
(* dataset, interval, packing length and number of processes.              *)
(***************************************************************************)
EXTENDS PackingInvariant, FiniteSetTheorems, BasicFacts, TLAPS

(* The bins of a grouping cover its samples, and no two of them meet.      *)
LEMMA BinFacts ==
    ASSUME NEW S, NEW len, NEW size, NEW bins \in BinPackings(S, len, size)
    PROVE  /\ UNION bins = S
           /\ \A p, q \in bins : p # q => p \cap q = {}
<1>1. PICK f \in [S -> S] : bins = {{s \in S : f[s] = r} : r \in {f[s] : s \in S}}
  BY DEF BinPackings
<1>2. UNION bins = S
  <2>1. \A s \in S : s \in {t \in S : f[t] = f[s]} /\ {t \in S : f[t] = f[s]} \in bins
    BY <1>1
  <2>2. \A p \in bins : p \subseteq S BY <1>1
  <2> QED BY <2>1, <2>2
<1>3. ASSUME NEW p \in bins, NEW q \in bins, p # q PROVE p \cap q = {}
  <2>1. PICK a : p = {s \in S : f[s] = a} BY <1>1
  <2>2. PICK b : q = {s \in S : f[s] = b} BY <1>1
  <2> QED BY <2>1, <2>2, <1>3
<1> QED BY <1>2, <1>3

(* Sets of packs: joining two of them, taking one pack out of one, and     *)
(* cutting a dataset at a sample.                                          *)
LEMMA UnionOfUnions ==
    ASSUME NEW A, NEW B
    PROVE  UNION (A \cup B) = (UNION A) \cup (UNION B)
<1>1. ASSUME NEW x \in UNION (A \cup B) PROVE x \in (UNION A) \cup (UNION B)
  <2>1. PICK p \in A \cup B : x \in p OBVIOUS
  <2> QED BY <2>1
<1>2. ASSUME NEW x \in (UNION A) \cup (UNION B) PROVE x \in UNION (A \cup B)
  <2>1. PICK p : (p \in A \/ p \in B) /\ x \in p OBVIOUS
  <2> QED BY <2>1
<1> QED BY <1>1, <1>2

LEMMA UnionWithout ==
    ASSUME NEW A, NEW p \in A
    PROVE  (UNION (A \ {p})) \cup p = UNION A
<1>1. ASSUME NEW x \in UNION A PROVE x \in (UNION (A \ {p})) \cup p
  <2>1. PICK q \in A : x \in q OBVIOUS
  <2> QED BY <2>1
<1>2. ASSUME NEW x \in (UNION (A \ {p})) \cup p PROVE x \in UNION A
  OBVIOUS
<1> QED BY <1>1, <1>2

LEMMA Cut ==
    ASSUME NEW U, NEW E, NEW A, NEW B, U = E \cap A
    PROVE  U \cup (E \cap B) = E \cap (A \cup B)
OBVIOUS

-----------------------------------------------------------------------------
(* IterablePackingDataset.                                                 *)

(* The processes are finitely many.                                        *)
LEMMA ProcsFinite ==
    ASSUME NEW B \in SUBSET Procs
    PROVE  IsFiniteSet(B) /\ Cardinality(B) \in Nat /\ (Cardinality(B) = 0 <=> B = {})
<1>1. IsFiniteSet(Procs) BY FS_Interval, PackingAssumption DEF Procs
<1>2. IsFiniteSet(B) BY <1>1, FS_Subset
<1> QED BY <1>2, FS_CardinalityType, FS_EmptySet

(* Every variable of the streaming dataset keeps its type.                 *)
LEMMA StreamTypeStep ==
    ASSUME TypeOK, CountersInv, [Next]_vars
    PROVE  TypeOK'
<1> USE DEF TypeOK, mainVars
<1>0. NumSamples \in Nat /\ PackingInterval \in Nat /\ PackingInterval > 0 /\ MaxIters \in Nat
  BY PackingAssumption
<1>1. CASE Iter
  <2>1. next' \in 1..(NumSamples + 1) /\ put' \in 0..PackingInterval /\ iters' \in 0..MaxIters
    BY <1>0, <1>1 DEF Iter
  <2>2. pc' \in {"put", "end"} BY <1>1 DEF Iter
  <2> QED BY <1>1, <2>1, <2>2 DEF Iter
<1>2. CASE PutData
  <2>1. [i |-> put, sample |-> next] \in Items
    BY <1>0, <1>2 DEF PutData, Items, Positions, Samples
  <2>2. in_queue' \in Seq(Items) BY <1>2, <2>1, AppendFacts DEF PutData
  <2> QED BY <1>0, <1>2, <2>2 DEF PutData
<1>3. CASE PutEnd BY <1>0, <1>3 DEF PutEnd, NoResult
<1>4. CASE FetchData
  <2>1. /\ Head(out_queue) \in Results /\ Tail(out_queue) \in Seq(Results)
    BY <1>4, TailFacts DEF FetchData
  <2>2. res' \in [Positions -> Samples \cup {0}]
    BY <1>4, <2>1 DEF FetchData, Results
  <2> QED BY <1>0, <1>4, <2>1, <2>2 DEF FetchData
<1>5. CASE FetchEnd BY <1>5 DEF FetchEnd
<1>6. CASE CalculateMatchedGroup
  <2> DEFINE samples == data \cup ({res[i] : i \in 0..(num_samples - 1)} \ {0})
  <2>1. samples \subseteq Samples
    <3>1. \A i \in 0..(num_samples - 1) : i \in Positions BY <1>0 DEF Positions
    <3> QED BY <3>1
  <2>2. PICK bins \in BinPackings(samples, length, PackingLength) :
              \/ (bins = {} \/ Finished) /\ packs' = bins /\ data' = {}
              \/ ~Finished /\ \E last \in bins : packs' = bins \ {last} /\ data' = last
    BY <1>6 DEF CalculateMatchedGroup
  <2> HIDE DEF samples
  <2>3. UNION bins = samples BY BinFacts
  <2>4. packs' \subseteq SUBSET Samples /\ data' \subseteq Samples
    <3>1. \A b \in bins : b \subseteq Samples BY <2>1, <2>3
    <3> QED BY <2>2, <3>1
  <2> QED BY <1>6, <2>4 DEF CalculateMatchedGroup
<1>7. CASE Yield BY <1>7 DEF Yield
<1>8. CASE Abandon BY <1>8 DEF Abandon
<1>9. CASE YieldEnd BY <1>0, <1>9 DEF YieldEnd
<1>10. ASSUME NEW w \in Procs, ProcessorGet(w) PROVE TypeOK'
  <2>1. Head(in_queue) \in Items /\ Tail(in_queue) \in Seq(Items)
    BY <1>10, TailFacts DEF ProcessorGet
  <2> QED BY <1>10, <2>1 DEF ProcessorGet
<1>11. ASSUME NEW w \in Procs, ProcessorPut(w) PROVE TypeOK'
  <2>1. /\ worker[w] \in Results /\ [worker[w] EXCEPT !.sample = 0] \in Results
    BY <1>11 DEF ProcessorPut, Items, Results
  <2>2. out_queue' \in Seq(Results) BY <1>11, <2>1, AppendFacts DEF ProcessorPut
  <2> QED BY <1>11, <2>2 DEF ProcessorPut
<1>12. ASSUME NEW w \in Procs, ProcessorRaises(w) PROVE TypeOK'
  BY <1>12 DEF ProcessorRaises
<1>13. CASE UNCHANGED vars BY <1>13 DEF vars
<1> QED BY <1>1, <1>2, <1>3, <1>4, <1>5, <1>6, <1>7, <1>8, <1>9, <1>10, <1>11, <1>12, <1>13
        DEF Next, Main, Processor

(* The counters of an interval.                                            *)
LEMMA CountersStep ==
    ASSUME TypeOK, CountersInv, [Next]_vars
    PROVE  CountersInv'
<1> USE DEF CountersInv, Finished, mainVars
<1>0. /\ NumSamples \in Nat /\ PackingInterval \in Nat /\ next \in 1..(NumSamples + 1)
      /\ put \in 0..PackingInterval /\ num_samples \in 0..PackingInterval
      /\ fetched \in 0..PackingInterval
  BY PackingAssumption DEF TypeOK
<1>1. CASE Iter BY <1>1 DEF Iter
<1>2. CASE PutData BY <1>0, <1>2 DEF PutData
<1>3. CASE PutEnd BY <1>0, <1>3 DEF PutEnd
<1>4. CASE FetchData BY <1>0, <1>4 DEF FetchData
<1>5. CASE FetchEnd BY <1>0, <1>5 DEF FetchEnd
<1>6. CASE CalculateMatchedGroup BY <1>0, <1>6 DEF CalculateMatchedGroup
<1>7. CASE Yield BY <1>7 DEF Yield
<1>8. CASE Abandon BY <1>8 DEF Abandon
<1>9. CASE YieldEnd BY <1>0, <1>9 DEF YieldEnd
<1>10. ASSUME NEW w \in Procs, Processor(w) PROVE UNCHANGED mainVars
  BY <1>10 DEF Processor, ProcessorGet, ProcessorPut, ProcessorRaises
<1>11. CASE UNCHANGED mainVars BY <1>11
<1> QED BY <1>1, <1>2, <1>3, <1>4, <1>5, <1>6, <1>7, <1>8, <1>9, <1>10, <1>11
        DEF Next, Main, vars

(* What the step of a process does to the set of those that hold an item.  *)
LEMMA BusyStep ==
    ASSUME TypeOK, NEW w \in Procs
    PROVE  /\ ProcessorGet(w) => Cardinality(Busy') = Cardinality(Busy) + 1
           /\ ProcessorPut(w) => Cardinality(Busy') = Cardinality(Busy) - 1
           /\ ProcessorRaises(w) => Cardinality(Busy') = Cardinality(Busy)
<1>0. IsFiniteSet(Busy) /\ Cardinality(Busy) \in Nat BY ProcsFinite DEF Busy
<1>1. Idle \notin Items /\ Dead # Idle
  BY DEF Idle, Dead, Items, Positions
<1>2. worker \in [Procs -> Items \cup {Idle, Dead}] /\ in_queue \in Seq(Items) BY DEF TypeOK
<1>3. ASSUME ProcessorGet(w) PROVE Cardinality(Busy') = Cardinality(Busy) + 1
  <2>1. Head(in_queue) \in Items BY <1>2, <1>3, TailFacts DEF ProcessorGet
  <2>2. w \notin Busy /\ Busy' = Busy \cup {w}
    BY <1>1, <1>2, <1>3, <2>1 DEF ProcessorGet, Busy
  <2> QED BY <1>0, <2>2, FS_AddElement
<1>4. ASSUME ProcessorPut(w) PROVE Cardinality(Busy') = Cardinality(Busy) - 1
  <2>1. w \in Busy /\ Busy' = Busy \ {w}
    BY <1>1, <1>2, <1>4 DEF ProcessorPut, Busy
  <2> QED BY <1>0, <2>1, FS_RemoveElement
<1>5. ASSUME ProcessorRaises(w) PROVE Cardinality(Busy') = Cardinality(Busy)
  <2>1. Busy' = Busy BY <1>1, <1>2, <1>5 DEF ProcessorRaises, Busy
  <2> QED BY <2>1
<1> QED BY <1>3, <1>4, <1>5

(* A sample that was put and not received is in one queue or process.      *)
LEMMA CountStep ==
    ASSUME TypeOK, CountersInv, CountInv, [Next]_vars
    PROVE  CountInv'
<1> USE DEF CountInv, mainVars
<1>0. /\ PackingInterval \in Nat /\ put \in Nat /\ num_samples \in Nat /\ fetched \in Nat
      /\ in_queue \in Seq(Items) /\ out_queue \in Seq(Results)
      /\ Len(in_queue) \in Nat /\ Len(out_queue) \in Nat /\ Cardinality(Busy) \in Nat
      /\ pc \in {"init", "put", "fetch", "pack", "yield", "end"}
  <2>1. Cardinality(Busy) \in Nat BY ProcsFinite DEF Busy
  <2>2. in_queue \in Seq(Items) /\ out_queue \in Seq(Results) BY DEF TypeOK
  <2>3. Len(in_queue) \in Nat /\ Len(out_queue) \in Nat BY <2>2, LenFacts
  <2> QED BY <2>1, <2>2, <2>3, PackingAssumption DEF TypeOK
<1>a. worker' = worker => Busy' = Busy BY DEF Busy
<1>f. ASSUME UNCHANGED <<in_queue, out_queue, worker>> PROVE InFlight' = InFlight
  BY <1>a, <1>f DEF InFlight
<1>1. CASE Iter
  <2>1. InFlight = 0 BY <1>1 DEF Iter
  <2> QED BY <1>f, <1>1, <2>1 DEF Iter
<1>2. CASE PutData
  <2>1. [i |-> put, sample |-> next] \in Items
    BY <1>2, PackingAssumption DEF PutData, Items, Positions, Samples, TypeOK
  <2>2. Len(in_queue') = Len(in_queue) + 1 BY <1>0, <1>2, <2>1, AppendFacts DEF PutData
  <2>3. InFlight' = InFlight + 1
    BY <1>0, <1>2, <1>a, <2>2 DEF PutData, InFlight
  <2> QED BY <1>0, <1>2, <2>3 DEF PutData
<1>3. CASE PutEnd
  <2>1. InFlight = put /\ InFlight' = InFlight BY <1>f, <1>3 DEF PutEnd
  <2> QED BY <1>0, <1>3, <2>1 DEF PutEnd
<1>4. CASE FetchData
  <2>1. Len(out_queue') = Len(out_queue) - 1 BY <1>0, <1>4, TailFacts DEF FetchData
  <2>2. InFlight' = InFlight - 1
    BY <1>0, <1>4, <1>a, <2>1 DEF FetchData, InFlight
  <2> QED BY <1>0, <1>4, <2>2 DEF FetchData
<1>5. CASE FetchEnd
  <2>1. InFlight = 0 /\ InFlight' = InFlight BY <1>0, <1>f, <1>5 DEF FetchEnd
  <2> QED BY <1>5, <2>1 DEF FetchEnd
<1>6. CASE CalculateMatchedGroup
  <2>1. InFlight = 0 /\ InFlight' = InFlight BY <1>f, <1>6 DEF CalculateMatchedGroup
  <2> QED BY <1>6, <2>1 DEF CalculateMatchedGroup
<1>7. CASE Yield BY <1>f, <1>7 DEF Yield
<1>8. CASE Abandon BY <1>f, <1>8 DEF Abandon
<1>9. CASE YieldEnd BY <1>f, <1>9 DEF YieldEnd
<1>10. ASSUME NEW w \in Procs, Processor(w) PROVE InFlight' = InFlight /\ UNCHANGED mainVars
  <2>1. CASE ProcessorGet(w)
    <3>1. Len(in_queue') = Len(in_queue) - 1 BY <1>0, <2>1, TailFacts DEF ProcessorGet
    <3>2. Cardinality(Busy') = Cardinality(Busy) + 1 BY <2>1, BusyStep
    <3> QED BY <1>0, <2>1, <3>1, <3>2 DEF ProcessorGet, InFlight
  <2>2. CASE ProcessorPut(w)
    <3>1. worker[w] \in Results /\ [worker[w] EXCEPT !.sample = 0] \in Results
      BY <2>2 DEF ProcessorPut, Items, Results
    <3>2. Len(out_queue') = Len(out_queue) + 1 BY <1>0, <2>2, <3>1, AppendFacts DEF ProcessorPut
    <3>3. Cardinality(Busy') = Cardinality(Busy) - 1 BY <2>2, BusyStep
    <3> QED BY <1>0, <2>2, <3>2, <3>3 DEF ProcessorPut, InFlight
  <2>3. CASE ProcessorRaises(w)
    <3>1. Cardinality(Busy') = Cardinality(Busy) BY <2>3, BusyStep
    <3> QED BY <2>3, <3>1 DEF ProcessorRaises, InFlight
  <2> QED BY <1>10, <2>1, <2>2, <2>3 DEF Processor
<1>11. ASSUME InFlight' = InFlight, UNCHANGED mainVars PROVE CountInv' BY <1>11
<1>12. CASE UNCHANGED vars BY <1>f, <1>12 DEF vars
<1> QED BY <1>1, <1>2, <1>3, <1>4, <1>5, <1>6, <1>7, <1>8, <1>9, <1>10, <1>11, <1>12
        DEF Next, Main

(* Nothing in flight: the queues are empty and every process waits.        *)
LEMMA QuietFacts ==
    ASSUME TypeOK, InFlight = 0
    PROVE  in_queue = <<>> /\ out_queue = <<>> /\ \A w \in Procs : worker[w] = Idle
<1>1. Busy \in SUBSET Procs BY DEF Busy
<1>2. Cardinality(Busy) \in Nat /\ (Cardinality(Busy) = 0 <=> Busy = {})
  BY <1>1, ProcsFinite
<1>3. in_queue \in Seq(Items) /\ out_queue \in Seq(Results) BY DEF TypeOK
<1>4. Len(in_queue) \in Nat /\ Len(out_queue) \in Nat BY <1>3, LenFacts
<1>5. Len(in_queue) = 0 /\ Len(out_queue) = 0 /\ Cardinality(Busy) = 0
  BY <1>2, <1>4 DEF InFlight
<1> QED BY <1>2, <1>3, <1>5, LenFacts DEF Busy

(* The items and the markers of a process differ, also in their position.  *)
LEMMA ItemFacts ==
    /\ Idle \notin Items /\ Dead \notin Items /\ Idle # Dead
    /\ Idle.i = -1 /\ Dead.i = -2
    /\ \A m \in Items \cup Results : m.i \in Positions /\ m.i >= 0
BY PackingAssumption DEF Idle, Dead, Items, Results, Positions

(* What is on its way stays what its position says.                        *)
LEMMA FlightStep ==
    ASSUME TypeOK, CountersInv, CountInv, FlightInv, [Next]_vars
    PROVE  FlightInv'
<1> USE DEF mainVars
<1>0. /\ NumSamples \in Nat /\ PackingInterval \in Nat /\ next \in 1..(NumSamples + 1)
      /\ put \in 0..PackingInterval /\ num_samples \in Nat /\ fetched \in Nat
      /\ in_queue \in Seq(Items) /\ out_queue \in Seq(Results)
      /\ Len(in_queue) \in Nat /\ Len(out_queue) \in Nat
      /\ worker \in [Procs -> Items \cup {Idle, Dead}]
  BY PackingAssumption, LenFacts DEF TypeOK
<1>e. Encoded' = Encoded
  <2>1. encoding' = encoding
    BY DEF Next, Main, Iter, PutData, PutEnd, FetchData, FetchEnd, CalculateMatchedGroup, Yield,
           Abandon, YieldEnd, Processor, ProcessorGet, ProcessorPut, ProcessorRaises, vars
  <2> QED BY <2>1 DEF Encoded
<1>q. ASSUME InFlight = 0, UNCHANGED <<in_queue, out_queue, worker>> PROVE FlightInv'
  <2>1. Len(in_queue') = 0 /\ Len(out_queue') = 0 /\ \A w \in Procs : worker'[w] \notin Items
    BY <1>0, <1>q, QuietFacts, LenFacts, ItemFacts
  <2> QED BY <2>1 DEF FlightInv
<1>k. ASSUME next' - put' = next - put PROVE \A i : SampleAt(i)' = SampleAt(i) /\ AnswerAt(i)' = AnswerAt(i)
  BY <1>e, <1>k DEF SampleAt, AnswerAt
<1>f. ASSUME UNCHANGED <<next, put, in_queue, out_queue, worker>> PROVE FlightInv'
  BY <1>f, <1>k DEF FlightInv
<1>1. CASE Iter BY <1>q, <1>1 DEF Iter, CountInv
<1>2. CASE PutData
  <2>1. [i |-> put, sample |-> next] \in Items
    BY <1>0, <1>2 DEF PutData, Items, Positions, Samples
  <2>2. /\ Len(in_queue') = Len(in_queue) + 1 /\ in_queue'[Len(in_queue) + 1] = [i |-> put, sample |-> next]
        /\ \A k \in 1..Len(in_queue) : in_queue'[k] = in_queue[k]
    BY <1>0, <1>2, <2>1, AppendFacts DEF PutData
  <2>3. next' = next + 1 /\ put' = put + 1 /\ worker' = worker /\ out_queue' = out_queue
    BY <1>2 DEF PutData
  <2>4. \A i : SampleAt(i)' = SampleAt(i) /\ AnswerAt(i)' = AnswerAt(i)
    BY <1>0, <1>k, <2>3
  <2>5. SampleAt(put) = next BY <1>0 DEF SampleAt
  <2>6. \A i \in Positions : i < put => i < put' BY <1>0, <2>3 DEF Positions
  <2>7. ASSUME NEW k \in 1..Len(in_queue')
        PROVE  in_queue'[k].i < put' /\ in_queue'[k].sample = SampleAt(in_queue'[k].i)
    <3>1. CASE k = Len(in_queue) + 1 BY <1>0, <2>2, <2>3, <2>5, <3>1
    <3>2. CASE k # Len(in_queue) + 1
      <4>1. k \in 1..Len(in_queue) /\ in_queue'[k] = in_queue[k] BY <1>0, <2>2, <3>2
      <4>2. in_queue[k].i \in Positions BY <1>0, <4>1, LenFacts, ItemFacts
      <4> QED BY <2>6, <4>1, <4>2 DEF FlightInv
    <3> QED BY <3>1, <3>2
  <2>8. ASSUME NEW w \in Procs, worker'[w] \in Items
        PROVE  worker'[w].i < put' /\ worker'[w].sample = SampleAt(worker'[w].i)
    BY <2>3, <2>6, <2>8, ItemFacts DEF FlightInv
  <2>9. ASSUME NEW k \in 1..Len(out_queue')
        PROVE  out_queue'[k].i < put' /\ out_queue'[k].sample = AnswerAt(out_queue'[k].i)
    <3>1. out_queue[k].i \in Positions BY <1>0, <2>3, <2>9, LenFacts, ItemFacts
    <3> QED BY <2>3, <2>6, <2>9, <3>1 DEF FlightInv
  <2> QED BY <2>4, <2>7, <2>8, <2>9 DEF FlightInv
<1>3. CASE PutEnd BY <1>f, <1>3 DEF PutEnd
<1>4. CASE FetchData
  <2>1. /\ Len(out_queue') = Len(out_queue) - 1
        /\ \A k \in 1..Len(out_queue') : out_queue'[k] = out_queue[k + 1] /\ k + 1 \in 1..Len(out_queue)
    BY <1>0, <1>4, TailFacts DEF FetchData
  <2>2. next' = next /\ put' = put /\ worker' = worker /\ in_queue' = in_queue BY <1>4 DEF FetchData
  <2>3. ASSUME NEW k \in 1..Len(out_queue')
        PROVE  out_queue'[k].i < put' /\ out_queue'[k].sample = AnswerAt(out_queue'[k].i)
    BY <2>1, <2>2 DEF FlightInv
  <2>4. \A i : SampleAt(i)' = SampleAt(i) /\ AnswerAt(i)' = AnswerAt(i) BY <1>k, <2>2
  <2> QED BY <2>2, <2>3, <2>4 DEF FlightInv
<1>5. CASE FetchEnd BY <1>f, <1>5 DEF FetchEnd
<1>6. CASE CalculateMatchedGroup BY <1>f, <1>6 DEF CalculateMatchedGroup
<1>7. CASE Yield BY <1>f, <1>7 DEF Yield
<1>8. CASE Abandon BY <1>f, <1>8 DEF Abandon
<1>9. CASE YieldEnd BY <1>q, <1>9 DEF YieldEnd, CountInv
<1>10. ASSUME NEW w \in Procs, ProcessorGet(w) PROVE FlightInv'
  <2>1. /\ Len(in_queue') = Len(in_queue) - 1 /\ Head(in_queue) = in_queue[1] /\ 1 \in 1..Len(in_queue)
        /\ \A k \in 1..Len(in_queue') : in_queue'[k] = in_queue[k + 1] /\ k + 1 \in 1..Len(in_queue)
    BY <1>0, <1>10, TailFacts DEF ProcessorGet
  <2>2. UNCHANGED <<next, put, out_queue>> /\ worker' = [worker EXCEPT ![w] = in_queue[1]]
    BY <1>10, <2>1 DEF ProcessorGet
  <2>3. \A v \in Procs : worker'[v] = IF v = w THEN in_queue[1] ELSE worker[v] BY <1>0, <2>2
  <2> QED BY <1>k, <2>1, <2>2, <2>3 DEF FlightInv
<1>11. ASSUME NEW w \in Procs, ProcessorPut(w) PROVE FlightInv'
  <2> DEFINE m == IF encoding[worker[w].sample] = "ok" THEN worker[w] ELSE [worker[w] EXCEPT !.sample = 0]
  <2>1. worker[w] \in Items /\ worker[w].i < put /\ worker[w].sample = SampleAt(worker[w].i)
    BY <1>11 DEF ProcessorPut, FlightInv
  <2>2. m \in Results /\ m.i = worker[w].i /\ m.sample = AnswerAt(m.i)
    BY <2>1 DEF Items, Results, AnswerAt, Encoded
  <2>3. out_queue' = Append(out_queue, m) BY <1>11 DEF ProcessorPut
  <2> HIDE DEF m
  <2>4. /\ Len(out_queue') = Len(out_queue) + 1 /\ out_queue'[Len(out_queue) + 1] = m
        /\ \A k \in 1..Len(out_queue) : out_queue'[k] = out_queue[k]
    BY <1>0, <2>2, <2>3, AppendFacts
  <2>5. UNCHANGED <<next, put, in_queue>> /\ \A v \in Procs : worker'[v] = IF v = w THEN Idle ELSE worker[v]
    BY <1>0, <1>11 DEF ProcessorPut
  <2>6. ASSUME NEW k \in 1..Len(out_queue')
        PROVE  out_queue'[k].i < put' /\ out_queue'[k].sample = AnswerAt(out_queue'[k].i)
    <3>1. CASE k = Len(out_queue) + 1 BY <2>1, <2>2, <2>4, <2>5, <3>1
    <3>2. CASE k # Len(out_queue) + 1
      <4>1. k \in 1..Len(out_queue) /\ out_queue'[k] = out_queue[k] BY <1>0, <2>4, <3>2
      <4> QED BY <2>5, <4>1 DEF FlightInv
    <3> QED BY <3>1, <3>2
  <2> QED BY <1>k, <2>5, <2>6, ItemFacts DEF FlightInv
<1>12. ASSUME NEW w \in Procs, ProcessorRaises(w) PROVE FlightInv'
  <2>1. /\ UNCHANGED <<next, put, in_queue, out_queue>>
        /\ \A v \in Procs : worker'[v] = IF v = w THEN Dead ELSE worker[v]
    BY <1>0, <1>12 DEF ProcessorRaises
  <2> QED BY <1>k, <2>1, ItemFacts DEF FlightInv
<1>13. CASE UNCHANGED vars BY <1>f, <1>13 DEF vars
<1> QED BY <1>1, <1>2, <1>3, <1>4, <1>5, <1>6, <1>7, <1>8, <1>9, <1>10, <1>11, <1>12, <1>13
        DEF Next, Main, Processor

(* No position is lost on its way from the dataset to the packer.          *)
LEMMA CoverStep ==
    ASSUME TypeOK, CountersInv, CountInv, FlightInv, CoverInv, [Next]_vars
    PROVE  CoverInv'
<1> USE DEF mainVars
<1>0. /\ NumSamples \in Nat /\ PackingInterval \in Nat /\ next \in 1..(NumSamples + 1)
      /\ put \in 0..PackingInterval /\ num_samples \in Nat /\ fetched \in Nat
      /\ in_queue \in Seq(Items) /\ out_queue \in Seq(Results)
      /\ Len(in_queue) \in Nat /\ Len(out_queue) \in Nat
      /\ worker \in [Procs -> Items \cup {Idle, Dead}] /\ res \in [Positions -> Samples \cup {0}]
  BY PackingAssumption, LenFacts DEF TypeOK
<1>e. Encoded' = Encoded
  <2>1. encoding' = encoding
    BY DEF Next, Main, Iter, PutData, PutEnd, FetchData, FetchEnd, CalculateMatchedGroup, Yield,
           Abandon, YieldEnd, Processor, ProcessorGet, ProcessorPut, ProcessorRaises, vars
  <2> QED BY <2>1 DEF Encoded
<1>p. 0..(put - 1) \subseteq Positions BY <1>0 DEF Positions
<1>k. ASSUME UNCHANGED <<next, put>> PROVE \A i : AnswerAt(i)' = AnswerAt(i)
  BY <1>e, <1>k DEF SampleAt, AnswerAt
<1>w. ASSUME UNCHANGED <<in_queue, out_queue, worker>> PROVE \A i : Waits(i)' <=> Waits(i)
  BY <1>w DEF Waits
<1> DEFINE Died == \E w \in Procs : worker[w] = Dead
<1>1. CASE Iter BY <1>1 DEF Iter, CoverInv
<1>2. CASE PutData
  <2>1. [i |-> put, sample |-> next] \in Items
    BY <1>0, <1>2 DEF PutData, Items, Positions, Samples
  <2>2. /\ Len(in_queue') = Len(in_queue) + 1 /\ in_queue'[Len(in_queue) + 1] = [i |-> put, sample |-> next]
        /\ \A k \in 1..Len(in_queue) : in_queue'[k] = in_queue[k] /\ k \in 1..Len(in_queue')
        /\ Len(in_queue) + 1 \in 1..Len(in_queue')
    BY <1>0, <1>2, <2>1, AppendFacts DEF PutData
  <2>3. pc = "put" /\ pc' = "put" /\ put' = put + 1 /\ worker' = worker /\ out_queue' = out_queue
    BY <1>2 DEF PutData
  <2>4. ASSUME NEW i \in 0..(put' - 1) PROVE (Waits(i) \/ Died)'
    <3>1. CASE i = put BY <2>2, <3>1 DEF Waits
    <3>2. CASE i # put
      <4>1. i \in 0..(put - 1) BY <1>0, <2>3, <3>2
      <4>2. Waits(i) \/ Died BY <2>3, <4>1 DEF CoverInv
      <4>3. CASE Died BY <2>3, <4>3
      <4>4. CASE \E k \in 1..Len(in_queue) : in_queue[k].i = i BY <2>2, <4>4 DEF Waits
      <4>5. CASE \E w \in Procs : worker[w].i = i BY <2>3, <4>5 DEF Waits
      <4>6. CASE \E k \in 1..Len(out_queue) : out_queue[k].i = i BY <2>3, <4>6 DEF Waits
      <4> QED BY <4>2, <4>3, <4>4, <4>5, <4>6 DEF Waits
    <3> QED BY <3>1, <3>2
  <2> QED BY <2>3, <2>4 DEF CoverInv
<1>3. CASE PutEnd BY <1>w, <1>3 DEF PutEnd, CoverInv
<1>4. CASE FetchData
  <2>1. /\ Head(out_queue) = out_queue[1] /\ 1 \in 1..Len(out_queue) /\ out_queue[1] \in Results
        /\ Len(out_queue') = Len(out_queue) - 1
        /\ \A k \in 1..Len(out_queue') : out_queue'[k] = out_queue[k + 1]
    BY <1>0, <1>4, TailFacts DEF FetchData
  <2>2. /\ pc = "fetch" /\ pc' = "fetch" /\ UNCHANGED <<next, put, worker, in_queue>>
        /\ res' = [res EXCEPT ![out_queue[1].i] = out_queue[1].sample]
    BY <1>4, <2>1 DEF FetchData
  <2>3. out_queue[1].sample = AnswerAt(out_queue[1].i) BY <2>1 DEF FlightInv
  <2>4. ASSUME NEW i \in 0..(put - 1) PROVE (Waits(i) \/ res[i] = AnswerAt(i) \/ Died)'
    <3>0. AnswerAt(i)' = AnswerAt(i) /\ i \in Positions BY <1>k, <1>p, <2>2
    <3>1. CASE i = out_queue[1].i
      <4>1. res'[i] = AnswerAt(i) BY <1>0, <2>2, <2>3, <3>0, <3>1
      <4> QED BY <3>0, <4>1
    <3>2. CASE i # out_queue[1].i
      <4>1. res'[i] = res[i] BY <1>0, <2>2, <3>0, <3>2
      <4>2. Waits(i) \/ res[i] = AnswerAt(i) \/ Died BY <2>2 DEF CoverInv
      <4>3. CASE Died BY <2>2, <4>3
      <4>4. CASE \E k \in 1..Len(in_queue) : in_queue[k].i = i BY <2>2, <4>4 DEF Waits
      <4>5. CASE \E w \in Procs : worker[w].i = i BY <2>2, <4>5 DEF Waits
      <4>6. CASE \E k \in 1..Len(out_queue) : out_queue[k].i = i
        <5>1. PICK k \in 1..Len(out_queue) : out_queue[k].i = i BY <4>6
        <5>2. k - 1 \in 1..Len(out_queue') /\ (k - 1) + 1 = k BY <1>0, <2>1, <3>2, <5>1
        <5>3. out_queue'[k - 1] = out_queue[k] BY <2>1, <5>2
        <5> QED BY <5>1, <5>2, <5>3 DEF Waits
      <4>7. CASE res[i] = AnswerAt(i) BY <3>0, <4>1, <4>7
      <4> QED BY <4>2, <4>3, <4>4, <4>5, <4>6, <4>7 DEF Waits
    <3> QED BY <3>1, <3>2
  <2> QED BY <2>2, <2>4 DEF CoverInv
<1>5. CASE FetchEnd
  <2>1. InFlight = 0 BY <1>0, <1>5 DEF FetchEnd, CountInv
  <2>2. Len(in_queue) = 0 /\ Len(out_queue) = 0 /\ \A w \in Procs : worker[w] = Idle
    BY <1>0, <2>1, QuietFacts, LenFacts
  <2>3. \A i \in 0..(put - 1) : ~Waits(i) BY <1>0, <2>2, ItemFacts DEF Waits
  <2>4. ~Died BY <2>2, ItemFacts
  <2>5. \A i \in 0..(put - 1) : res[i] = AnswerAt(i)
    BY <1>5, <2>3, <2>4 DEF FetchEnd, CoverInv
  <2> QED BY <1>k, <1>5, <2>5 DEF FetchEnd, CoverInv
<1>6. CASE CalculateMatchedGroup BY <1>6 DEF CalculateMatchedGroup, CoverInv
<1>7. CASE Yield BY <1>7 DEF Yield, CoverInv
<1>8. CASE Abandon BY <1>8 DEF Abandon, CoverInv
<1>9. CASE YieldEnd BY <1>9 DEF YieldEnd, CoverInv
<1>g. ASSUME \A i \in Positions : Waits(i) => (Waits(i) \/ Died)', Died => Died', UNCHANGED mainVars
      PROVE  CoverInv'
  BY <1>g, <1>k, <1>p DEF CoverInv
<1>10. ASSUME NEW w \in Procs, ProcessorGet(w) PROVE CoverInv'
  <2>1. /\ Head(in_queue) = in_queue[1] /\ Len(in_queue') = Len(in_queue) - 1
        /\ \A k \in 1..Len(in_queue') : in_queue'[k] = in_queue[k + 1]
    BY <1>0, <1>10, TailFacts DEF ProcessorGet
  <2>2. /\ UNCHANGED <<mainVars, out_queue>> /\ worker[w] = Idle
        /\ \A v \in Procs : worker'[v] = IF v = w THEN in_queue[1] ELSE worker[v]
    BY <1>0, <1>10, <2>1 DEF ProcessorGet
  <2>3. ASSUME NEW i \in Positions, Waits(i) PROVE Waits(i)'
    <3>0. i >= 0 BY <1>0 DEF Positions
    <3>1. CASE \E k \in 1..Len(in_queue) : in_queue[k].i = i
      <4>1. PICK k \in 1..Len(in_queue) : in_queue[k].i = i BY <3>1
      <4>2. CASE k = 1 BY <2>2, <4>1, <4>2 DEF Waits
      <4>3. CASE k # 1
        <5>1. k - 1 \in 1..Len(in_queue') /\ (k - 1) + 1 = k BY <1>0, <2>1, <4>3
        <5>2. in_queue'[k - 1] = in_queue[k] BY <2>1, <5>1
        <5> QED BY <4>1, <5>1, <5>2 DEF Waits
      <4> QED BY <4>2, <4>3
    <3>2. CASE \E v \in Procs : worker[v].i = i BY <2>2, <3>0, <3>2, ItemFacts DEF Waits
    <3>3. CASE \E k \in 1..Len(out_queue) : out_queue[k].i = i BY <2>2, <3>3 DEF Waits
    <3> QED BY <2>3, <3>1, <3>2, <3>3 DEF Waits
  <2>4. Died => Died' BY <2>2, ItemFacts
  <2> QED BY <1>g, <2>2, <2>3, <2>4
<1>11. ASSUME NEW w \in Procs, ProcessorPut(w) PROVE CoverInv'
  <2> DEFINE m == IF encoding[worker[w].sample] = "ok" THEN worker[w] ELSE [worker[w] EXCEPT !.sample = 0]
  <2>1. m \in Results /\ m.i = worker[w].i /\ worker[w] \in Items
    BY <1>11 DEF ProcessorPut, Items, Results
  <2>2. out_queue' = Append(out_queue, m) BY <1>11 DEF ProcessorPut
  <2> HIDE DEF m
  <2>3. /\ Len(out_queue') = Len(out_queue) + 1 /\ out_queue'[Len(out_queue) + 1] = m
        /\ \A k \in 1..Len(out_queue) : out_queue'[k] = out_queue[k] /\ k \in 1..Len(out_queue')
        /\ Len(out_queue) + 1 \in 1..Len(out_queue')
    BY <1>0, <2>1, <2>2, AppendFacts
  <2>4. /\ UNCHANGED <<mainVars, in_queue>>
        /\ \A v \in Procs : worker'[v] = IF v = w THEN Idle ELSE worker[v]
    BY <1>0, <1>11 DEF ProcessorPut
  <2>5. ASSUME NEW i \in Positions, Waits(i) PROVE Waits(i)'
    <3>1. CASE \E k \in 1..Len(in_queue) : in_queue[k].i = i BY <2>4, <3>1 DEF Waits
    <3>2. CASE \E v \in Procs : worker[v].i = i
      <4>1. PICK v \in Procs : worker[v].i = i BY <3>2
      <4>2. CASE v = w BY <2>1, <2>3, <4>1, <4>2 DEF Waits
      <4>3. CASE v # w BY <2>4, <4>1, <4>3 DEF Waits
      <4> QED BY <4>2, <4>3
    <3>3. CASE \E k \in 1..Len(out_queue) : out_queue[k].i = i BY <2>3, <3>3 DEF Waits
    <3> QED BY <2>5, <3>1, <3>2, <3>3 DEF Waits
  <2>6. Died => Died' BY <2>1, <2>4, ItemFacts
  <2> QED BY <1>g, <2>4, <2>5, <2>6
<1>12. ASSUME NEW w \in Procs, ProcessorRaises(w) PROVE CoverInv'
  <2>1. UNCHANGED mainVars /\ worker' = [worker EXCEPT ![w] = Dead] BY <1>12 DEF ProcessorRaises
  <2>2. Died' BY <1>0, <2>1
  <2> QED BY <1>g, <2>1, <2>2
<1>13. CASE UNCHANGED vars BY <1>g, <1>w, <1>13 DEF vars
<1> QED BY <1>1, <1>2, <1>3, <1>4, <1>5, <1>6, <1>7, <1>8, <1>9, <1>10, <1>11, <1>12, <1>13
        DEF Next, Main, Processor

(* The packer gets what the previous interval held back and the samples of *)
(* this interval that encode.                                              *)
LEMMA PackedSamples ==
    ASSUME TypeOK, CountersInv, CoverInv, PartitionInv, pc = "pack"
    PROVE  /\ {res[i] : i \in 0..(num_samples - 1)} \ {0} = Encoded \cap (next - put)..(next - 1)
           /\ (UNION yielded) \cup data \cup (Encoded \cap (next - put)..(next - 1))
                 = Encoded \cap 1..(next - 1)
<1>0. /\ NumSamples \in Nat /\ PackingInterval \in Nat /\ next \in 1..(NumSamples + 1)
      /\ put \in 0..PackingInterval /\ put < next /\ num_samples = put
  BY PackingAssumption DEF TypeOK, CountersInv
<1>1. \A i \in 0..(put - 1) : res[i] = AnswerAt(i) BY DEF CoverInv
<1>2. Encoded \subseteq Nat /\ 0 \notin Encoded BY <1>0 DEF Encoded, Samples
<1>3. ASSUME NEW s \in Encoded \cap (next - put)..(next - 1)
      PROVE  s \in {res[i] : i \in 0..(put - 1)} \ {0}
  <2>1. s - (next - put) \in 0..(put - 1) /\ SampleAt(s - (next - put)) = s
    BY <1>0 DEF SampleAt
  <2> QED BY <1>1, <1>2, <2>1 DEF AnswerAt
<1>4. ASSUME NEW i \in 0..(put - 1), res[i] # 0
      PROVE  res[i] \in Encoded \cap (next - put)..(next - 1)
  BY <1>0, <1>1, <1>4 DEF AnswerAt, SampleAt
<1>5. (UNION yielded) \cup data = Encoded \cap 1..(next - put - 1) BY DEF PartitionInv
<1>6. 1..(next - put - 1) \cup (next - put)..(next - 1) = 1..(next - 1) BY <1>0
<1>7. {res[i] : i \in 0..(num_samples - 1)} \ {0} = Encoded \cap (next - put)..(next - 1)
  BY <1>0, <1>3, <1>4
<1>8. (UNION yielded) \cup data \cup (Encoded \cap (next - put)..(next - 1))
        = Encoded \cap (1..(next - put - 1) \cup (next - put)..(next - 1))
  BY <1>5, Cut
<1> QED BY <1>6, <1>7, <1>8

(* The packs and the bin held back stay a partition.                       *)
LEMMA PartitionStep ==
    ASSUME TypeOK, CountersInv, CoverInv, PartitionInv, [Next]_vars
    PROVE  PartitionInv'
<1> USE DEF mainVars
<1>0. /\ NumSamples \in Nat /\ PackingInterval \in Nat /\ next \in 1..(NumSamples + 1)
      /\ put \in 0..PackingInterval /\ put < next
  BY PackingAssumption DEF TypeOK, CountersInv
<1>e. Encoded' = Encoded
  <2>1. encoding' = encoding
    BY DEF Next, Main, Iter, PutData, PutEnd, FetchData, FetchEnd, CalculateMatchedGroup, Yield,
           Abandon, YieldEnd, Processor, ProcessorGet, ProcessorPut, ProcessorRaises, vars
  <2> QED BY <2>1 DEF Encoded
<1>1. CASE Iter
  <2>1. next' = 1 /\ put' = 0 /\ data' = {} /\ packs' = {} /\ yielded' = {} BY <1>1 DEF Iter
  <2>2. pc' = "put" \/ (pc' = "end" /\ NumSamples = 0) BY <1>1 DEF Iter
  <2>3. 1..(next' - put' - 1) = {} BY <2>1
  <2>4. NumSamples = 0 => Encoded' = {} BY <1>e DEF Encoded, Samples
  <2> QED BY <2>1, <2>2, <2>3, <2>4 DEF PartitionInv, Given
<1>2. CASE PutData
  <2>1. next' - put' - 1 = next - put - 1 BY <1>0, <1>2 DEF PutData
  <2>2. pc = "put" /\ pc' = pc /\ UNCHANGED <<data, packs, yielded>> BY <1>2 DEF PutData
  <2> QED BY <1>e, <2>1, <2>2 DEF PartitionInv, Given
<1>f. ASSUME UNCHANGED <<next, put, data, packs, yielded>>, pc \in {"put", "fetch"}, pc' \in {"put", "fetch", "pack"}
      PROVE  PartitionInv'
  BY <1>e, <1>f DEF PartitionInv, Given
<1>3. CASE PutEnd BY <1>f, <1>3 DEF PutEnd
<1>4. CASE FetchData BY <1>f, <1>4 DEF FetchData
<1>5. CASE FetchEnd BY <1>f, <1>5 DEF FetchEnd
<1>6. CASE CalculateMatchedGroup
  <2> DEFINE new == Encoded \cap (next - put)..(next - 1)
             samples == data \cup new
  <2>1. /\ pc = "pack" /\ pc' = "yield" /\ UNCHANGED <<next, put, num_samples, yielded>>
        /\ packs = {} /\ (UNION yielded) \cup data = Encoded \cap 1..(next - put - 1)
    BY <1>6 DEF CalculateMatchedGroup, PartitionInv
  <2>2. PICK bins \in BinPackings(samples, length, PackingLength) :
              \/ (bins = {} \/ Finished) /\ packs' = bins /\ data' = {}
              \/ ~Finished /\ \E last \in bins : packs' = bins \ {last} /\ data' = last
    <3>1. {res[i] : i \in 0..(num_samples - 1)} \ {0} = new BY <2>1, PackedSamples
    <3> QED BY <1>6, <3>1 DEF CalculateMatchedGroup
  <2>3. (UNION yielded) \cup samples = Encoded \cap 1..(next - 1) BY <2>1, PackedSamples
  <2>4. \A p \in yielded : p \cap samples = {}
    <3>1. \A p \in yielded : p \cap data = {} BY DEF PartitionInv, Given
    <3>2. \A p \in yielded : p \subseteq 1..(next - put - 1) BY <2>1
    <3>3. 1..(next - put - 1) \cap (next - put)..(next - 1) = {} BY <1>0
    <3> QED BY <3>1, <3>2, <3>3
  <2> HIDE DEF samples
  <2>5. UNION bins = samples /\ \A p, q \in bins : p # q => p \cap q = {} BY BinFacts
  <2>6. \A p \in yielded, q \in bins : p \cap q = {} BY <2>4, <2>5
  <2>7. \A p, q \in yielded : p # q => p \cap q = {} BY DEF PartitionInv, Given
  <2>8. /\ packs' \subseteq bins /\ (UNION packs') \cup data' = samples
        /\ (data' = {} \/ (data' \in bins /\ data' \notin packs'))
        /\ (Finished => data' = {})
    <3>1. CASE (bins = {} \/ Finished) /\ packs' = bins /\ data' = {} BY <2>5, <3>1
    <3>2. CASE ~Finished /\ \E last \in bins : packs' = bins \ {last} /\ data' = last
      <4>1. PICK last \in bins : packs' = bins \ {last} /\ data' = last BY <3>2
      <4>2. (UNION (bins \ {last})) \cup last = UNION bins BY UnionWithout
      <4> QED BY <2>5, <3>2, <4>1, <4>2
    <3> QED BY <2>2, <3>1, <3>2
  <2>9. \A p, q \in yielded \cup packs' : p # q => p \cap q = {} BY <2>5, <2>6, <2>7, <2>8
  <2>10. \A p \in yielded \cup packs' : p \cap data' = {} BY <2>5, <2>6, <2>8
  <2>11. (UNION (yielded \cup packs')) \cup data' = Encoded \cap 1..(next - 1)
    <3>1. UNION (yielded \cup packs') = (UNION yielded) \cup (UNION packs') BY UnionOfUnions
    <3>2. (UNION yielded) \cup (UNION packs') \cup data' = (UNION yielded) \cup samples BY <2>8
    <3> QED BY <2>3, <3>1, <3>2
  <2>12. Finished' <=> Finished BY <2>1 DEF Finished
  <2> QED BY <1>e, <2>1, <2>8, <2>9, <2>10, <2>11, <2>12 DEF PartitionInv, Given
<1>7. CASE Yield
  <2>1. /\ pc = "yield" /\ pc' = pc /\ UNCHANGED <<next, data, num_samples>> /\ Given' = Given
    BY <1>7 DEF Yield, Given
  <2>2. Finished' <=> Finished BY <2>1 DEF Finished
  <2> QED BY <1>e, <2>1, <2>2 DEF PartitionInv
<1>8. CASE Abandon
  <2>1. pc' = "end" /\ stopped' = TRUE /\ data' = data /\ Given' = Given
    BY <1>8 DEF Abandon, Given
  <2> QED BY <2>1 DEF PartitionInv
<1>9. CASE YieldEnd
  <2>1. /\ pc = "yield" /\ packs = {} /\ packs' = {} /\ put' = 0
        /\ UNCHANGED <<next, data, yielded>> /\ pc' = IF Finished THEN "end" ELSE "put"
    BY <1>9 DEF YieldEnd
  <2>2. (UNION yielded) \cup data = Encoded \cap 1..(next - 1)
    BY <2>1 DEF PartitionInv, Given
  <2>3. next' - put' - 1 = next - 1 BY <1>0, <2>1
  <2>4. Finished => data = {} /\ next = NumSamples + 1
    BY <2>1 DEF PartitionInv, CountersInv
  <2>5. Finished => UNION yielded = Encoded
    <3>1. Encoded \subseteq 1..NumSamples BY DEF Encoded, Samples
    <3>2. Finished => next - 1 = NumSamples BY <1>0, <2>4
    <3>3. Finished => UNION yielded = Encoded \cap 1..NumSamples BY <2>2, <2>4, <3>2
    <3> QED BY <3>1, <3>3
  <2> QED BY <1>e, <2>1, <2>2, <2>3, <2>5 DEF PartitionInv, Given
<1>10. ASSUME NEW w \in Procs, Processor(w) PROVE UNCHANGED mainVars
  BY <1>10 DEF Processor, ProcessorGet, ProcessorPut, ProcessorRaises
<1>11. CASE UNCHANGED mainVars BY <1>e, <1>11 DEF PartitionInv, Given, Finished
<1> QED BY <1>1, <1>2, <1>3, <1>4, <1>5, <1>6, <1>7, <1>8, <1>9, <1>10, <1>11
        DEF Next, Main, vars

(* The inductive invariant of the streaming dataset.                       *)
LEMMA StreamInvariance == Spec => []StreamInv
<1>1. Init => StreamInv
  <2> SUFFICES ASSUME Init PROVE StreamInv
    OBVIOUS
  <2> USE DEF Init
  <2>0. /\ NumSamples \in Nat /\ PackingInterval \in Nat /\ MaxIters \in Nat BY PackingAssumption
  <2>1. TypeOK
    <3>1. next \in 1..(NumSamples + 1) /\ put \in 0..PackingInterval /\ iters \in 0..MaxIters
          /\ num_samples \in 0..PackingInterval /\ fetched \in 0..PackingInterval
      BY <2>0
    <3>2. res \in [Positions -> Samples \cup {0}] BY DEF NoResult
    <3>3. in_queue \in Seq(Items) /\ out_queue \in Seq(Results) OBVIOUS
    <3>4. worker \in [Procs -> Items \cup {Idle, Dead}] OBVIOUS
    <3> QED BY <3>1, <3>2, <3>3, <3>4 DEF TypeOK
  <2>2. CountersInv BY DEF CountersInv
  <2>3. CountInv
    <3>1. Busy = {} BY DEF Busy
    <3>2. Cardinality(Busy) = 0 BY <3>1, FS_EmptySet
    <3> QED BY <3>2 DEF CountInv, InFlight
  <2>4. FlightInv BY ItemFacts DEF FlightInv
  <2>5. CoverInv BY DEF CoverInv
  <2>6. PartitionInv BY DEF PartitionInv, Given
  <2> QED BY <2>1, <2>2, <2>3, <2>4, <2>5, <2>6 DEF StreamInv
<1>2. StreamInv /\ [Next]_vars => StreamInv'
  <2> SUFFICES ASSUME StreamInv, [Next]_vars PROVE StreamInv'
    OBVIOUS
  <2>1. TypeOK /\ CountersInv /\ CountInv /\ FlightInv /\ CoverInv /\ PartitionInv BY DEF StreamInv
  <2> QED BY <2>1, StreamTypeStep, CountersStep, CountStep, FlightStep, CoverStep, PartitionStep
          DEF StreamInv
<1> QED BY <1>1, <1>2, PTL DEF Spec

(* A behaviour of the packed dataset is one of the streaming dataset, or   *)
(* leaves it alone.                                                        *)
LEMMA StreamOfPacking == PackingSpec => Spec
<1>1. PackingInit => Init BY DEF PackingInit
<1>2. [PackingNext]_packingVars => [Next]_vars BY DEF PackingNext, packingVars, vars
<1> QED BY <1>1, <1>2, PTL DEF PackingSpec, Spec

(* Whatever order the processes answer in, position i of an interval holds *)
(* the i-th sample of that interval when it is packed, or nothing if that  *)
(* sample does not encode (_fetch_data_out_queue).                         *)
THEOREM IntervalsKeepOrder == PackingSpec => []PackedInDatasetOrder
<1>1. StreamInv => PackedInDatasetOrder
  BY DEF StreamInv, CountersInv, CoverInv, PackedInDatasetOrder, AnswerAt, SampleAt
<1> QED BY <1>1, StreamOfPacking, StreamInvariance, PTL

(* While packs are handed out, and after the iteration, the queues are     *)
(* empty and every process waits: an iteration that is dropped leaves      *)
(* nothing for the next one.                                               *)
THEOREM NothingInFlightAtYield == PackingSpec => []QuietYield
<1>1. StreamInv => QuietYield
  BY QuietFacts DEF StreamInv, CountInv, QuietYield
<1> QED BY <1>1, StreamOfPacking, StreamInvariance, PTL

(* No sample is packed twice in an iteration, and an iteration that ends   *)
(* has yielded every sample that encodes.                                  *)
THEOREM SamplesAreYieldedOnce == PackingSpec => []EachSampleOnce
<1>1. StreamInv => EachSampleOnce
  BY DEF StreamInv, PartitionInv, Given, EachSampleOnce
<1> QED BY <1>1, StreamOfPacking, StreamInvariance, PTL

-----------------------------------------------------------------------------
(* PackingDataset.                                                         *)

(* The smaller of two numbers.                                             *)
LEMMA MinFacts ==
    ASSUME NEW a \in Int, NEW b \in Int
    PROVE  Min({a, b}) \in {a, b} /\ Min({a, b}) <= a /\ Min({a, b}) <= b
<1>1. \E x \in {a, b} : \A y \in {a, b} : x <= y OBVIOUS
<1>2. Min({a, b}) \in {a, b} /\ \A y \in {a, b} : Min({a, b}) <= y BY <1>1 DEF Min
<1> QED BY <1>2

(* A dataset that is not empty has a worker.                               *)
LEMMA NumWorkersFacts ==
    NumWorkers \in Nat /\ (NumRows > 0 => NumWorkers > 0)
<1> DEFINE n == (NumRows + BatchSize - 1) \div BatchSize
<1>0. NumRows \in Nat /\ BatchSize \in Nat \ {0} /\ PackingNumProc \in Nat \ {0}
  BY PackedIndexAssumption
<1>1. NumRows + BatchSize - 1 \in Nat BY <1>0
<1>2. n \in Nat /\ (NumRows + BatchSize - 1) < (n + 1) * BatchSize BY <1>0, <1>1, DivFacts
<1>3. NumRows > 0 => n > 0
  <2>1. n = 0 => (n + 1) * BatchSize = BatchSize BY <1>0, <1>2
  <2> HIDE DEF n
  <2> QED BY <1>0, <1>2, <2>1
<1>4. NumWorkers = Min({PackingNumProc, n}) BY DEF NumWorkers
<1> HIDE DEF n
<1>5. PackingNumProc \in Int /\ n \in Int BY <1>0, <1>2
<1>6. Min({PackingNumProc, n}) \in {PackingNumProc, n} BY <1>5, MinFacts
<1> QED BY <1>0, <1>2, <1>3, <1>4, <1>6

(* The bounds of the chunks rise from 0 to the number of rows.             *)
LEMMA BoundMonotone ==
    ASSUME NEW r \in 0..NumWorkers, NEW s \in 0..NumWorkers, r <= s, NumWorkers > 0
    PROVE  Bound(r) \in Nat /\ Bound(s) \in Nat /\ Bound(r) <= Bound(s) /\ Bound(s) <= NumRows
<1>0. NumRows \in Nat /\ NumWorkers \in Nat \ {0} /\ r \in Nat /\ s \in Nat /\ s <= NumWorkers
  BY PackedIndexAssumption, NumWorkersFacts
<1>1. r * NumRows \in Nat /\ s * NumRows \in Nat /\ r * NumRows <= s * NumRows
  BY <1>0, TimesMonotone
<1>2. NumWorkers * NumRows \in Nat /\ s * NumRows <= NumWorkers * NumRows
  BY <1>0, TimesMonotone
<1>3. (r * NumRows) \div NumWorkers <= (s * NumRows) \div NumWorkers
  BY <1>0, <1>1, DivMonotone
<1>4. (s * NumRows) \div NumWorkers <= (NumWorkers * NumRows) \div NumWorkers
  BY <1>0, <1>1, <1>2, DivMonotone
<1>5. (NumWorkers * NumRows) \div NumWorkers = NumRows BY <1>0
<1>6. (r * NumRows) \div NumWorkers \in Nat /\ (s * NumRows) \div NumWorkers \in Nat
  BY <1>0, <1>1, DivFacts
<1> QED BY <1>3, <1>4, <1>5, <1>6 DEF Bound

(* Every row is in the chunk of a worker.                                  *)
LEMMA ChunksCover ==
    ASSUME NEW i \in Indices
    PROVE  \E r \in Ranks : Bound(r) <= i /\ i < Bound(r + 1)
<1>0. NumRows \in Nat \ {0} /\ NumWorkers \in Nat \ {0} /\ i \in Nat /\ i + 1 <= NumRows
  BY PackedIndexAssumption, NumWorkersFacts DEF Indices
<1> DEFINE a == (i + 1) * NumWorkers - 1
           r == a \div NumRows
<1>1. a \in Nat /\ a + 1 = (i + 1) * NumWorkers
  <2>1. 1 * NumWorkers <= (i + 1) * NumWorkers BY <1>0, TimesMonotone
  <2> QED BY <1>0, <2>1
<1> HIDE DEF a
<1>2. r \in Nat /\ r * NumRows <= a /\ a < (r + 1) * NumRows /\ r * NumRows \in Nat
      /\ (r + 1) * NumRows \in Nat
  BY <1>0, <1>1, DivFacts
<1> HIDE DEF r
<1>3. r < NumWorkers
  <2>1. SUFFICES ASSUME NumWorkers <= r PROVE FALSE BY <1>0, <1>2
  <2>2. NumWorkers * NumRows <= r * NumRows BY <1>0, <1>2, <2>1, TimesMonotone
  <2>3. (i + 1) * NumWorkers <= NumRows * NumWorkers BY <1>0, TimesMonotone
  <2>4. NumWorkers * NumRows = NumRows * NumWorkers /\ NumWorkers * NumRows \in Nat BY <1>0
  <2> QED BY <1>1, <1>2, <2>2, <2>3, <2>4
<1>4. Bound(r) <= i
  <2> DEFINE p == Bound(r)
  <2>1. p \in Nat /\ p * NumWorkers <= r * NumRows /\ p * NumWorkers \in Nat
    BY <1>0, <1>2, DivFacts DEF Bound
  <2> HIDE DEF p
  <2>2. SUFFICES ASSUME i + 1 <= p PROVE FALSE BY <1>0, <2>1 DEF p
  <2>3. (i + 1) * NumWorkers <= p * NumWorkers BY <1>0, <2>1, <2>2, TimesMonotone
  <2> QED BY <1>1, <1>2, <2>1, <2>3
<1>5. i < Bound(r + 1)
  <2> DEFINE p == Bound(r + 1)
  <2>1. p \in Nat /\ (r + 1) * NumRows < (p + 1) * NumWorkers /\ (p + 1) * NumWorkers \in Nat
    BY <1>0, <1>2, DivFacts DEF Bound
  <2> HIDE DEF p
  <2>2. SUFFICES ASSUME p <= i PROVE FALSE BY <1>0, <2>1 DEF p
  <2>3. (p + 1) * NumWorkers <= (i + 1) * NumWorkers BY <1>0, <2>1, <2>2, TimesMonotone
  <2> QED BY <1>1, <1>2, <2>1, <2>3
<1> QED BY <1>0, <1>2, <1>3, <1>4, <1>5 DEF Ranks

(* A batch: the rows after those a worker has read, in its chunk.          *)
LEMMA BatchFacts ==
    ASSUME MapType, ReadInv, NEW r \in Ranks
    PROVE  LET size == Min({BatchSize, ChunkSize(r) - taken[r]})
           IN  /\ Bound(r) \in Nat /\ ChunkSize(r) \in Nat /\ taken[r] \in Nat
               /\ size \in 0..BatchSize /\ taken[r] + size <= ChunkSize(r)
               /\ (Bound(r) + taken[r])..(Bound(r) + taken[r] + size - 1) \subseteq Indices
<1> DEFINE size == Min({BatchSize, ChunkSize(r) - taken[r]})
<1>0. /\ NumRows \in Nat /\ BatchSize \in Nat /\ taken[r] \in Nat /\ taken[r] <= ChunkSize(r)
  BY PackedIndexAssumption DEF MapType, ReadInv, ReadAt
<1>1. r \in 0..NumWorkers /\ r + 1 \in 0..NumWorkers /\ NumWorkers > 0 /\ r <= r + 1
  BY NumWorkersFacts DEF Ranks
<1>2. Bound(r) \in Nat /\ Bound(r + 1) \in Nat /\ Bound(r) <= Bound(r + 1) /\ Bound(r + 1) <= NumRows
  BY <1>1, BoundMonotone
<1>3. ChunkSize(r) \in Nat /\ Bound(r) + ChunkSize(r) <= NumRows BY <1>2 DEF ChunkSize
<1>4. ChunkSize(r) - taken[r] \in Int /\ BatchSize \in Int BY <1>0, <1>3
<1>5. /\ size \in {BatchSize, ChunkSize(r) - taken[r]} /\ size <= BatchSize
      /\ size <= ChunkSize(r) - taken[r]
  BY <1>4, MinFacts
<1> HIDE DEF size
<1>6. size \in 0..BatchSize /\ taken[r] + size <= ChunkSize(r) BY <1>0, <1>3, <1>5
<1>7. (Bound(r) + taken[r])..(Bound(r) + taken[r] + size - 1) \subseteq Indices
  BY <1>0, <1>2, <1>3, <1>6 DEF Indices
<1> QED BY <1>0, <1>2, <1>3, <1>6, <1>7 DEF size

(* Every variable of the map-style dataset keeps its type.                 *)
LEMMA MapTypeStep ==
    ASSUME MapInv, [MapNext]_mapVars
    PROVE  MapType'
<1> DEFINE Messages == [packs : SUBSET SUBSET Indices, len : -1..BatchSize]
<1>0. /\ NumRows \in Nat /\ BatchSize \in Nat /\ BatchSize > 0 BY PackedIndexAssumption
<1> USE DEF MapType
<1>t. MapType BY DEF MapInv
<1>1. ASSUME NEW r \in Ranks, PackBatch(r) PROVE MapType'
  <2> DEFINE size == Min({BatchSize, ChunkSize(r) - taken[r]})
             input == input_data[r] \cup (Bound(r) + taken[r])..(Bound(r) + taken[r] + size - 1)
  <2>1. PICK bins \in BinPackings(input, lengths, MapPackingLength) :
              \/ Send(r, bins, size) /\ input_data' = [input_data EXCEPT ![r] = {}]
              \/ \E last \in bins :
                      /\ Send(r, bins \ {last}, size)
                      /\ input_data' = [input_data EXCEPT ![r] = last]
    BY <1>1 DEF PackBatch
  <2>2. taken' = [taken EXCEPT ![r] = @ + size]
        /\ UNCHANGED <<lengths, master, finished_workers, packed_idx, progress, sending>>
    BY <1>1 DEF PackBatch
  <2>3. size \in 0..BatchSize /\ taken[r] \in Nat /\ input \subseteq Indices
    <3>1. ReadInv BY DEF MapInv
    <3>2. size \in 0..BatchSize /\ (Bound(r) + taken[r])..(Bound(r) + taken[r] + size - 1) \subseteq Indices
      BY <1>t, <3>1, BatchFacts
    <3> QED BY <1>t, <3>2
  <2> HIDE DEF size, input
  <2>4. UNION bins = input BY BinFacts
  <2>5. \A b \in bins : b \subseteq Indices BY <2>3, <2>4
  <2>6. input_data' \in [Ranks -> SUBSET Indices] BY <1>t, <2>1, <2>5
  <2>7. PICK packs_ \in SUBSET bins : Send(r, packs_, size) BY <2>1
  <2>8. [packs |-> packs_, len |-> size] \in Messages BY <1>0, <2>3, <2>5, <2>7
  <2>9. channel' = [channel EXCEPT ![r] = Append(channel[r], [packs |-> packs_, len |-> size])]
    BY <2>7 DEF Send
  <2>10. channel' \in [Ranks -> Seq(Messages)] BY <1>t, <2>8, <2>9, AppendFacts
  <2>11. taken' \in [Ranks -> Nat]
    <3>1. taken[r] + size \in Nat BY <1>0, <2>3
    <3> QED BY <1>t, <2>2, <3>1
  <2> QED BY <1>t, <2>2, <2>6, <2>10, <2>11
<1>2. ASSUME NEW r \in Ranks, SendEnd(r) PROVE MapType'
  <2>1. [packs |-> {}, len |-> -1] \in Messages BY <1>0
  <2>2. channel' = [channel EXCEPT ![r] = Append(channel[r], [packs |-> {}, len |-> -1])]
    BY <1>2 DEF SendEnd, Send
  <2>3. channel' \in [Ranks -> Seq(Messages)] BY <1>t, <2>1, <2>2, AppendFacts
  <2> QED BY <1>t, <1>2, <2>3 DEF SendEnd
<1>3. ASSUME NEW r \in Ranks, GetMessage(r) PROVE MapType'
  <2> DEFINE m == Head(channel[r])
  <2>1. m \in Messages /\ Tail(channel[r]) \in Seq(Messages)
    <3>1. channel[r] \in Seq(Messages) /\ channel[r] # <<>> BY <1>t, <1>3 DEF GetMessage
    <3> QED BY <3>1, TailFacts
  <2>2. channel' = [channel EXCEPT ![r] = Tail(channel[r])] BY <1>3 DEF GetMessage
  <2>3. channel' \in [Ranks -> Seq(Messages)] BY <1>t, <2>1, <2>2
  <2>4. UNCHANGED <<lengths, master, taken, input_data, sending>> BY <1>3 DEF GetMessage
  <2>5. \/ finished_workers' = finished_workers + 1 /\ UNCHANGED <<packed_idx, progress>>
        \/ /\ m.len # -1 /\ progress' = progress + m.len /\ UNCHANGED finished_workers
           /\ packed_idx' = [packed_idx EXCEPT ![r] = @ \cup m.packs]
    BY <1>3 DEF GetMessage
  <2> HIDE DEF m
  <2>6. finished_workers' \in Nat /\ progress' \in Nat
    <3>1. m.len \in -1..BatchSize BY <2>1
    <3>2. m.len # -1 => m.len \in Nat BY <1>0, <3>1
    <3>3. finished_workers \in Nat /\ progress \in Nat BY <1>t
    <3> QED BY <2>5, <3>2, <3>3
  <2>7. packed_idx' \in [Ranks -> SUBSET SUBSET Indices]
    <3>1. m.packs \subseteq SUBSET Indices /\ packed_idx[r] \subseteq SUBSET Indices BY <1>t, <2>1
    <3>2. packed_idx[r] \cup m.packs \in SUBSET SUBSET Indices BY <3>1
    <3> QED BY <1>t, <2>5, <3>2
  <2> QED BY <1>t, <2>3, <2>4, <2>6, <2>7
<1>4. CASE DrainEnd BY <1>t, <1>4 DEF DrainEnd
<1>5. CASE UNCHANGED mapVars BY <1>t, <1>5 DEF mapVars
<1> QED BY <1>1, <1>2, <1>3, <1>4, <1>5 DEF MapNext, Master, Worker

(* A message that is sent adds its packs to a channel; one that is         *)
(* received takes its own away.                                            *)
LEMMA PacksSent ==
    ASSUME NEW S, NEW c \in Seq(S), NEW m \in S
    PROVE  PacksIn(Append(c, m)) = PacksIn(c) \cup m.packs
<1> DEFINE d == Append(c, m)
<1>1. /\ Len(c) \in Nat /\ Len(d) = Len(c) + 1 /\ d[Len(c) + 1] = m
      /\ \A k \in 1..Len(c) : d[k] = c[k]
  BY AppendFacts
<1> HIDE DEF d
<1>2. Len(c) + 1 \in 1..Len(d) /\ \A k \in 1..Len(c) : k \in 1..Len(d) BY <1>1
<1>3. ASSUME NEW p \in PacksIn(d) PROVE p \in PacksIn(c) \cup m.packs
  <2>1. PICK k \in 1..Len(d) : p \in d[k].packs BY DEF PacksIn
  <2>2. k = Len(c) + 1 \/ k \in 1..Len(c) BY <1>1
  <2> QED BY <1>1, <2>1, <2>2 DEF PacksIn
<1>4. ASSUME NEW p \in PacksIn(c) PROVE p \in PacksIn(d)
  <2>1. PICK k \in 1..Len(c) : p \in c[k].packs BY DEF PacksIn
  <2> QED BY <1>1, <1>2, <2>1 DEF PacksIn
<1>5. ASSUME NEW p \in m.packs PROVE p \in PacksIn(d)
  BY <1>1, <1>2 DEF PacksIn
<1> QED BY <1>3, <1>4, <1>5 DEF d

LEMMA PacksReceived ==
    ASSUME NEW S, NEW c \in Seq(S), c # <<>>
    PROVE  PacksIn(c) = PacksIn(Tail(c)) \cup Head(c).packs
<1> DEFINE d == Tail(c)
<1>1. /\ Len(c) \in Nat /\ Len(c) >= 1 /\ Len(d) = Len(c) - 1 /\ Head(c) = c[1]
      /\ \A k \in 1..Len(d) : d[k] = c[k + 1] /\ k + 1 \in 1..Len(c)
  BY TailFacts
<1> HIDE DEF d
<1>2. ASSUME NEW p \in PacksIn(c) PROVE p \in PacksIn(d) \cup Head(c).packs
  <2>1. PICK k \in 1..Len(c) : p \in c[k].packs BY DEF PacksIn
  <2>2. CASE k = 1 BY <1>1, <2>1, <2>2
  <2>3. CASE k # 1
    <3>1. k - 1 \in 1..Len(d) /\ (k - 1) + 1 = k BY <1>1, <2>3
    <3>2. d[k - 1] = c[k] BY <1>1, <3>1
    <3> QED BY <2>1, <3>1, <3>2 DEF PacksIn
  <2> QED BY <2>2, <2>3
<1>3. ASSUME NEW p \in PacksIn(d) PROVE p \in PacksIn(c)
  <2>1. PICK k \in 1..Len(d) : p \in d[k].packs BY DEF PacksIn
  <2> QED BY <1>1, <2>1 DEF PacksIn
<1>4. ASSUME NEW p \in Head(c).packs PROVE p \in PacksIn(c)
  <2>1. 1 \in 1..Len(c) BY <1>1
  <2> QED BY <1>1, <2>1 DEF PacksIn
<1> QED BY <1>2, <1>3, <1>4 DEF d

(* A step that leaves a worker alone, up to where its packs are.           *)
LEMMA ReadFrame ==
    ASSUME NEW r \in Ranks, ReadAt(r), taken'[r] = taken[r], input_data'[r] = input_data[r],
           sending'[r] = sending[r], PacksOf(r)' = PacksOf(r)
    PROVE  ReadAt(r)'
<1>1. Read(r)' = Read(r) BY DEF Read
<1> QED BY <1>1 DEF ReadAt

(* What a worker has read stays in its packs or in the bin it holds back.  *)
LEMMA ReadStep ==
    ASSUME MapInv, [MapNext]_mapVars
    PROVE  ReadInv'
<1> DEFINE Messages == [packs : SUBSET SUBSET Indices, len : -1..BatchSize]
<1>0. /\ packed_idx \in [Ranks -> SUBSET SUBSET Indices] /\ taken \in [Ranks -> Nat]
      /\ input_data \in [Ranks -> SUBSET Indices] /\ sending \in [Ranks -> {"run", "exit"}]
      /\ channel \in [Ranks -> Seq(Messages)]
  BY DEF MapInv, MapType
<1>a. SUFFICES ASSUME NEW q \in Ranks PROVE ReadAt(q)'
  BY DEF ReadInv
<1>b. ReadAt(q) /\ ReadInv /\ MapType BY DEF MapInv, ReadInv
<1>c. channel[q] \in Seq(Messages) BY <1>0
<1>1. ASSUME NEW r \in Ranks, PackBatch(r) PROVE ReadAt(q)'
  <2>0. UNCHANGED <<packed_idx, sending>> BY <1>1 DEF PackBatch
  <2>1. CASE q # r
    <3>1. taken'[q] = taken[q] /\ input_data'[q] = input_data[q] /\ channel'[q] = channel[q]
      BY <1>0, <1>1, <2>1 DEF PackBatch, Send
    <3> QED BY <1>b, <2>0, <3>1, ReadFrame DEF PacksOf
  <2>2. CASE q = r
    <3> DEFINE size == Min({BatchSize, ChunkSize(q) - taken[q]})
               first == Bound(q) + taken[q]
               new == first..(first + size - 1)
               input == input_data[q] \cup new
    <3>1. PICK bins \in BinPackings(input, lengths, MapPackingLength) :
              \/ Send(q, bins, size) /\ input_data' = [input_data EXCEPT ![q] = {}]
              \/ \E last \in bins :
                      /\ Send(q, bins \ {last}, size)
                      /\ input_data' = [input_data EXCEPT ![q] = last]
      BY <1>1, <2>2 DEF PackBatch
    <3>2. taken' = [taken EXCEPT ![q] = @ + size] /\ sending[q] = "run" BY <1>1, <2>2 DEF PackBatch
    <3>3. /\ Bound(q) \in Nat /\ ChunkSize(q) \in Nat /\ taken[q] \in Nat /\ size \in 0..BatchSize
          /\ taken[q] + size <= ChunkSize(q) /\ new \subseteq Indices
      BY <1>b, BatchFacts
    <3>4. BatchSize \in Nat BY PackedIndexAssumption
    <3> HIDE DEF size
    <3>5. taken'[q] = taken[q] + size BY <1>0, <3>2
    <3>6. Read(q) \cup new = Read(q)' /\ Read(q) \cap new = {}
      <4>1. Read(q) = Bound(q)..(first - 1) BY <3>3 DEF Read
      <4>2. Read(q)' = Bound(q)..(first + size - 1) BY <3>3, <3>5 DEF Read
      <4>3. first \in Nat /\ Bound(q) <= first /\ size \in Nat BY <3>3, <3>4
      <4> HIDE DEF first
      <4> QED BY <3>3, <4>1, <4>2, <4>3
    <3>7. \A p \in PacksOf(q) : p \cap input = {}
      <4>1. \A p \in PacksOf(q) : p \subseteq Read(q) /\ p \cap input_data[q] = {}
        BY <1>b DEF ReadAt
      <4> HIDE DEF new
      <4> QED BY <3>6, <4>1
    <3>8. (UNION PacksOf(q)) \cup input = Read(q)'
      <4> HIDE DEF new
      <4>1. (UNION PacksOf(q)) \cup input_data[q] = Read(q) BY <1>b DEF ReadAt
      <4> QED BY <3>6, <4>1
    <3>9. input \subseteq Indices BY <1>0, <3>3
    <3> HIDE DEF input, new, first
    <3>10. UNION bins = input /\ \A p, s \in bins : p # s => p \cap s = {} BY BinFacts
    <3>11. PICK sent \in SUBSET bins :
              /\ Send(q, sent, size) /\ (UNION sent) \cup input_data'[q] = input
              /\ \A p \in sent : p \cap input_data'[q] = {}
              /\ input_data'[q] \subseteq input
      <4>1. CASE Send(q, bins, size) /\ input_data' = [input_data EXCEPT ![q] = {}]
        <5>1. input_data'[q] = {} BY <1>0, <4>1
        <5> QED BY <3>10, <4>1, <5>1
      <4>2. ASSUME NEW last \in bins, Send(q, bins \ {last}, size),
                   input_data' = [input_data EXCEPT ![q] = last]
            PROVE  \E sent \in SUBSET bins :
              /\ Send(q, sent, size) /\ (UNION sent) \cup input_data'[q] = input
              /\ \A p \in sent : p \cap input_data'[q] = {}
              /\ input_data'[q] \subseteq input
        <5>1. input_data'[q] = last BY <1>0, <4>2
        <5>2. (UNION (bins \ {last})) \cup last = input BY <3>10, UnionWithout
        <5>3. \A p \in bins \ {last} : p \cap last = {} BY <3>10
        <5>4. last \subseteq input BY <3>10
        <5>5. bins \ {last} \in SUBSET bins OBVIOUS
        <5> QED BY <4>2, <5>1, <5>2, <5>3, <5>4, <5>5
      <4> QED BY <3>1, <4>1, <4>2
    <3>12. PacksOf(q)' = PacksOf(q) \cup sent
      <4> DEFINE m == [packs |-> sent, len |-> size]
      <4>1. m \in Messages /\ m.packs = sent
        <5>1. \A b \in bins : b \subseteq Indices BY <3>9, <3>10
        <5>2. sent \in SUBSET SUBSET Indices BY <3>11, <5>1
        <5>3. size \in -1..BatchSize BY <3>3, <3>4
        <5> QED BY <5>2, <5>3
      <4>2. channel'[q] = Append(channel[q], m) BY <1>0, <3>11 DEF Send
      <4> HIDE DEF m, Messages
      <4>3. PacksIn(Append(channel[q], m)) = PacksIn(channel[q]) \cup m.packs
        BY <1>c, <4>1, PacksSent
      <4> QED BY <2>0, <4>1, <4>2, <4>3 DEF PacksOf
    <3>13. \A p, s \in PacksOf(q) \cup sent : p # s => p \cap s = {}
      <4>1. \A p, s \in PacksOf(q) : p # s => p \cap s = {} BY <1>b DEF ReadAt
      <4>2. \A p \in PacksOf(q), s \in sent : p \cap s = {} BY <3>7, <3>10, <3>11
      <4> QED BY <3>10, <3>11, <4>1, <4>2
    <3>14. \A p \in PacksOf(q) \cup sent : p \cap input_data'[q] = {} BY <3>7, <3>11
    <3>15. (UNION (PacksOf(q) \cup sent)) \cup input_data'[q] = Read(q)'
      <4>1. UNION (PacksOf(q) \cup sent) = (UNION PacksOf(q)) \cup (UNION sent) BY UnionOfUnions
      <4> QED BY <3>8, <3>11, <4>1
    <3> QED BY <2>0, <3>2, <3>3, <3>5, <3>12, <3>13, <3>14, <3>15 DEF ReadAt
  <2> QED BY <2>1, <2>2
<1>2. ASSUME NEW r \in Ranks, SendEnd(r) PROVE ReadAt(q)'
  <2>0. UNCHANGED <<packed_idx, taken, input_data>> BY <1>2 DEF SendEnd
  <2>1. CASE q # r
    <3>1. sending'[q] = sending[q] /\ channel'[q] = channel[q] BY <1>0, <1>2, <2>1 DEF SendEnd, Send
    <3> QED BY <1>b, <2>0, <3>1, ReadFrame DEF PacksOf
  <2>2. CASE q = r
    <3> DEFINE m == [packs |-> {}, len |-> -1]
    <3>1. m \in Messages /\ m.packs = {}
      <4>1. -1 \in -1..BatchSize BY PackedIndexAssumption
      <4> QED BY <4>1
    <3>2. channel'[q] = Append(channel[q], m) BY <1>0, <1>2, <2>2 DEF SendEnd, Send
    <3> HIDE DEF m, Messages
    <3> DEFINE c == channel[q]
    <3>3. PacksIn(Append(c, m)) = PacksIn(c) \cup m.packs
      <4>1. c \in Seq(Messages) BY <1>c
      <4> HIDE DEF c
      <4> QED BY <3>1, <4>1, PacksSent, Zenon
    <3>4. PacksOf(q)' = PacksOf(q) BY <2>0, <3>1, <3>2, <3>3 DEF PacksOf
    <3>5. taken[q] = ChunkSize(q) /\ input_data[q] = {} BY <1>2, <2>2 DEF SendEnd
    <3>6. Read(q)' = Read(q) BY <2>0 DEF Read
    <3> QED BY <1>b, <2>0, <3>4, <3>5, <3>6 DEF ReadAt
  <2> QED BY <2>1, <2>2
<1>3. ASSUME NEW r \in Ranks, GetMessage(r) PROVE ReadAt(q)'
  <2>0. UNCHANGED <<taken, input_data, sending>> BY <1>3 DEF GetMessage
  <2>1. CASE q # r
    <3>1. packed_idx'[q] = packed_idx[q] /\ channel'[q] = channel[q] BY <1>0, <1>3, <2>1 DEF GetMessage
    <3> QED BY <1>b, <2>0, <3>1, ReadFrame DEF PacksOf
  <2>2. CASE q = r
    <3> DEFINE m == Head(channel[q])
    <3>1. channel[q] # <<>> /\ channel'[q] = Tail(channel[q]) BY <1>0, <1>3, <2>2 DEF GetMessage
    <3>2. PacksIn(channel[q]) = PacksIn(Tail(channel[q])) \cup m.packs BY <1>c, <3>1, PacksReceived
    <3>3. PacksOf(q)' = PacksOf(q)
      <4>1. CASE m.len = -1
        <5>1. packed_idx' = packed_idx BY <1>3, <2>2, <4>1 DEF GetMessage
        <5>2. 1 \in 1..Len(channel[q]) /\ m = channel[q][1] BY <1>c, <3>1, TailFacts
        <5>3. m.packs = {} BY <4>1, <5>2 DEF MapInv, MarkerInv, Marker
        <5> QED BY <3>1, <3>2, <5>1, <5>3 DEF PacksOf
      <4>2. CASE m.len # -1
        <5>1. packed_idx'[q] = packed_idx[q] \cup m.packs BY <1>0, <1>3, <2>2, <4>2 DEF GetMessage
        <5> QED BY <3>1, <3>2, <5>1 DEF PacksOf
      <4> QED BY <4>1, <4>2
    <3> QED BY <1>b, <2>0, <3>3, ReadFrame
  <2> QED BY <2>1, <2>2
<1>4. CASE DrainEnd BY <1>b, <1>4, ReadFrame DEF DrainEnd, PacksOf
<1>5. CASE UNCHANGED mapVars BY <1>b, <1>5, ReadFrame DEF mapVars, PacksOf
<1> QED BY <1>1, <1>2, <1>3, <1>4, <1>5 DEF MapNext, Master, Worker

(* The last element of what Append makes is what was appended.             *)
LEMMA LastOfAppend ==
    ASSUME NEW S, NEW c \in Seq(S), NEW m, Append(c, m) \in Seq(S)
    PROVE  m \in S
<1>1. Len(c) \in Nat /\ Len(Append(c, m)) = Len(c) + 1 /\ Append(c, m)[Len(c) + 1] = m
  OBVIOUS
<1>2. Len(c) + 1 \in 1..Len(Append(c, m)) BY <1>1
<1> QED BY <1>1, <1>2, LenFacts

(* The workers are finitely many.                                          *)
LEMMA RanksFinite ==
    /\ IsFiniteSet(Ranks) /\ Cardinality(Ranks) = NumWorkers
    /\ \A E \in SUBSET Ranks : IsFiniteSet(E)
<1>1. NumWorkers \in Nat /\ NumWorkers - 1 \in Int BY NumWorkersFacts
<1>2. IsFiniteSet(Ranks) BY <1>1, FS_Interval DEF Ranks
<1>3. Cardinality(0..(NumWorkers - 1)) = IF 0 > NumWorkers - 1 THEN 0 ELSE NumWorkers - 1 - 0 + 1
  BY <1>1, FS_Interval
<1>4. Cardinality(Ranks) = NumWorkers BY <1>1, <1>3 DEF Ranks
<1> QED BY <1>2, <1>4, FS_Subset

(* A worker sends its marker last and once, and the master counts it once. *)
LEMMA MarkerStep ==
    ASSUME MapInv, [MapNext]_mapVars
    PROVE  MarkerInv'
<1> DEFINE Messages == [packs : SUBSET SUBSET Indices, len : -1..BatchSize]
           At(q) == \A k \in 1..Len(channel[q]) :
                       /\ Marker(channel[q][k]) <=> (sending[q] = "exit" /\ k = Len(channel[q]))
                       /\ Marker(channel[q][k]) => channel[q][k].packs = {}
<1>0. /\ channel \in [Ranks -> Seq(Messages)] /\ sending \in [Ranks -> {"run", "exit"}]
      /\ finished_workers \in Nat
  BY DEF MapInv, MapType
<1>b. /\ \A q \in Ranks : At(q)
      /\ finished_workers = Cardinality(Ended)
      /\ master = "done" => finished_workers = NumWorkers
  BY DEF MapInv, MarkerInv
<1>c. \A q \in Ranks : channel[q] \in Seq(Messages) BY <1>0
<1>e. IsFiniteSet(Ended) BY RanksFinite DEF Ended
<1> HIDE DEF Messages
<1>f. ASSUME NEW q \in Ranks, channel'[q] = channel[q], sending'[q] = sending[q] PROVE At(q)'
  BY <1>b, <1>f
<1>s. ASSUME NEW r \in Ranks, NEW m \in Messages, sending[r] = "run",
             channel' = [channel EXCEPT ![r] = Append(channel[r], m)],
             \/ sending' = sending /\ ~Marker(m)
             \/ sending' = [sending EXCEPT ![r] = "exit"] /\ Marker(m) /\ m.packs = {},
             UNCHANGED <<finished_workers, master>>
      PROVE  MarkerInv'
  <2>1. /\ Len(channel[r]) \in Nat /\ Len(channel'[r]) = Len(channel[r]) + 1 /\ channel'[r] # <<>>
        /\ channel'[r][Len(channel[r]) + 1] = m
        /\ \A k \in 1..Len(channel[r]) : channel'[r][k] = channel[r][k]
    <3>1. channel'[r] = Append(channel[r], m) BY <1>0, <1>s
    <3> QED BY <1>c, <1>s, <3>1, AppendFacts
  <2>2. \A k \in 1..Len(channel[r]) : ~Marker(channel[r][k]) BY <1>b, <1>s
  <2>3. sending'[r] = "exit" <=> Marker(m)
    <3>1. CASE sending' = sending /\ ~Marker(m) BY <1>s, <3>1
    <3>2. CASE sending' = [sending EXCEPT ![r] = "exit"] /\ Marker(m) BY <1>0, <3>2
    <3> QED BY <1>s, <3>1, <3>2
  <2>4. At(r)'
    <3> SUFFICES ASSUME NEW k \in 1..Len(channel'[r])
                 PROVE  /\ Marker(channel'[r][k]) <=> (sending'[r] = "exit" /\ k = Len(channel'[r]))
                        /\ Marker(channel'[r][k]) => channel'[r][k].packs = {}
      BY DEF Marker
    <3>1. CASE k = Len(channel[r]) + 1 BY <1>s, <2>1, <2>3, <3>1
    <3>2. CASE k # Len(channel[r]) + 1
      <4>1. k \in 1..Len(channel[r]) /\ k # Len(channel'[r]) BY <2>1, <3>2
      <4> QED BY <2>1, <2>2, <4>1
    <3> QED BY <3>1, <3>2
  <2>5. \A q \in Ranks \ {r} : channel'[q] = channel[q] /\ sending'[q] = sending[q]
    <3>1. \A q \in Ranks \ {r} : channel'[q] = channel[q] BY <1>0, <1>s
    <3>2. \A q \in Ranks \ {r} : sending'[q] = sending[q] BY <1>0, <1>s
    <3> QED BY <3>1, <3>2
  <2>6. \A q \in Ranks : At(q)' BY <1>f, <2>4, <2>5
  <2>7. Ended' = Ended
    <3>1. r \notin Ended /\ r \notin Ended' BY <1>s, <2>1 DEF Ended
    <3> QED BY <2>5, <3>1 DEF Ended
  <2> QED BY <1>b, <1>s, <2>6, <2>7 DEF MarkerInv
<1>1. ASSUME NEW r \in Ranks, PackBatch(r) PROVE MarkerInv'
  <2> DEFINE size == Min({BatchSize, ChunkSize(r) - taken[r]})
  <2>1. sending[r] = "run" /\ UNCHANGED <<sending, master, finished_workers>> BY <1>1 DEF PackBatch
  <2>2. PICK packs_ : channel' = [channel EXCEPT ![r] = Append(@, [packs |-> packs_, len |-> size])]
    BY <1>1 DEF PackBatch, Send
  <2>3. size \in 0..BatchSize BY BatchFacts DEF MapInv
  <2> HIDE DEF size
  <2> DEFINE m == [packs |-> packs_, len |-> size]
  <2>4. ~Marker(m) BY <2>3, PackedIndexAssumption DEF Marker
  <2>5. channel' = [channel EXCEPT ![r] = Append(channel[r], m)] BY <2>2
  <2>6. m \in Messages
    <3>1. MapType' BY MapTypeStep
    <3>2. channel' \in [Ranks -> Seq(Messages)] BY <3>1 DEF MapType, Messages
    <3>3. channel'[r] = Append(channel[r], m) /\ channel'[r] \in Seq(Messages) BY <1>0, <2>5, <3>2
    <3> HIDE DEF m
    <3> QED BY <1>c, <3>3, LastOfAppend
  <2> HIDE DEF m
  <2> QED BY <1>s, <2>1, <2>4, <2>5, <2>6
<1>2. ASSUME NEW r \in Ranks, SendEnd(r) PROVE MarkerInv'
  <2> DEFINE m == [packs |-> {}, len |-> -1]
  <2>1. /\ sending[r] = "run" /\ UNCHANGED <<master, finished_workers>>
        /\ sending' = [sending EXCEPT ![r] = "exit"]
        /\ channel' = [channel EXCEPT ![r] = Append(channel[r], m)]
    BY <1>2 DEF SendEnd, Send
  <2>2. m \in Messages /\ Marker(m) /\ m.packs = {}
    <3>1. -1 \in -1..BatchSize BY PackedIndexAssumption
    <3> QED BY <3>1 DEF Marker, Messages
  <2> HIDE DEF m
  <2> QED BY <1>s, <2>1, <2>2
<1>3. ASSUME NEW r \in Ranks, GetMessage(r) PROVE MarkerInv'
  <2> DEFINE m == Head(channel[r])
  <2>1. /\ channel[r] # <<>> /\ channel' = [channel EXCEPT ![r] = Tail(@)]
        /\ sending' = sending /\ master' = master /\ master = "drain"
        /\ \/ m.len = -1 /\ finished_workers' = finished_workers + 1
           \/ m.len # -1 /\ finished_workers' = finished_workers
    BY <1>3 DEF GetMessage
  <2>2. /\ m = channel[r][1] /\ 1 \in 1..Len(channel[r]) /\ Len(channel[r]) \in Nat
        /\ Len(channel'[r]) = Len(channel[r]) - 1
        /\ channel'[r] = <<>> <=> Len(channel'[r]) = 0
        /\ \A k \in 1..Len(channel'[r]) :
              channel'[r][k] = channel[r][k + 1] /\ k + 1 \in 1..Len(channel[r])
    <3>1. channel'[r] = Tail(channel[r]) BY <1>0, <2>1
    <3>2. channel[r] \in Seq(Messages) BY <1>c
    <3>3. Tail(channel[r]) \in Seq(Messages) BY <2>1, <3>2, TailFacts
    <3>4. channel'[r] = <<>> <=> Len(channel'[r]) = 0 BY <3>1, <3>3, LenFacts
    <3>5. /\ Len(Tail(channel[r])) = Len(channel[r]) - 1 /\ Len(channel[r]) \in Nat
          /\ Len(channel[r]) >= 1 /\ m = channel[r][1]
          /\ \A k \in 1..Len(Tail(channel[r])) :
                Tail(channel[r])[k] = channel[r][k + 1] /\ k + 1 \in 1..Len(channel[r])
      BY <2>1, <3>2, TailFacts
    <3> HIDE DEF m
    <3>6. 1 \in 1..Len(channel[r]) BY <3>5
    <3> QED BY <3>1, <3>4, <3>5, <3>6
  <2> HIDE DEF m
  <2>3. \A q \in Ranks \ {r} : channel'[q] = channel[q] /\ sending'[q] = sending[q] BY <1>0, <2>1
  <2>4. At(r)'
    <3> SUFFICES ASSUME NEW k \in 1..Len(channel'[r])
                 PROVE  /\ Marker(channel'[r][k]) <=> (sending'[r] = "exit" /\ k = Len(channel'[r]))
                        /\ Marker(channel'[r][k]) => channel'[r][k].packs = {}
      BY DEF Marker
    <3>1. k + 1 = Len(channel[r]) <=> k = Len(channel'[r]) BY <2>2
    <3>2. /\ Marker(channel[r][k + 1]) <=> (sending[r] = "exit" /\ k + 1 = Len(channel[r]))
          /\ Marker(channel[r][k + 1]) => channel[r][k + 1].packs = {}
      BY <1>b, <2>2
    <3> QED BY <2>1, <2>2, <3>1, <3>2
  <2>5. \A q \in Ranks : At(q)' BY <1>f, <2>3, <2>4
  <2>6. r \notin Ended BY <2>1 DEF Ended
  <2>7. Marker(m) <=> (sending[r] = "exit" /\ Len(channel[r]) = 1) BY <1>b, <2>2
  <2>8. CASE m.len = -1
    <3>1. sending'[r] = "exit" /\ channel'[r] = <<>> BY <2>1, <2>2, <2>7, <2>8 DEF Marker
    <3>2. Ended' = Ended \cup {r} BY <2>3, <3>1 DEF Ended
    <3>3. Cardinality(Ended') = Cardinality(Ended) + 1 BY <1>e, <2>6, <3>2, FS_AddElement
    <3> QED BY <1>b, <2>1, <2>5, <2>8, <3>3 DEF MarkerInv
  <2>9. CASE m.len # -1
    <3>1. ~(sending'[r] = "exit" /\ channel'[r] = <<>>) BY <2>1, <2>2, <2>7, <2>9 DEF Marker
    <3>2. Ended' = Ended BY <2>3, <2>6, <3>1 DEF Ended
    <3> QED BY <1>b, <2>1, <2>5, <2>9, <3>2 DEF MarkerInv
  <2> QED BY <2>8, <2>9
<1>4. CASE DrainEnd
  <2>1. UNCHANGED <<channel, sending, finished_workers>> /\ finished_workers = NumWorkers
    BY <1>4 DEF DrainEnd
  <2>2. Ended' = Ended BY <2>1 DEF Ended
  <2>3. \A q \in Ranks : At(q)' BY <1>f, <2>1
  <2> QED BY <1>b, <2>1, <2>2, <2>3 DEF MarkerInv
<1>5. CASE UNCHANGED mapVars
  <2>1. UNCHANGED <<channel, sending, finished_workers, master>> BY <1>5 DEF mapVars
  <2>2. Ended' = Ended BY <2>1 DEF Ended
  <2>3. \A q \in Ranks : At(q)' BY <1>f, <2>1
  <2> QED BY <1>b, <2>1, <2>2, <2>3 DEF MarkerInv
<1> QED BY <1>1, <1>2, <1>3, <1>4, <1>5 DEF MapNext, Master, Worker

(* The rows that wait in a channel are counted by a natural number.        *)
LEMMA PendingType ==
    ASSUME MapInv, NEW r \in Ranks
    PROVE  Pending(r) \in Nat
<1> DEFINE n == NumData(r)
           Messages == [packs : SUBSET SUBSET Indices, len : -1..BatchSize]
<1>0. BatchSize \in Nat /\ channel[r] \in Seq(Messages)
  BY PackedIndexAssumption DEF MapInv, MapType
<1>1. Len(channel[r]) \in Nat /\ (channel[r] = <<>> <=> Len(channel[r]) = 0)
      /\ \A k \in 1..Len(channel[r]) : channel[r][k] \in Messages
  <2> HIDE DEF Messages
  <2> QED BY <1>0, LenFacts
<1>2. n \in Nat /\ n <= Len(channel[r]) /\ ((n > 0 /\ sending[r] = "exit") => n # Len(channel[r]))
  BY <1>1 DEF NumData
<1>3. NumData(r) = n OBVIOUS
<1> HIDE DEF n
<1>4. CASE n = 0 BY <1>3, <1>4 DEF Pending
<1>5. CASE n # 0
  <2>1. n \in 1..Len(channel[r]) BY <1>1, <1>2, <1>5
  <2>2. ~Marker(channel[r][n]) BY <1>2, <1>5, <2>1 DEF MapInv, MarkerInv
  <2>3. channel[r][n].len \in -1..BatchSize BY <1>1, <2>1
  <2>4. channel[r][n].len \in Nat BY <1>0, <2>2, <2>3 DEF Marker
  <2>5. (n - 1) * BatchSize \in Nat BY <1>0, <1>2, <1>5
  <2> QED BY <1>3, <1>5, <2>4, <2>5 DEF Pending
<1> QED BY <1>4, <1>5

(* A step that leaves a worker and its channel alone.                      *)
LEMMA PendingFrame ==
    ASSUME NEW r \in Ranks, PendingAt(r), taken'[r] = taken[r], input_data'[r] = input_data[r],
           sending'[r] = sending[r], channel'[r] = channel[r]
    PROVE  PendingAt(r)' /\ Received(r)' = Received(r)
<1>1. NumData(r)' = NumData(r) BY DEF NumData
<1>2. Pending(r)' = Pending(r) BY <1>1 DEF Pending
<1> QED BY <1>1, <1>2 DEF PendingAt, Received

(* A worker's batch waits in its channel; the rows received stay the same. *)
LEMMA PendingSent ==
    ASSUME MapInv, NEW r \in Ranks, PackBatch(r)
    PROVE  PendingAt(r)' /\ Received(r)' = Received(r)
<1> DEFINE size == Min({BatchSize, ChunkSize(r) - taken[r]})
           n == NumData(r)
           Messages == [packs : SUBSET SUBSET Indices, len : -1..BatchSize]
<1>0. /\ BatchSize \in Nat \ {0} /\ taken \in [Ranks -> Nat] /\ input_data \in [Ranks -> SUBSET Indices]
      /\ channel \in [Ranks -> Seq(Messages)] /\ channel[r] \in Seq(Messages)
      /\ MapType /\ ReadInv /\ PendingAt(r)
  BY PackedIndexAssumption DEF MapInv, MapType, ProgressInv
<1>1. /\ Bound(r) \in Nat /\ ChunkSize(r) \in Nat /\ taken[r] \in Nat /\ size \in 0..BatchSize
      /\ taken[r] + size <= ChunkSize(r)
  BY <1>0, BatchFacts
<1>2. /\ sending[r] = "run" /\ sending' = sending /\ taken' = [taken EXCEPT ![r] = @ + size]
      /\ input_data[r] \cup (Bound(r) + taken[r])..(Bound(r) + taken[r] + size - 1) # {}
      /\ taken[r] + BatchSize >= ChunkSize(r) => input_data' = [input_data EXCEPT ![r] = {}]
  BY DEF PackBatch
<1>3. PICK sent : channel' = [channel EXCEPT ![r] = Append(@, [packs |-> sent, len |-> size])]
  BY DEF PackBatch, Send
<1>4. size = BatchSize \/ size = ChunkSize(r) - taken[r]
  <2>1. BatchSize \in Int /\ ChunkSize(r) - taken[r] \in Int BY <1>0, <1>1
  <2> QED BY <2>1, MinFacts
<1> HIDE DEF size
<1>5. taken[r] < ChunkSize(r)
  <2>1. SUFFICES ASSUME taken[r] = ChunkSize(r) PROVE FALSE BY <1>1
  <2>2. input_data[r] = {} BY <1>0, <2>1 DEF PendingAt
  <2>3. (Bound(r) + taken[r])..(Bound(r) + taken[r] + size - 1) = {} BY <1>1, <2>1
  <2> QED BY <1>2, <2>2, <2>3
<1>6. taken'[r] = taken[r] + size BY <1>0, <1>2
<1>7. Len(channel[r]) \in Nat /\ n = Len(channel[r])
  BY <1>0, <1>2, LenFacts DEF NumData
<1> DEFINE m == [packs |-> sent, len |-> size]
<1>8. channel'[r] = Append(channel[r], m) BY <1>0, <1>3
<1>9. /\ Len(channel'[r]) = n + 1 /\ channel'[r][n + 1] = m /\ m.len = size
      /\ \A k \in 1..n : channel'[r][k] = channel[r][k]
  BY <1>0, <1>7, <1>8
<1> HIDE DEF m
<1>10. NumData(r)' = n + 1 BY <1>2, <1>9 DEF NumData
<1> HIDE DEF n
<1>11. \A k \in 1..n : channel[r][k].len = BatchSize
  <2> SUFFICES ASSUME NEW k \in 1..n PROVE channel[r][k].len = BatchSize
    OBVIOUS
  <2>1. CASE k = n
    <3>1. NumData(r) = n /\ n > 0 BY <1>7, <2>1 DEF n
    <3> QED BY <1>0, <1>5, <2>1, <3>1 DEF PendingAt
  <2>2. CASE k # n
    <3>1. k \in 1..(NumData(r) - 1) BY <1>7, <2>2 DEF n
    <3> QED BY <1>0, <3>1 DEF PendingAt
  <2> QED BY <2>1, <2>2
<1>12. Pending(r) = n * BatchSize
  <2>1. NumData(r) = n BY DEF n
  <2>2. CASE n = 0 BY <1>0, <2>1, <2>2 DEF Pending
  <2>3. CASE n # 0
    <3>1. n \in 1..n BY <1>7, <2>3
    <3>2. Pending(r) = (n - 1) * BatchSize + BatchSize BY <1>11, <2>1, <2>3, <3>1 DEF Pending
    <3> QED BY <1>0, <1>7, <3>2
  <2> QED BY <2>2, <2>3
<1>13. Pending(r)' = n * BatchSize + size
  <2>1. Pending(r)' = IF NumData(r)' = 0 THEN 0
                      ELSE (NumData(r)' - 1) * BatchSize + channel'[r][NumData(r)'].len
    BY DEF Pending
  <2>2. n + 1 # 0 /\ (n + 1) - 1 = n BY <1>7
  <2> QED BY <1>9, <1>10, <2>1, <2>2
<1>14. n * BatchSize \in Nat BY <1>0, <1>7
<1>15. Received(r)' = Received(r)
  <2>1. Bound(r) + (taken[r] + size) - (n * BatchSize + size) - 1
          = Bound(r) + taken[r] - n * BatchSize - 1
    BY <1>1, <1>14
  <2> QED BY <1>6, <1>12, <1>13, <2>1 DEF Received
<1>16. \A k \in 1..(NumData(r)' - 1) : channel'[r][k].len = BatchSize
  BY <1>7, <1>9, <1>10, <1>11
<1>17. taken'[r] < ChunkSize(r) => channel'[r][NumData(r)'].len = BatchSize
  BY <1>1, <1>4, <1>6, <1>9, <1>10
<1>18. taken'[r] = ChunkSize(r) => input_data'[r] = {}
  BY <1>0, <1>1, <1>2, <1>6
<1>19. Pending(r)' <= taken'[r]
  <2>1. n * BatchSize <= taken[r] BY <1>0, <1>12 DEF PendingAt
  <2> QED BY <1>1, <1>6, <1>13, <1>14, <2>1
<1> QED BY <1>15, <1>16, <1>17, <1>18, <1>19 DEF PendingAt

(* Receiving a batch moves its rows, and no others, from those that wait   *)
(* to those received.                                                      *)
LEMMA PendingReceived ==
    ASSUME MapInv, NEW r \in Ranks, GetMessage(r), Head(channel[r]).len # -1
    PROVE  LET len == Head(channel[r]).len
               top == Bound(r) + taken[r] - Pending(r)
           IN  /\ PendingAt(r)' /\ len \in Nat /\ top \in Int /\ Bound(r) <= top
               /\ Received(r) = Bound(r)..(top - 1)
               /\ Received(r)' = Bound(r)..(top + len - 1)
               /\ top + len <= Bound(r) + ChunkSize(r)
<1> DEFINE len == Head(channel[r]).len
           n == NumData(r)
           Messages == [packs : SUBSET SUBSET Indices, len : -1..BatchSize]
<1>0. /\ BatchSize \in Nat \ {0} /\ channel \in [Ranks -> Seq(Messages)] /\ channel[r] \in Seq(Messages)
      /\ taken[r] \in Nat /\ taken[r] <= ChunkSize(r) /\ PendingAt(r) /\ MapType /\ ReadInv
  BY PackedIndexAssumption DEF MapInv, MapType, ProgressInv, ReadInv, ReadAt
<1>1. Bound(r) \in Nat /\ ChunkSize(r) \in Nat BY <1>0, BatchFacts
<1>2. /\ channel[r] # <<>> /\ channel' = [channel EXCEPT ![r] = Tail(@)]
      /\ UNCHANGED <<sending, taken, input_data>>
  BY DEF GetMessage
<1>3. channel'[r] = Tail(channel[r]) BY <1>0, <1>2
<1>4. /\ Len(channel[r]) \in Nat /\ Len(channel[r]) >= 1 /\ Len(channel'[r]) = Len(channel[r]) - 1
      /\ Head(channel[r]) = channel[r][1] /\ channel[r][1] \in Messages
      /\ \A k \in 1..Len(channel'[r]) : channel'[r][k] = channel[r][k + 1]
      /\ (channel'[r] = <<>> <=> Len(channel'[r]) = 0)
  <2>1. Tail(channel[r]) \in Seq(Messages) BY <1>0, <1>2, TailFacts
  <2>2. channel'[r] = <<>> <=> Len(channel'[r]) = 0 BY <1>3, <2>1, LenFacts
  <2> HIDE DEF Messages
  <2> QED BY <1>0, <1>2, <1>3, <2>2, TailFacts
<1>5. len = channel[r][1].len /\ len \in Nat
  <2>1. channel[r][1].len \in -1..BatchSize BY <1>4
  <2> QED BY <1>0, <1>4, <2>1
<1> HIDE DEF len, Messages
<1>6. sending[r] = "exit" => Len(channel[r]) >= 2
  <2>1. SUFFICES ASSUME sending[r] = "exit", Len(channel[r]) = 1 PROVE FALSE BY <1>4
  <2>2. 1 \in 1..Len(channel[r]) BY <1>4
  <2>3. Marker(channel[r][1]) BY <2>1, <2>2 DEF MapInv, MarkerInv
  <2> QED BY <1>4, <2>3 DEF Marker
<1>7. n \in Nat /\ n >= 1 /\ n <= Len(channel[r]) /\ NumData(r)' = n - 1
  <2>1. CASE sending[r] = "exit"
    <3>1. n = Len(channel[r]) - 1 BY <1>2, <2>1 DEF NumData
    <3>2. channel'[r] # <<>> BY <1>4, <1>6, <2>1
    <3>3. NumData(r)' = Len(channel'[r]) - 1 BY <1>2, <2>1, <3>2 DEF NumData
    <3> QED BY <1>4, <1>6, <2>1, <3>1, <3>3
  <2>2. CASE sending[r] # "exit"
    <3>1. n = Len(channel[r]) /\ NumData(r)' = Len(channel'[r]) BY <1>2, <2>2 DEF NumData
    <3> QED BY <1>4, <3>1
  <2> QED BY <2>1, <2>2
<1>8. NumData(r) = n OBVIOUS
<1> HIDE DEF n
<1>9. \A k \in 1..(n - 1) : channel'[r][k] = channel[r][k + 1] BY <1>4, <1>7
<1> DEFINE last == channel[r][n].len
<1>10. last \in Int /\ last >= 0
  <2>1. n \in 1..Len(channel[r]) /\ channel[r][n] \in Messages BY <1>0, <1>4, <1>7, LenFacts
  <2>2. last \in -1..BatchSize BY <2>1 DEF Messages
  <2>3. ~Marker(channel[r][n])
    <3>1. sending[r] = "exit" => n # Len(channel[r])
      BY <1>2, <1>4, <1>8 DEF NumData
    <3> QED BY <2>1, <3>1 DEF MapInv, MarkerInv
  <2> QED BY <1>0, <2>2, <2>3 DEF Marker
<1>11. Pending(r) = (n - 1) * BatchSize + last /\ (n - 1) * BatchSize \in Nat
  BY <1>0, <1>7, <1>8 DEF Pending
<1>12. Pending(r)' = Pending(r) - len
  <2>1. Pending(r)' = IF NumData(r)' = 0 THEN 0
                      ELSE (NumData(r)' - 1) * BatchSize + channel'[r][NumData(r)'].len
    BY DEF Pending
  <2>2. CASE n = 1
    <3>1. Pending(r)' = 0 /\ len = last BY <1>5, <1>7, <2>1, <2>2
    <3>2. (n - 1) * BatchSize = 0 BY <1>0, <2>2
    <3> HIDE DEF last
    <3> QED BY <1>10, <1>11, <3>1, <3>2
  <2>3. CASE n # 1
    <3>1. n - 1 \in 1..(n - 1) /\ 1 \in 1..(n - 1) /\ (n - 1) + 1 = n /\ n - 1 # 0 BY <1>7, <2>3
    <3>2. len = BatchSize BY <1>0, <1>5, <1>8, <3>1 DEF PendingAt
    <3>3. channel'[r][n - 1] = channel[r][n] BY <1>9, <3>1
    <3>4. Pending(r)' = ((n - 1) - 1) * BatchSize + last BY <1>7, <2>1, <3>1, <3>3
    <3>5. ((n - 1) - 1) * BatchSize = (n - 1) * BatchSize - BatchSize BY <1>0, <1>7
    <3> HIDE DEF last
    <3> QED BY <1>0, <1>10, <1>11, <3>2, <3>4, <3>5
  <2> QED BY <2>2, <2>3
<1>13. Pending(r) \in Int /\ Pending(r) <= taken[r] /\ len <= Pending(r)
  <2>1. Pending(r) \in Int BY <1>10, <1>11
  <2>2. Pending(r)' >= 0
    <3>1. CASE n = 1 BY <1>7, <3>1 DEF Pending
    <3>2. CASE n # 1
      <4>1. 1 \in 1..(n - 1) BY <1>7, <3>2
      <4>2. len = BatchSize BY <1>0, <1>5, <1>8, <4>1 DEF PendingAt
      <4>3. (n - 1) * BatchSize >= BatchSize BY <1>0, <1>7, <3>2
      <4> HIDE DEF last
      <4> QED BY <1>0, <1>10, <1>11, <1>12, <4>2, <4>3
    <3> QED BY <3>1, <3>2
  <2> QED BY <1>0, <1>5, <1>12, <2>1, <2>2 DEF PendingAt
<1> DEFINE top == Bound(r) + taken[r] - Pending(r)
<1>14. top \in Int /\ Bound(r) <= top /\ top + len <= Bound(r) + ChunkSize(r)
  BY <1>0, <1>1, <1>5, <1>13, SMTT(30)
<1>15. Received(r) = Bound(r)..(top - 1)
  <2>1. Bound(r) + taken[r] - Pending(r) - 1 = top - 1 BY <1>0, <1>1, <1>13
  <2> QED BY <2>1 DEF Received
<1>16. Received(r)' = Bound(r)..(top + len - 1)
  <2>1. taken[r] \in Int /\ Bound(r) \in Int /\ Pending(r) \in Int /\ len \in Int
    BY <1>0, <1>1, <1>5, <1>13
  <2>2. Bound(r) + taken[r] - (Pending(r) - len) - 1 = Bound(r) + taken[r] - Pending(r) + len - 1
    BY <2>1
  <2> QED BY <1>2, <1>12, <2>2 DEF Received
<1>17. PendingAt(r)'
  <2>1. \A k \in 1..(NumData(r)' - 1) : channel'[r][k].len = BatchSize
    <3> SUFFICES ASSUME NEW k \in 1..((n - 1) - 1) PROVE channel'[r][k].len = BatchSize
      BY <1>7
    <3>1. k \in 1..(n - 1) /\ k + 1 \in 1..(n - 1) BY <1>7
    <3> QED BY <1>0, <1>8, <1>9, <3>1 DEF PendingAt
  <2>2. (NumData(r)' > 0 /\ taken'[r] < ChunkSize(r)) => channel'[r][NumData(r)'].len = BatchSize
    <3> SUFFICES ASSUME n - 1 > 0, taken[r] < ChunkSize(r) PROVE channel'[r][n - 1].len = BatchSize
      BY <1>2, <1>7
    <3>1. n - 1 \in 1..(n - 1) /\ (n - 1) + 1 = n BY <1>7
    <3>2. channel'[r][n - 1] = channel[r][n] BY <1>9, <3>1
    <3> QED BY <1>0, <1>7, <1>8, <3>2 DEF PendingAt
  <2>3. taken'[r] = ChunkSize(r) => input_data'[r] = {} BY <1>0, <1>2 DEF PendingAt
  <2>4. Pending(r)' <= taken'[r] BY <1>0, <1>2, <1>5, <1>12, <1>13
  <2> QED BY <2>1, <2>2, <2>3, <2>4 DEF PendingAt
<1> QED BY <1>5, <1>14, <1>15, <1>16, <1>17 DEF len

(* A marker carries no rows.                                               *)
LEMMA PendingMarker ==
    ASSUME MapInv, NEW r \in Ranks,
           SendEnd(r) \/ (GetMessage(r) /\ Head(channel[r]).len = -1)
    PROVE  PendingAt(r)' /\ Received(r)' = Received(r)
<1> DEFINE Messages == [packs : SUBSET SUBSET Indices, len : -1..BatchSize]
<1>0. /\ channel \in [Ranks -> Seq(Messages)] /\ channel[r] \in Seq(Messages) /\ PendingAt(r)
      /\ sending \in [Ranks -> {"run", "exit"}]
  BY DEF MapInv, MapType, ProgressInv
<1>1. UNCHANGED <<taken, input_data>> BY DEF SendEnd, GetMessage
<1>2. /\ NumData(r)' = NumData(r) /\ NumData(r) \in Nat
      /\ \A k \in 1..NumData(r) : channel'[r][k] = channel[r][k]
  <2>1. CASE SendEnd(r)
    <3> DEFINE m == [packs |-> {}, len |-> -1]
    <3>1. /\ sending[r] = "run" /\ sending'[r] = "exit" /\ channel'[r] = Append(channel[r], m)
      BY <1>0, <2>1 DEF SendEnd, Send
    <3>2. m \in Messages
      <4>1. -1 \in -1..BatchSize BY PackedIndexAssumption
      <4> QED BY <4>1
    <3> HIDE DEF m, Messages
    <3>3. /\ Len(channel'[r]) = Len(channel[r]) + 1 /\ Len(channel[r]) \in Nat /\ channel'[r] # <<>>
          /\ \A k \in 1..Len(channel[r]) : channel'[r][k] = channel[r][k]
      BY <1>0, <3>1, <3>2, AppendFacts
    <3>4. NumData(r) = Len(channel[r]) BY <3>1 DEF NumData
    <3>5. NumData(r)' = Len(channel'[r]) - 1 BY <3>1, <3>3 DEF NumData
    <3> QED BY <3>3, <3>4, <3>5
  <2>2. CASE GetMessage(r) /\ Head(channel[r]).len = -1
    <3> HIDE DEF Messages
    <3>1. channel[r] # <<>> /\ channel'[r] = Tail(channel[r]) /\ sending' = sending
      BY <1>0, <2>2 DEF GetMessage
    <3>2. Len(channel[r]) \in Nat /\ Len(channel[r]) >= 1 /\ Head(channel[r]) = channel[r][1]
          /\ (Len(channel[r]) = 1 => Tail(channel[r]) = <<>>)
      BY <1>0, <3>1, TailFacts
    <3>3. 1 \in 1..Len(channel[r]) /\ Marker(channel[r][1]) BY <2>2, <3>2 DEF Marker
    <3>4. sending[r] = "exit" /\ Len(channel[r]) = 1 BY <3>3 DEF MapInv, MarkerInv
    <3>5. NumData(r) = 0 BY <3>1, <3>4 DEF NumData
    <3>6. channel'[r] = <<>> BY <3>1, <3>2, <3>4
    <3>7. NumData(r)' = Len(channel'[r]) BY <3>6 DEF NumData
    <3>8. Len(channel'[r]) = 0 BY <3>6
    <3> QED BY <3>5, <3>7, <3>8
  <2> QED BY <2>1, <2>2
<1>3. Pending(r)' = Pending(r)
  <2>1. NumData(r) # 0 => NumData(r) \in 1..NumData(r) BY <1>2
  <2> QED BY <1>2, <2>1 DEF Pending
<1>4. Received(r)' = Received(r) BY <1>1, <1>3 DEF Received
<1>5. NumData(r) > 0 => channel'[r][NumData(r)] = channel[r][NumData(r)] BY <1>2
<1>6. \A k \in 1..(NumData(r) - 1) : channel'[r][k] = channel[r][k] BY <1>2
<1> QED BY <1>0, <1>1, <1>2, <1>3, <1>4, <1>5, <1>6 DEF PendingAt

(* The rows received from all workers are finitely many.                   *)
LEMMA CountedFacts ==
    ASSUME MapInv
    PROVE  /\ IsFiniteSet(Counted)
           /\ \A r \in Ranks : Received(r) \subseteq Bound(r)..(Bound(r + 1) - 1)
<1>1. ASSUME NEW r \in Ranks
      PROVE  Received(r) \subseteq Bound(r)..(Bound(r + 1) - 1) /\ Received(r) \subseteq Indices
  <2>1. r \in 0..NumWorkers /\ r + 1 \in 0..NumWorkers /\ NumWorkers > 0 /\ r <= r + 1
    BY NumWorkersFacts DEF Ranks
  <2>2. Bound(r) \in Nat /\ Bound(r + 1) \in Nat /\ Bound(r + 1) <= NumRows BY <2>1, BoundMonotone
  <2>3. taken[r] \in Nat /\ taken[r] <= Bound(r + 1) - Bound(r)
    BY DEF MapInv, MapType, ReadInv, ReadAt, ChunkSize
  <2>4. Pending(r) \in Nat BY PendingType
  <2> QED BY <2>2, <2>3, <2>4, PackedIndexAssumption DEF Received, Indices
<1>2. Counted \in SUBSET Indices BY <1>1 DEF Counted
<1>3. IsFiniteSet(Indices) BY PackedIndexAssumption, FS_Interval DEF Indices
<1> QED BY <1>1, <1>2, <1>3, FS_Subset

(* The progress bar counts the rows received, each once.                   *)
LEMMA ProgressStep ==
    ASSUME MapInv, [MapNext]_mapVars
    PROVE  ProgressInv'
<1>0. /\ \A q \in Ranks : PendingAt(q)
      /\ progress = Cardinality(Counted)
      /\ channel \in [Ranks -> Seq([packs : SUBSET SUBSET Indices, len : -1..BatchSize])]
      /\ taken \in [Ranks -> Nat] /\ input_data \in [Ranks -> SUBSET Indices]
      /\ sending \in [Ranks -> {"run", "exit"}]
  BY DEF MapInv, MapType, ProgressInv
<1>f. ASSUME \A q \in Ranks : PendingAt(q)' /\ Received(q)' = Received(q), progress' = progress
      PROVE  ProgressInv'
  <2>1. Counted' = Counted BY <1>f DEF Counted
  <2> QED BY <1>0, <1>f, <2>1 DEF ProgressInv
<1>1. ASSUME NEW r \in Ranks, PackBatch(r) PROVE ProgressInv'
  <2>1. \A q \in Ranks \ {r} : /\ taken'[q] = taken[q] /\ input_data'[q] = input_data[q]
                              /\ sending'[q] = sending[q] /\ channel'[q] = channel[q]
    BY <1>0, <1>1 DEF PackBatch, Send
  <2>2. \A q \in Ranks \ {r} : PendingAt(q)' /\ Received(q)' = Received(q)
    BY <1>0, <2>1, PendingFrame
  <2>3. PendingAt(r)' /\ Received(r)' = Received(r) BY <1>1, PendingSent
  <2>4. progress' = progress BY <1>1 DEF PackBatch
  <2> QED BY <1>f, <2>2, <2>3, <2>4
<1>2. ASSUME NEW r \in Ranks, SendEnd(r) PROVE ProgressInv'
  <2>1. \A q \in Ranks \ {r} : /\ taken'[q] = taken[q] /\ input_data'[q] = input_data[q]
                              /\ sending'[q] = sending[q] /\ channel'[q] = channel[q]
    BY <1>0, <1>2 DEF SendEnd, Send
  <2>2. \A q \in Ranks \ {r} : PendingAt(q)' /\ Received(q)' = Received(q)
    BY <1>0, <2>1, PendingFrame
  <2>3. PendingAt(r)' /\ Received(r)' = Received(r) BY <1>2, PendingMarker
  <2>4. progress' = progress BY <1>2 DEF SendEnd
  <2> QED BY <1>f, <2>2, <2>3, <2>4
<1>3. ASSUME NEW r \in Ranks, GetMessage(r) PROVE ProgressInv'
  <2>1. \A q \in Ranks \ {r} : /\ taken'[q] = taken[q] /\ input_data'[q] = input_data[q]
                              /\ sending'[q] = sending[q] /\ channel'[q] = channel[q]
    BY <1>0, <1>3 DEF GetMessage
  <2>2. \A q \in Ranks \ {r} : PendingAt(q)' /\ Received(q)' = Received(q)
    BY <1>0, <2>1, PendingFrame
  <2>3. CASE Head(channel[r]).len = -1
    <3>1. PendingAt(r)' /\ Received(r)' = Received(r) BY <1>3, <2>3, PendingMarker
    <3>2. progress' = progress BY <1>3, <2>3 DEF GetMessage
    <3> QED BY <1>f, <2>2, <3>1, <3>2
  <2>4. CASE Head(channel[r]).len # -1
    <3> DEFINE len == Head(channel[r]).len
               top == Bound(r) + taken[r] - Pending(r)
               new == top..(top + len - 1)
    <3>1. /\ PendingAt(r)' /\ len \in Nat /\ top \in Int /\ Bound(r) <= top
          /\ Received(r) = Bound(r)..(top - 1) /\ Received(r)' = Bound(r)..(top + len - 1)
          /\ top + len <= Bound(r) + ChunkSize(r)
      BY <1>3, <2>4, PendingReceived
    <3>2. progress' = progress + len BY <1>3, <2>4 DEF GetMessage
    <3> HIDE DEF len, top
    <3>3. \A q \in Ranks : q \in 0..NumWorkers /\ q + 1 \in 0..NumWorkers /\ NumWorkers > 0 /\ q <= q + 1
      BY NumWorkersFacts DEF Ranks
    <3>4. \A q \in Ranks : Bound(q) \in Nat /\ Bound(q + 1) \in Nat BY <3>3, BoundMonotone
    <3>5. Received(r)' = Received(r) \cup new BY <3>1, <3>4
    <3>6. Counted' = Counted \cup new
      <4>1. Counted' = UNION {Received(q)' : q \in Ranks} BY DEF Counted
      <4>2. \A q \in Ranks : Received(q)' = IF q = r THEN Received(q) \cup new ELSE Received(q)
        BY <2>2, <3>5
      <4> HIDE DEF new
      <4>3. ASSUME NEW i \in Counted' PROVE i \in Counted \cup new BY <4>1, <4>2 DEF Counted
      <4>4. ASSUME NEW i \in Counted PROVE i \in Counted'
        <5>1. PICK q \in Ranks : i \in Received(q) BY DEF Counted
        <5>2. i \in Received(q)' BY <4>2, <5>1
        <5> QED BY <4>1, <5>2
      <4>5. new \subseteq Counted' BY <4>1, <4>2
      <4> QED BY <4>3, <4>4, <4>5
    <3>7. Counted \cap new = {}
      <4> SUFFICES ASSUME NEW q \in Ranks PROVE Received(q) \cap new = {}
        BY DEF Counted
      <4>1. CASE q = r BY <3>1, <3>4, <4>1
      <4>2. CASE q # r
        <5>1. Received(q) \subseteq Bound(q)..(Bound(q + 1) - 1) BY CountedFacts
        <5>2. new \subseteq Bound(r)..(Bound(r + 1) - 1) BY <3>1, <3>4 DEF ChunkSize
        <5>3. q + 1 <= r \/ r + 1 <= q BY <4>2, NumWorkersFacts DEF Ranks
        <5>4. q + 1 <= r => Bound(q + 1) <= Bound(r) BY <3>3, BoundMonotone
        <5>5. r + 1 <= q => Bound(r + 1) <= Bound(q) BY <3>3, BoundMonotone
        <5>6. Bound(q)..(Bound(q + 1) - 1) \cap Bound(r)..(Bound(r + 1) - 1) = {}
          BY <3>4, <5>3, <5>4, <5>5
        <5> HIDE DEF new
        <5> QED BY <5>1, <5>2, <5>6
      <4> QED BY <4>1, <4>2
    <3>8. IsFiniteSet(Counted) /\ IsFiniteSet(new) /\ Cardinality(new) = len
      <4>1. top + len - 1 \in Int BY <3>1
      <4>2. IsFiniteSet(new) /\ Cardinality(new) = IF top > top + len - 1 THEN 0 ELSE (top + len - 1) - top + 1
        BY <3>1, <4>1, FS_Interval
      <4>3. Cardinality(new) = len BY <3>1, <4>2
      <4> QED BY <4>2, <4>3, CountedFacts
    <3> HIDE DEF new
    <3>9. Cardinality(Counted \cup new) = Cardinality(Counted) + len
      <4>1. Cardinality(Counted \cup new)
              = Cardinality(Counted) + Cardinality(new) - Cardinality(Counted \cap new)
        BY <3>8, FS_Union
      <4>2. Cardinality(Counted \cap new) = 0 BY <3>7, FS_EmptySet
      <4>3. Cardinality(Counted) \in Nat BY <3>8, FS_CardinalityType
      <4> QED BY <3>1, <3>8, <4>1, <4>2, <4>3
    <3>10. \A q \in Ranks : PendingAt(q)' BY <2>2, <3>1
    <3> QED BY <1>0, <3>2, <3>6, <3>9, <3>10 DEF ProgressInv
  <2> QED BY <2>3, <2>4
<1>4. CASE DrainEnd
  <2>1. UNCHANGED <<taken, input_data, sending, channel, progress>> BY <1>4 DEF DrainEnd
  <2> QED BY <1>0, <1>f, <2>1, PendingFrame
<1>5. CASE UNCHANGED mapVars
  <2>1. UNCHANGED <<taken, input_data, sending, channel, progress>> BY <1>5 DEF mapVars
  <2> QED BY <1>0, <1>f, <2>1, PendingFrame
<1> QED BY <1>1, <1>2, <1>3, <1>4, <1>5 DEF MapNext, Master, Worker

(* The inductive invariant of the map-style dataset.                       *)
LEMMA MapInvariance == MapSpec => []MapInv
<1>1. MapInit => MapInv
  <2> SUFFICES ASSUME MapInit PROVE MapInv
    OBVIOUS
  <2> USE DEF MapInit
  <2>1. MapType BY DEF MapType
  <2>2. MarkerInv
    <3>1. Ended = {} BY DEF Ended
    <3>2. Cardinality(Ended) = 0 BY <3>1, FS_EmptySet
    <3> QED BY <3>2 DEF MarkerInv
  <2>3. ASSUME NEW r \in Ranks PROVE ReadAt(r)
    <3>1. r \in 0..NumWorkers /\ r + 1 \in 0..NumWorkers /\ NumWorkers > 0 /\ r <= r + 1
      BY NumWorkersFacts DEF Ranks
    <3>2. Bound(r) \in Nat /\ Bound(r + 1) \in Nat /\ Bound(r) <= Bound(r + 1)
      BY <3>1, BoundMonotone
    <3>3. taken[r] <= ChunkSize(r) BY <3>2 DEF ChunkSize
    <3>4. Read(r) = {} BY <3>2 DEF Read
    <3>5. PacksOf(r) = {} BY DEF PacksOf, PacksIn
    <3> QED BY <3>3, <3>4, <3>5 DEF ReadAt
  <2>4. \A r \in Ranks : NumData(r) = 0 BY DEF NumData
  <2>5. \A r \in Ranks : Pending(r) = 0 BY <2>4 DEF Pending
  <2>6. ASSUME NEW r \in Ranks PROVE PendingAt(r) /\ Received(r) = {}
    <3>1. r \in 0..NumWorkers /\ r + 1 \in 0..NumWorkers /\ NumWorkers > 0 /\ r <= r + 1
      BY NumWorkersFacts DEF Ranks
    <3>2. Bound(r) \in Nat BY <3>1, BoundMonotone
    <3>3. Received(r) = {} BY <2>5, <3>2 DEF Received
    <3>4. PendingAt(r) BY <2>4, <2>5 DEF PendingAt
    <3> QED BY <3>3, <3>4
  <2>7. ProgressInv
    <3>1. Counted = {} BY <2>6 DEF Counted
    <3>2. progress = Cardinality(Counted) BY <3>1, FS_EmptySet
    <3> QED BY <2>6, <3>2 DEF ProgressInv
  <2> QED BY <2>1, <2>2, <2>3, <2>7 DEF MapInv, ReadInv
<1>2. MapInv /\ [MapNext]_mapVars => MapInv'
  BY MapTypeStep, MarkerStep, ReadStep, ProgressStep DEF MapInv
<1> QED BY <1>1, <1>2, PTL DEF MapSpec

(* When every worker's marker has been counted, every worker has read its  *)
(* chunk and the master has all of its packs.                              *)
LEMMA AllReceived ==
    ASSUME MapInv, master = "done"
    PROVE  \A r \in Ranks :
              /\ channel[r] = <<>>
              /\ UNION packed_idx[r] = Bound(r)..(Bound(r + 1) - 1)
              /\ Received(r) = Bound(r)..(Bound(r + 1) - 1)
              /\ \A p, q \in packed_idx[r] : p # q => p \cap q = {}
<1>1. Ended = Ranks
  <2>1. Cardinality(Ended) = Cardinality(Ranks) BY RanksFinite DEF MapInv, MarkerInv
  <2>2. Ended \in SUBSET Ranks BY DEF Ended
  <2> QED BY <2>1, <2>2, RanksFinite, FS_Subset
<1> SUFFICES ASSUME NEW r \in Ranks
             PROVE  /\ channel[r] = <<>>
                    /\ UNION packed_idx[r] = Bound(r)..(Bound(r + 1) - 1)
                    /\ Received(r) = Bound(r)..(Bound(r + 1) - 1)
                    /\ \A p, q \in packed_idx[r] : p # q => p \cap q = {}
  OBVIOUS
<1>2. sending[r] = "exit" /\ channel[r] = <<>> BY <1>1 DEF Ended
<1>3. PacksOf(r) = packed_idx[r] BY <1>2 DEF PacksOf, PacksIn
<1>4. /\ (UNION packed_idx[r]) \cup {} = Read(r) /\ taken[r] = ChunkSize(r)
      /\ \A p, q \in packed_idx[r] : p # q => p \cap q = {}
  BY <1>2, <1>3 DEF MapInv, ReadInv, ReadAt
<1>5. Read(r) = Bound(r)..(Bound(r + 1) - 1)
  <2>1. r \in 0..NumWorkers /\ r + 1 \in 0..NumWorkers /\ NumWorkers > 0 /\ r <= r + 1
    BY NumWorkersFacts DEF Ranks
  <2>2. Bound(r) \in Nat /\ Bound(r + 1) \in Nat BY <2>1, BoundMonotone
  <2> QED BY <1>4, <2>2 DEF Read, ChunkSize
<1>6. Received(r) = Read(r)
  <2>1. Len(channel[r]) = 0 BY <1>2
  <2>2. NumData(r) = 0 BY <1>2, <2>1 DEF NumData
  <2>3. Pending(r) = 0 BY <2>2 DEF Pending
  <2>4. taken[r] \in Nat BY DEF MapInv, MapType
  <2>5. r \in 0..NumWorkers /\ NumWorkers > 0 /\ r <= r
    BY NumWorkersFacts DEF Ranks
  <2>6. Bound(r) \in Nat BY <2>5, BoundMonotone
  <2>7. Bound(r) + taken[r] - 0 - 1 = Bound(r) + taken[r] - 1 BY <2>4, <2>6
  <2> QED BY <2>3, <2>7 DEF Received, Read
<1> QED BY <1>2, <1>4, <1>5, <1>6

(* The packs of PackingDataset: when the master goes on, every row is in   *)
(* exactly one pack, the progress bar is at its end and nothing is left in *)
(* the queue, for any number of workers and rows, and any split into       *)
(* batches (create_packed_idx).                                            *)
THEOREM IndicesArePackedOnce == PackingSpec => []EachIndexOnce
<1>1. PackingInit => MapInit BY DEF PackingInit
<1>2. [PackingNext]_packingVars => [MapNext]_mapVars BY DEF PackingNext, packingVars, mapVars
<1>3. MapInv => EachIndexOnce
  <2> SUFFICES ASSUME MapInv, master = "done"
               PROVE  /\ UNION Packs = Indices
                      /\ \A p, q \in Packs : p # q => p \cap q = {}
                      /\ progress = NumRows
                      /\ \A r \in Ranks : channel[r] = <<>>
    BY DEF EachIndexOnce
  <2>0. NumRows \in Nat BY PackedIndexAssumption
  <2>1. \A r \in Ranks : r \in 0..NumWorkers /\ r + 1 \in 0..NumWorkers /\ NumWorkers > 0 /\ r <= r + 1
    BY NumWorkersFacts DEF Ranks
  <2>2. \A r \in Ranks : Bound(r) \in Nat /\ Bound(r + 1) \in Nat /\ Bound(r + 1) <= NumRows
    BY <2>1, BoundMonotone
  <2>3. ASSUME NEW i \in Indices PROVE i \in UNION Packs
    <3>1. PICK r \in Ranks : Bound(r) <= i /\ i < Bound(r + 1) BY ChunksCover
    <3>2. i \in Bound(r)..(Bound(r + 1) - 1) BY <2>0, <2>2, <3>1 DEF Indices
    <3>3. i \in UNION packed_idx[r] BY <3>2, AllReceived
    <3> QED BY <3>3 DEF Packs
  <2>4. ASSUME NEW i \in UNION Packs PROVE i \in Indices
    <3>1. PICK r \in Ranks : i \in UNION packed_idx[r] BY DEF Packs
    <3>2. i \in Bound(r)..(Bound(r + 1) - 1) BY <3>1, AllReceived
    <3> QED BY <2>0, <2>2, <3>2 DEF Indices
  <2>5. ASSUME NEW p \in Packs, NEW q \in Packs, p # q PROVE p \cap q = {}
    <3>1. PICK r \in Ranks : p \in packed_idx[r] BY DEF Packs
    <3>2. PICK s \in Ranks : q \in packed_idx[s] BY DEF Packs
    <3>3. CASE r = s
      <4>1. \A x, y \in packed_idx[r] : x # y => x \cap y = {} BY AllReceived
      <4> QED BY <2>5, <3>1, <3>2, <3>3, <4>1
    <3>4. CASE r # s
      <4>1. p \subseteq Bound(r)..(Bound(r + 1) - 1)
        <5>1. UNION packed_idx[r] = Bound(r)..(Bound(r + 1) - 1) BY AllReceived
        <5>2. p \subseteq UNION packed_idx[r] BY <3>1
        <5> QED BY <5>1, <5>2, Zenon
      <4>2. q \subseteq Bound(s)..(Bound(s + 1) - 1)
        <5>1. UNION packed_idx[s] = Bound(s)..(Bound(s + 1) - 1) BY AllReceived
        <5>2. q \subseteq UNION packed_idx[s] BY <3>2
        <5> QED BY <5>1, <5>2, Zenon
      <4>3. r + 1 <= s \/ s + 1 <= r BY <3>4, NumWorkersFacts DEF Ranks
      <4>4. r + 1 <= s => Bound(r + 1) <= Bound(s) BY <2>1, BoundMonotone
      <4>5. s + 1 <= r => Bound(s + 1) <= Bound(r) BY <2>1, BoundMonotone
      <4>6. Bound(r)..(Bound(r + 1) - 1) \cap Bound(s)..(Bound(s + 1) - 1) = {}
        BY <2>2, <4>3, <4>4, <4>5
      <4> QED BY <4>1, <4>2, <4>6
    <3> QED BY <3>3, <3>4
  <2>6. progress = NumRows
    <3>1. \A r \in Ranks : Received(r) = Bound(r)..(Bound(r + 1) - 1) BY AllReceived
    <3>2. ASSUME NEW i \in Indices PROVE i \in Counted
      <4>1. PICK r \in Ranks : Bound(r) <= i /\ i < Bound(r + 1) BY ChunksCover
      <4>2. i \in Bound(r)..(Bound(r + 1) - 1) BY <2>0, <2>2, <4>1 DEF Indices
      <4> QED BY <3>1, <4>2 DEF Counted
    <3>3. ASSUME NEW i \in Counted PROVE i \in Indices
      <4>1. PICK r \in Ranks : i \in Received(r) BY DEF Counted
      <4>2. i \in Bound(r)..(Bound(r + 1) - 1) BY <3>1, <4>1
      <4> QED BY <2>0, <2>2, <4>2 DEF Indices
    <3>4. Counted = 0..(NumRows - 1) BY <3>2, <3>3 DEF Indices
    <3>5. Cardinality(0..(NumRows - 1)) = IF 0 > NumRows - 1 THEN 0 ELSE NumRows - 1 - 0 + 1
      BY <2>0, FS_Interval
    <3>6. Cardinality(Counted) = NumRows BY <2>0, <3>4, <3>5
    <3> QED BY <3>6 DEF MapInv, ProgressInv
  <2> QED BY <2>3, <2>4, <2>5, <2>6, AllReceived
<1> QED BY <1>1, <1>2, <1>3, MapInvariance, PTL DEF PackingSpec, MapSpec
=============================================================================
