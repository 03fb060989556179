-------------------------- MODULE TrainingDataProofs --------------------------
(***************************************************************************)
(* Machine-checked proofs about TrainingData, for every loader, any number *)
(* of rows and of processes, every batch size, number of epochs and of     *)
(* crashes, and every order of the epochs.                                 *)
(***************************************************************************)
EXTENDS TrainingDataInvariant, BasicFacts, TLAPS, FiniteSetTheorems

-----------------------------------------------------------------------------
(* Slices, strides and batches of a list.                                  *)

(* A quotient rounded up: enough, and with one less too little.            *)
LEMMA CeilDivFacts ==
    ASSUME NEW a \in Nat, NEW b \in Nat \ {0}
    PROVE  /\ CeilDiv(a, b) \in Nat /\ CeilDiv(a, b) * b \in Nat
           /\ a <= CeilDiv(a, b) * b /\ CeilDiv(a, b) * b < a + b
<1> DEFINE n == a + b - 1
           q == n \div b
<1>1. n \in Nat OBVIOUS
<1>2. q \in Nat /\ q * b \in Nat /\ q * b <= n /\ n < (q + 1) * b BY <1>1, DivFacts
<1>3. CeilDiv(a, b) = q BY DEF CeilDiv
<1> HIDE DEF q
<1>4. (q + 1) * b = q * b + b BY <1>2
<1> QED BY <1>2, <1>3, <1>4

(* A product that exceeds another one has a greater factor.                *)
LEMMA TimesLess ==
    ASSUME NEW a \in Nat, NEW b \in Nat, NEW c \in Nat, a * c < b * c
    PROVE  a < b
<1> SUFFICES ASSUME b <= a PROVE FALSE OBVIOUS
<1>1. b * c <= a * c /\ b * c \in Nat /\ a * c \in Nat BY TimesMonotone
<1> QED BY <1>1

(* A list over a set is one over every greater set.                        *)
LEMMA SeqSubset == ASSUME NEW S, NEW T, S \subseteq T, NEW q \in Seq(S) PROVE q \in Seq(T)
OBVIOUS

(* A slice that ends within the list.                                      *)
LEMMA SliceFacts ==
    ASSUME NEW S, NEW list \in Seq(S), NEW start \in Nat, NEW end \in Nat
    PROVE  /\ Slice(list, start, end) \in Seq(S)
           /\ Len(Slice(list, start, end)) =
                IF start <= Lesser(end, Len(list)) THEN Lesser(end, Len(list)) - start ELSE 0
           /\ \A i \in 1 .. Len(Slice(list, start, end)) :
                Slice(list, start, end)[i] = list[start + i] /\ start + i \in 1 .. Len(list)
<1> DEFINE n == Lesser(end, Len(list))
           u == SubSeq(list, start + 1, n)
<1>1. Len(list) \in Nat /\ \A i \in 1 .. Len(list) : list[i] \in S BY LenFacts
<1>2. n \in Nat /\ n <= Len(list) BY <1>1 DEF Lesser
<1>3. Slice(list, start, end) = u BY DEF Slice
<1> HIDE DEF n
<1>4. \A i \in start + 1 .. n : list[i] \in S BY <1>1, <1>2
<1>5. u \in Seq(S) BY <1>2, <1>4, SubSeqProperties
<1>6. Len(u) = IF start + 1 <= n THEN n - (start + 1) + 1 ELSE 0 BY <1>2, <1>4, SubSeqProperties
<1>7. \A i \in 1 .. (n - (start + 1) + 1) : u[i] = list[(start + 1) + i - 1]
  BY <1>2, <1>4, SubSeqProperties
<1> HIDE DEF u
<1>8. Len(u) = IF start <= n THEN n - start ELSE 0 BY <1>2, <1>6
<1>9. ASSUME NEW i \in 1 .. Len(u) PROVE u[i] = list[start + i] /\ start + i \in 1 .. Len(list)
  <2>1. i \in 1 .. (n - (start + 1) + 1) /\ (start + 1) + i - 1 = start + i BY <1>2, <1>8
  <2>2. u[i] = list[start + i] BY <1>7, <2>1
  <2>3. start + i \in 1 .. Len(list) BY <1>1, <1>2, <1>8
  <2> QED BY <2>2, <2>3
<1> QED BY <1>3, <1>5, <1>8, <1>9 DEF n

(* A stride takes every procs-th element from rank on, up to the end.      *)
LEMMA StrideFacts ==
    ASSUME NEW S, NEW list \in Seq(S), NEW rank \in Nat, NEW procs \in Nat \ {0}
    PROVE  /\ Stride(list, rank, procs) \in Seq(S)
           /\ Len(Stride(list, rank, procs)) \in Nat
           /\ Len(list) <= rank + Len(Stride(list, rank, procs)) * procs
           /\ \A k \in 1 .. Len(Stride(list, rank, procs)) :
                /\ (k - 1) * procs \in Nat
                /\ rank + (k - 1) * procs + 1 \in 1 .. Len(list)
                /\ Stride(list, rank, procs)[k] = list[rank + (k - 1) * procs + 1]
<1> DEFINE l == Len(list)
           n == IF rank < l THEN CeilDiv(l - rank, procs) ELSE 0
           u == [k \in 1 .. n |-> list[rank + (k - 1) * procs + 1]]
<1>1. l \in Nat /\ \A i \in 1 .. l : list[i] \in S BY LenFacts
<1>2. n \in Nat /\ l <= rank + n * procs
  <2>1. CASE rank < l
    <3>1. l - rank \in Nat BY <1>1, <2>1
    <3>2. n = CeilDiv(l - rank, procs) BY <2>1
    <3> HIDE DEF n
    <3>3. n \in Nat /\ n * procs \in Nat /\ l - rank <= n * procs BY <3>1, <3>2, CeilDivFacts
    <3> QED BY <1>1, <3>3
  <2>2. CASE ~(rank < l) BY <1>1, <2>2
  <2> QED BY <2>1, <2>2
<1>3. ASSUME NEW k \in 1 .. n PROVE (k - 1) * procs \in Nat /\ rank + (k - 1) * procs + 1 \in 1 .. l
  <2>1. rank < l BY <1>1
  <2>2. l - rank \in Nat BY <1>1, <2>1
  <2>3. n = CeilDiv(l - rank, procs) BY <2>1
  <2>4. n * procs \in Nat /\ n * procs < (l - rank) + procs BY <2>2, <2>3, CeilDivFacts
  <2> HIDE DEF n
  <2>5. k \in Nat /\ k - 1 \in Nat /\ n - 1 \in Nat /\ k - 1 <= n - 1 BY <1>2
  <2>6. (k - 1) * procs \in Nat /\ (k - 1) * procs <= (n - 1) * procs /\ (n - 1) * procs \in Nat
    BY <2>5, TimesMonotone
  <2>7. (n - 1) * procs = n * procs - procs BY <1>2
  <2> QED BY <1>1, <2>2, <2>4, <2>6, <2>7
<1>4. Stride(list, rank, procs) = u BY DEF Stride
<1> HIDE DEF n, l
<1>5. \A k \in 1 .. n : u[k] \in S BY <1>1, <1>3
<1>6. u \in Seq(S) /\ Len(u) = n BY <1>2, <1>5
<1>7. \A k \in 1 .. n : u[k] = list[rank + (k - 1) * procs + 1] OBVIOUS
<1> HIDE DEF u
<1> QED BY <1>2, <1>3, <1>4, <1>6, <1>7 DEF l

(* How many it takes: the whole rounds, and one more at the low ranks.     *)
LEMMA StrideLength ==
    ASSUME NEW S, NEW list \in Seq(S), NEW procs \in Nat \ {0}, NEW rank \in 0 .. procs - 1,
           NEW m \in Nat
    PROVE  /\ m * procs <= Len(list) => m <= Len(Stride(list, rank, procs))
           /\ Len(list) <= m * procs => Len(Stride(list, rank, procs)) <= m
<1> DEFINE n == Len(Stride(list, rank, procs))
           l == Len(list)
<1>1. /\ n \in Nat /\ l <= rank + n * procs
      /\ \A k \in 1 .. n : (k - 1) * procs \in Nat /\ rank + (k - 1) * procs + 1 \in 1 .. l
  BY StrideFacts
<1>2. l \in Nat BY LenFacts
<1> HIDE DEF n, l
<1>3. ASSUME m * procs <= l PROVE m <= n
  <2>1. (n + 1) * procs = n * procs + procs /\ n * procs \in Nat /\ m * procs \in Nat BY <1>1
  <2>2. m * procs < (n + 1) * procs BY <1>1, <1>2, <1>3, <2>1
  <2>3. m < n + 1 BY <1>1, <2>2, TimesLess
  <2> QED BY <1>1, <2>3
<1>4. ASSUME l <= m * procs PROVE n <= m
  <2> SUFFICES ASSUME m + 1 <= n PROVE FALSE BY <1>1
  <2>1. n \in 1 .. n BY <1>1
  <2>2. (n - 1) * procs \in Nat /\ rank + (n - 1) * procs + 1 \in 1 .. l BY <1>1, <2>1
  <2>3. m * procs <= (n - 1) * procs /\ m * procs \in Nat BY <1>1, TimesMonotone
  <2> QED BY <1>2, <1>4, <2>2, <2>3
<1> QED BY <1>3, <1>4 DEF n, l

(* The batches r follow one another in the list, none is empty, and all    *)
(* but the last have the size.                                             *)
Parts(r, list, size) ==
    \A k \in 1 .. Len(r) :
        /\ Len(r[k]) = Lesser(size, Len(list) - (k - 1) * size)
        /\ Len(r[k]) >= 1
        /\ (k - 1) * size \in Nat
        /\ \A t \in 1 .. Len(r[k]) :
             (k - 1) * size + t \in 1 .. Len(list) /\ r[k][t] = list[(k - 1) * size + t]

(* There are d batches, all of the size.                                   *)
WholeParts(r, list, size, d) ==
    /\ Len(r) = d
    /\ \A k \in 1 .. d :
         /\ Len(r[k]) = size
         /\ \A t \in 1 .. size :
              (k - 1) * size + t \in 1 .. Len(list) /\ r[k][t] = list[(k - 1) * size + t]

(* Batched makes such batches.                                             *)
LEMMA BatchedFacts ==
    ASSUME NEW S, NEW list \in Seq(S), NEW size \in Nat \ {0}, NEW drop_last \in BOOLEAN,
           NEW r, r = Batched(list, size, drop_last)
    PROVE  /\ r \in Seq(Seq(S)) /\ Len(r) \in Nat
           /\ Len(r) = IF drop_last THEN Len(list) \div size ELSE CeilDiv(Len(list), size)
           /\ Parts(r, list, size)
<1> DEFINE l == Len(list)
           n == IF drop_last THEN l \div size ELSE CeilDiv(l, size)
           Part(k) == Slice(list, (k - 1) * size, k * size)
           u == [k \in 1 .. n |-> Part(k)]
<1>1. l \in Nat BY LenFacts
<1>2. n \in Nat /\ n * size < l + size /\ n * size \in Nat
  <2>1. CASE drop_last BY <1>1, <2>1, DivFacts
  <2>2. CASE ~drop_last BY <1>1, <2>2, CeilDivFacts
  <2> QED BY <2>1, <2>2
<1>3. r = u BY DEF Batched
<1> HIDE DEF n
<1>4. ASSUME NEW k \in 1 .. n
      PROVE  /\ (k - 1) * size \in Nat /\ k * size \in Nat
             /\ k * size = (k - 1) * size + size /\ (k - 1) * size < l
  <2>1. k \in Nat /\ k - 1 \in Nat BY <1>2
  <2>2. (k - 1) * size \in Nat /\ k * size \in Nat /\ k * size = (k - 1) * size + size BY <2>1
  <2>3. k * size <= n * size BY <1>2, <2>1, TimesMonotone
  <2> QED BY <1>1, <1>2, <2>2, <2>3
<1>5. ASSUME NEW k \in 1 .. n
      PROVE  /\ Part(k) \in Seq(S) /\ Len(Part(k)) = Lesser(size, l - (k - 1) * size)
             /\ Len(Part(k)) >= 1
             /\ \A t \in 1 .. Len(Part(k)) :
                  (k - 1) * size + t \in 1 .. l /\ Part(k)[t] = list[(k - 1) * size + t]
  <2> DEFINE a == (k - 1) * size
             b == k * size
  <2>1. a \in Nat /\ b \in Nat /\ b = a + size /\ a < l BY <1>4
  <2> HIDE DEF a, b
  <2>2. /\ Slice(list, a, b) \in Seq(S)
        /\ Len(Slice(list, a, b)) = IF a <= Lesser(b, l) THEN Lesser(b, l) - a ELSE 0
        /\ \A i \in 1 .. Len(Slice(list, a, b)) :
             Slice(list, a, b)[i] = list[a + i] /\ a + i \in 1 .. l
    BY <2>1, SliceFacts
  <2>3. /\ Len(Slice(list, a, b)) = Lesser(size, l - a)
        /\ Len(Slice(list, a, b)) >= 1
    BY <1>1, <2>1, <2>2 DEF Lesser
  <2>4. Part(k) = Slice(list, a, b) BY DEF a, b
  <2> HIDE DEF Part
  <2> QED BY <2>2, <2>3, <2>4 DEF a
<1>6. u \in Seq(Seq(S)) /\ Len(u) = n
  <2> HIDE DEF Part
  <2>1. \A k \in 1 .. n : Part(k) \in Seq(S) BY <1>5
  <2> QED BY <1>2, <2>1
<1>7. \A k \in 1 .. n : u[k] = Part(k)
  <2> HIDE DEF Part
  <2> QED OBVIOUS
<1> HIDE DEF u, Part
<1>8. \A k \in 1 .. Len(u) :
        /\ Len(u[k]) = Lesser(size, l - (k - 1) * size)
        /\ Len(u[k]) >= 1
        /\ (k - 1) * size \in Nat
        /\ \A t \in 1 .. Len(u[k]) :
             (k - 1) * size + t \in 1 .. l /\ u[k][t] = list[(k - 1) * size + t]
  BY <1>4, <1>5, <1>6, <1>7
<1>9. Len(u) = IF drop_last THEN l \div size ELSE CeilDiv(l, size) BY <1>6 DEF n
<1>10. Len(u) \in Nat BY <1>2, <1>6
<1>11. Parts(u, list, size) BY <1>8 DEF Parts, l
<1> QED BY <1>3, <1>6, <1>9, <1>10, <1>11 DEF l

(* Their number.                                                           *)
LEMMA BatchedShape ==
    ASSUME NEW S, NEW list \in Seq(S), NEW size \in Nat \ {0}, NEW drop_last \in BOOLEAN
    PROVE  /\ Batched(list, size, drop_last) \in Seq(Seq(S))
           /\ drop_last => Len(Batched(list, size, drop_last)) = Len(list) \div size
           /\ ~drop_last => Len(Batched(list, size, drop_last)) = CeilDiv(Len(list), size)
BY BatchedFacts

(* Whole batches only.                                                     *)
LEMMA FullBatches ==
    ASSUME NEW S, NEW list \in Seq(S), NEW size \in Nat \ {0}, NEW d \in Nat,
           d * size <= Len(list), Len(list) < d * size + size,
           NEW u, u = Batched(list, size, TRUE)
    PROVE  u \in Seq(Seq(S)) /\ WholeParts(u, list, size, d)
<1> DEFINE l == Len(list)
           y == d * size
           drop == TRUE
<1>1. l \in Nat /\ y \in Nat /\ y <= l /\ l < y + size BY LenFacts
<1>2. drop \in BOOLEAN /\ drop OBVIOUS
<1>3. u = Batched(list, size, drop) OBVIOUS
<1> HIDE DEF drop, l
<1>4. u \in Seq(Seq(S)) /\ Len(u) = l \div size BY <1>2, <1>3, BatchedShape DEF l
<1>5. l \div size = d
  <2> DEFINE x == l - y
  <2>1. x \in Nat /\ x < size /\ l = y + x
    <3> HIDE DEF y
    <3> QED BY <1>1
  <2> HIDE DEF x
  <2>2. (d * size + x) \div size = d BY <2>1, DivUnique
  <2> QED BY <2>1, <2>2
<1>6. \A k \in 1 .. Len(u) :
        /\ Len(u[k]) = Lesser(size, l - (k - 1) * size)
        /\ \A t \in 1 .. Len(u[k]) :
             (k - 1) * size + t \in 1 .. l /\ u[k][t] = list[(k - 1) * size + t]
  <2>1. Parts(u, list, size) BY <1>2, <1>3, BatchedFacts
  <2> QED BY <2>1 DEF Parts, l
<1>7. ASSUME NEW k \in 1 .. d PROVE Len(u[k]) = size
  <2>1. k \in Nat /\ k <= d /\ size \in Nat OBVIOUS
  <2>2. k * size <= d * size /\ k * size \in Nat BY <2>1, TimesMonotone
  <2>3. (k - 1) * size = k * size - size BY <2>1
  <2> DEFINE x == k * size
             z == (k - 1) * size
  <2>4. x <= y /\ x \in Nat /\ z = x - size BY <2>2, <2>3
  <2> HIDE DEF x, y, z
  <2>5. size <= l - z BY <1>1, <2>1, <2>4
  <2>6. Lesser(size, l - z) = size BY <2>5 DEF Lesser
  <2> QED BY <1>4, <1>5, <1>6, <2>6 DEF z
<1>8. Len(u) = d BY <1>4, <1>5
<1>9. WholeParts(u, list, size, d) BY <1>6, <1>7, <1>8 DEF l, WholeParts
<1> QED BY <1>4, <1>9

(* A quotient rounded up grows with the dividend.                          *)
LEMMA CeilDivMonotone ==
    ASSUME NEW a \in Nat, NEW b \in Nat, NEW c \in Nat \ {0}, a <= b
    PROVE  CeilDiv(a, c) <= CeilDiv(b, c)
<1> DEFINE m == a + c - 1
           n == b + c - 1
<1>1. m \in Nat /\ n \in Nat /\ m <= n OBVIOUS
<1>2. CeilDiv(a, c) = m \div c /\ CeilDiv(b, c) = n \div c BY DEF CeilDiv
<1> HIDE DEF m, n
<1> QED BY <1>1, <1>2, DivMonotone

-----------------------------------------------------------------------------
(* The passes of the loaders.                                              *)

(* The types of a command line.                                            *)
LEMMA ArgsFacts ==
    ASSUME args \in Args
    PROVE  /\ args.loader \in Loaders
           /\ args.samples \in Nat /\ args.procs \in Nat \ {0} /\ args.batch_size \in Nat \ {0}
           /\ args.drop_last \in BOOLEAN
           /\ args.epochs \in 0 .. MaxEpochs /\ args.max_steps \in Nat
           /\ GlobalBatch \in Nat \ {0}
           /\ 0 \in Procs /\ \A p \in Procs : p \in Nat /\ p \in 0 .. args.procs - 1
           /\ 0 \in Seeds /\ MaxEpochs \in Nat
<1>1. /\ args.loader \in Loaders
      /\ args.samples \in Nat /\ args.procs \in Nat \ {0} /\ args.batch_size \in Nat \ {0}
      /\ args.drop_last \in BOOLEAN
      /\ args.epochs \in 0 .. MaxEpochs /\ args.max_steps \in Nat
      /\ MaxEpochs \in Nat \ {0}
  BY ArgsAssumption
<1>2. \A m, n \in Nat \ {0} : m * n \in Nat \ {0} OBVIOUS
<1>3. GlobalBatch \in Nat \ {0} BY <1>1, <1>2 DEF GlobalBatch
<1> QED BY <1>1, <1>3 DEF Procs, Seeds

(* The orders of the epochs, as the initial states choose them.            *)
Orders ==
    /\ args \in Args
    /\ order \in [Seeds -> Seq(0 .. PermutedRows(args) - 1)]
    /\ OrderInv

(* A pass of BatchSamplerShard has the batches len() promises.             *)
LEMMA ShardPass ==
    ASSUME Orders, args.loader = "BatchSamplerShard", NEW p \in Procs, NEW e \in Seeds
    PROVE  /\ shard_batches(p, e) \in Seq(Seq(Rows))
           /\ len_dataloader \in Nat /\ len_dataloader <= Len(shard_batches(p, e))
<1> DEFINE S == args.samples
           b == args.batch_size
           m == S \div args.procs
           l == Len(order[e])
           u == Stride(order[e], p, args.procs)
<1>1. S \in Nat /\ args.procs \in Nat \ {0} /\ b \in Nat \ {0} /\ args.drop_last \in BOOLEAN
      /\ p \in 0 .. args.procs - 1 /\ p \in Nat
  BY ArgsFacts DEF Orders
<1>2. order[e] \in Seq(0 .. PermutedRows(args) - 1) /\ l = PermutedRows(args)
  BY DEF Orders, OrderInv
<1>3. PermutedRows(args) = IF args.group_by_length THEN S ELSE m * args.procs
  BY DEF PermutedRows, ShardRows
<1>4. m \in Nat /\ m * args.procs \in Nat /\ m * args.procs <= S BY <1>1, DivFacts
<1> HIDE DEF m, S, l, b
<1>5. PermutedRows(args) \in Nat /\ PermutedRows(args) <= S /\ m * args.procs <= l
  BY <1>1, <1>2, <1>3, <1>4
<1>6. u \in Seq(0 .. PermutedRows(args) - 1) /\ Len(u) \in Nat /\ m <= Len(u)
  BY <1>1, <1>2, <1>4, <1>5, StrideFacts, StrideLength DEF l
<1> HIDE DEF u
<1>7. Rows = 0 .. S - 1 BY DEF Rows, S
<1>8. u \in Seq(Rows) BY <1>1, <1>5, <1>6, <1>7
<1>9. shard_batches(p, e) = Batched(u, b, args.drop_last) BY DEF shard_batches, u, b
<1>10. len_dataloader = IF args.drop_last THEN m \div b ELSE CeilDiv(m, b)
  BY DEF len_dataloader, m, S, b
<1>11. /\ Batched(u, b, args.drop_last) \in Seq(Seq(Rows))
       /\ args.drop_last => Len(Batched(u, b, args.drop_last)) = Len(u) \div b
       /\ ~args.drop_last => Len(Batched(u, b, args.drop_last)) = CeilDiv(Len(u), b)
  BY <1>1, <1>8, BatchedShape
<1>12. CASE args.drop_last
  <2>1. m \div b \in Nat /\ m \div b <= Len(u) \div b BY <1>1, <1>4, <1>6, DivFacts, DivMonotone
  <2> QED BY <1>9, <1>10, <1>11, <1>12, <2>1
<1>13. CASE ~args.drop_last
  <2>1. CeilDiv(m, b) \in Nat /\ CeilDiv(m, b) <= CeilDiv(Len(u), b)
    BY <1>1, <1>4, <1>6, CeilDivFacts, CeilDivMonotone
  <2> QED BY <1>9, <1>10, <1>11, <1>13, <2>1
<1> QED BY <1>12, <1>13

(* So has a pass of SequenceParallelSampler.                               *)
LEMMA SequenceParallelPass ==
    ASSUME Orders, args.loader = "SequenceParallelSampler", NEW p \in Procs, NEW e \in Seeds
    PROVE  /\ sp_batches(p, e) \in Seq(Seq(Rows))
           /\ len_dataloader \in Nat /\ len_dataloader <= Len(sp_batches(p, e))
<1> DEFINE S == args.samples
           b == args.batch_size
           m == CeilDiv(S, args.procs)
           total == m * args.procs
           indices == [i \in 1 .. total |-> order[e][((i - 1) % S) + 1]]
           u == Stride(indices, p, args.procs)
<1>1. S \in Nat /\ args.procs \in Nat \ {0} /\ b \in Nat \ {0} /\ args.drop_last \in BOOLEAN
      /\ p \in 0 .. args.procs - 1 /\ p \in Nat
  BY ArgsFacts DEF Orders
<1>2. PermutedRows(args) = S /\ Rows = 0 .. S - 1 BY DEF PermutedRows, Rows
<1>3. order[e] \in Seq(Rows) /\ Len(order[e]) = S BY <1>2 DEF Orders, OrderInv
<1>4. m \in Nat /\ total \in Nat /\ total < S + args.procs BY <1>1, CeilDivFacts
<1> HIDE DEF m
<1>5. ASSUME NEW i \in 1 .. total PROVE order[e][((i - 1) % S) + 1] \in Rows
  <2>1. S # 0
    <3> SUFFICES ASSUME S = 0 PROVE FALSE OBVIOUS
    <3>1. m * args.procs < 1 * args.procs BY <1>1, <1>4
    <3>2. m = 0 BY <1>1, <1>4, <3>1, TimesLess
    <3> QED BY <1>1, <3>2
  <2>2. i - 1 \in Nat BY <1>4
  <2>3. (i - 1) % S \in Nat /\ (i - 1) % S < S BY <1>1, <2>1, <2>2, DivMod
  <2>4. ((i - 1) % S) + 1 \in 1 .. Len(order[e]) BY <1>1, <1>3, <2>3
  <2> QED BY <1>3, <2>4, LenFacts
<1> HIDE DEF total, S, b
<1>6. indices \in Seq(Rows) /\ Len(indices) = total BY <1>4, <1>5
<1> HIDE DEF indices
<1>7. u \in Seq(Rows) /\ Len(u) \in Nat /\ m <= Len(u)
  BY <1>1, <1>4, <1>6, StrideFacts, StrideLength DEF total
<1> HIDE DEF u
<1>8. sp_batches(p, e) = Batched(u, b, args.drop_last)
  BY DEF sp_batches, u, b, indices, total, m, S
<1>9. len_dataloader = IF args.drop_last THEN m \div b ELSE CeilDiv(m, b)
  BY DEF len_dataloader, m, S, b
<1>10. /\ Batched(u, b, args.drop_last) \in Seq(Seq(Rows))
       /\ args.drop_last => Len(Batched(u, b, args.drop_last)) = Len(u) \div b
       /\ ~args.drop_last => Len(Batched(u, b, args.drop_last)) = CeilDiv(Len(u), b)
  BY <1>1, <1>7, BatchedShape
<1>11. CASE args.drop_last
  <2>1. m \div b \in Nat /\ m \div b <= Len(u) \div b BY <1>1, <1>4, <1>7, DivFacts, DivMonotone
  <2> QED BY <1>8, <1>9, <1>10, <1>11, <2>1
<1>12. CASE ~args.drop_last
  <2>1. CeilDiv(m, b) \in Nat /\ CeilDiv(m, b) <= CeilDiv(Len(u), b)
    BY <1>1, <1>4, <1>7, CeilDivFacts, CeilDivMonotone
  <2> QED BY <1>8, <1>9, <1>10, <1>12, <2>1
<1> QED BY <1>11, <1>12

(* The dispatcher gives every process a batch of every complete set.       *)
LEMMA DispatchedPass ==
    ASSUME Orders, Streaming, NEW p \in Procs
    PROVE  /\ dispatched_batches(p) \in Seq(Seq(Rows))
           /\ Len(dispatched_batches(p)) \in Nat
           /\ Len(dispatched_batches(p)) = Len(dispatched_batches(0))
<1> DEFINE b == args.batch_size
           W == args.procs
           base == Batched(order[0], b, FALSE)
           n == Len(base) \div W
           D(q) == [k \in 1 .. n |-> base[(k - 1) * W + q + 1]]
<1>1. W \in Nat \ {0} /\ b \in Nat \ {0} /\ 0 \in Procs /\ 0 \in Seeds
  BY ArgsFacts DEF Orders
<1>2. PermutedRows(args) = args.samples BY DEF Streaming, PermutedRows
<1>3. order[0] \in Seq(Rows) BY <1>1, <1>2 DEF Orders, Rows
<1>4. base \in Seq(Seq(Rows)) BY <1>1, <1>3, BatchedShape
<1> HIDE DEF base
<1>5. Len(base) \in Nat /\ \A i \in 1 .. Len(base) : base[i] \in Seq(Rows) BY <1>4, LenFacts
<1>6. n \in Nat /\ n * W \in Nat /\ n * W <= Len(base) BY <1>1, <1>5, DivFacts
<1> HIDE DEF n
<1>7. ASSUME NEW q \in Procs
      PROVE  dispatched_batches(q) \in Seq(Seq(Rows)) /\ Len(dispatched_batches(q)) = n
  <2>1. q \in 0 .. W - 1 BY ArgsFacts DEF Orders
  <2>2. ASSUME NEW k \in 1 .. n PROVE base[(k - 1) * W + q + 1] \in Seq(Rows)
    <3>0. k \in Nat /\ n \in Nat /\ k <= n /\ W \in Nat BY <1>1, <1>6
    <3>1. k \in Nat /\ k * W <= n * W /\ k * W \in Nat BY <3>0, TimesMonotone
    <3>2. (k - 1) * W = k * W - W /\ (k - 1) * W \in Nat BY <1>1, <3>1
    <3> DEFINE x == (k - 1) * W
               y == k * W
               z == n * W
    <3>4. x = y - W /\ y <= z /\ z <= Len(base) /\ x \in Nat /\ y \in Nat /\ z \in Nat
      BY <1>6, <3>1, <3>2
    <3> HIDE DEF W, x, y, z
    <3>5. x + q + 1 \in 1 .. Len(base) BY <1>1, <1>5, <2>1, <3>4
    <3>3. (k - 1) * W + q + 1 \in 1 .. Len(base) BY <3>5 DEF x
    <3> QED BY <1>5, <3>3
  <2>3. D(q) \in Seq(Seq(Rows)) /\ Len(D(q)) = n BY <1>6, <2>2
  <2>4. dispatched_batches(q) = D(q) BY DEF dispatched_batches, base, n
  <2> HIDE DEF D
  <2> QED BY <2>3, <2>4
<1> QED BY <1>1, <1>6, <1>7

(* The samples of a pass of the megatron sampler, in steps.                *)
LEMMA ActiveSamples ==
    ASSUME args \in Args, NEW N, N = args.samples \div GlobalBatch
    PROVE  /\ N \in Nat /\ N * GlobalBatch \in Nat /\ N * GlobalBatch <= args.samples
           /\ active_total_samples = N * GlobalBatch
           /\ active_total_samples \div GlobalBatch = N
           /\ args.samples = N * GlobalBatch + (args.samples % GlobalBatch)
<1> DEFINE G == GlobalBatch
           S == args.samples
<1>1. G \in Nat \ {0} /\ S \in Nat BY ArgsFacts
<1>2. active_total_samples = S - (S % G) BY DEF active_total_samples
<1> HIDE DEF G, S
<1>3. N = S \div G BY DEF G, S
<1>4. N \in Nat /\ S % G \in Nat /\ N * G \in Nat /\ S = N * G + (S % G) BY <1>1, <1>3, DivMod
<1>5. active_total_samples = N * G + 0 /\ active_total_samples = N * G BY <1>1, <1>2, <1>4
<1>6. (N * G + 0) \div G = N BY <1>1, <1>4, DivUnique
<1>7. N * G <= S BY <1>1, <1>4
<1>8. /\ N \in Nat /\ N * G \in Nat /\ N * G <= S /\ active_total_samples = N * G
      /\ active_total_samples \div G = N /\ S = N * G + (S % G)
  BY <1>4, <1>5, <1>6, <1>7
<1> QED BY <1>8, Zenon DEF G, S

(* The rows of a bucket of the megatron sampler.                           *)
LEMMA BucketFacts ==
    ASSUME args \in Args, NEW N, N = args.samples \div GlobalBatch
    PROVE  /\ BucketRows(args) \in Nat
           /\ Sharding(args) => /\ BucketRows(args) = N * args.batch_size
                                /\ args.procs * BucketRows(args) = N * GlobalBatch
           /\ ~Sharding(args) => /\ BucketRows(args) <= args.samples
                                 /\ args.samples < BucketRows(args) + args.batch_size
<1> DEFINE S == args.samples
           W == args.procs
           b == args.batch_size
<1>1. S \in Nat /\ W \in Nat \ {0} /\ b \in Nat \ {0} BY ArgsFacts
<1>2. BucketRows(args) = IF Sharding(args) THEN (S \div (b * W)) * b ELSE (S \div b) * b
  BY DEF BucketRows
<1>3. GlobalBatch = W * b BY DEF GlobalBatch
<1> HIDE DEF S, W, b
<1>4. b * W = W * b BY <1>1
<1>5. N = S \div (W * b) BY <1>3 DEF S
<1>6. N \in Nat BY ActiveSamples
<1>7. CASE Sharding(args)
  <2>1. BucketRows(args) = N * b BY <1>2, <1>4, <1>5, <1>7
  <2>2. W * (N * b) = N * (W * b) /\ N * b \in Nat BY <1>1, <1>6
  <2> QED BY <1>3, <1>7, <2>1, <2>2 DEF W, b
<1>8. CASE ~Sharding(args)
  <2>1. BucketRows(args) = (S \div b) * b BY <1>2, <1>8
  <2>2. /\ (S \div b) * b \in Nat /\ (S \div b) * b <= S /\ S < ((S \div b) + 1) * b
        /\ S \div b \in Nat
    BY <1>1, DivFacts
  <2>3. ((S \div b) + 1) * b = (S \div b) * b + b BY <1>1, <2>2
  <2> QED BY <1>8, <2>1, <2>2, <2>3 DEF S, b
<1> QED BY <1>7, <1>8

(* idx_range of the megatron sampler, in epoch e from offset on.           *)
MegatronRange(p, e, offset) ==
    IF Sharding(args)
    THEN [i \in 1 .. BucketRows(args) - offset \div args.procs |->
            p * BucketRows(args) + order[e][offset \div args.procs + i]]
    ELSE Stride(Slice(order[e], offset, Len(order[e])), p, args.procs)

(* The q-th row that process p takes in epoch e.                           *)
MegatronRow(p, e, q) ==
    IF Sharding(args) THEN p * BucketRows(args) + order[e][q]
    ELSE order[e][p + (q - 1) * args.procs + 1]

(* A multiple of b that is not above a is not above that of the quotient.  *)
LEMMA MultipleBelow ==
    ASSUME NEW a \in Nat, NEW b \in Nat \ {0}, NEW c \in Nat, c * b <= a
    PROVE  c <= a \div b
<1> DEFINE q == a \div b
<1>1. q \in Nat /\ a < (q + 1) * b /\ (q + 1) * b \in Nat BY DivFacts
<1> HIDE DEF q
<1>2. c * b < (q + 1) * b /\ c * b \in Nat /\ q + 1 \in Nat BY <1>1
<1>3. c < q + 1 BY <1>2, TimesLess
<1> QED BY <1>1, <1>3 DEF q

(* The lists the megatron sampler permutes hold the rows of its passes.    *)
LEMMA MegatronOrder ==
    ASSUME Orders, args.loader = "MegatronPretrainingRandomSampler",
           NEW N, N = args.samples \div GlobalBatch, NEW e \in Seeds
    PROVE  /\ Len(order[e]) \in Nat
           /\ Sharding(args) => Len(order[e]) = BucketRows(args)
           /\ ~Sharding(args) => /\ N * GlobalBatch <= Len(order[e])
                                 /\ Len(order[e]) <= args.samples
                                 /\ order[e] \in Seq(Rows)
           /\ \A i \in 1 .. Len(order[e]) : order[e][i] \in 0 .. Len(order[e]) - 1
<1> DEFINE l == Len(order[e])
           B == BucketRows(args)
           S == args.samples
           b == args.batch_size
<1>1. /\ order[e] \in Seq(0 .. PermutedRows(args) - 1) /\ l = PermutedRows(args)
      /\ args \in Args
  BY DEF Orders, OrderInv
<1>2. PermutedRows(args) = IF args.group_by_length THEN S ELSE B BY DEF PermutedRows
<1>3. S \in Nat /\ b \in Nat \ {0} /\ args.procs \in Nat \ {0} BY <1>1, ArgsFacts
<1>4. B \in Nat BY <1>1, BucketFacts
<1>5. l \in Nat /\ \A i \in 1 .. l : order[e][i] \in 0 .. l - 1 BY <1>1, LenFacts
<1>6. Sharding(args) => l = B BY <1>1, <1>2 DEF Sharding
<1>7. ASSUME ~Sharding(args) PROVE N * GlobalBatch <= l /\ l <= S /\ order[e] \in Seq(Rows)
  <2>1. B <= S BY <1>1, <1>7, BucketFacts
  <2>2. l <= S BY <1>1, <1>2, <1>3, <2>1
  <2>3. order[e] \in Seq(Rows)
    <3>1. l = PermutedRows(args) /\ Rows = 0 .. S - 1 BY <1>1 DEF Rows
    <3> HIDE DEF l
    <3>2. \A x \in 0 .. PermutedRows(args) - 1 : x \in Rows BY <1>3, <1>5, <2>2, <3>1
    <3>3. (0 .. PermutedRows(args) - 1) \subseteq Rows BY <3>2
    <3> QED BY <1>1, <3>3, SeqSubset
  <2>4. N \in Nat /\ N * GlobalBatch \in Nat /\ N * GlobalBatch <= S BY <1>1, ActiveSamples
  <2>5. N * GlobalBatch <= B
    <3>1. N * GlobalBatch = (N * args.procs) * b /\ N * args.procs \in Nat
      BY <1>3, <2>4 DEF GlobalBatch
    <3> DEFINE c == N * args.procs
    <3> HIDE DEF c, S, b
    <3>2. N * GlobalBatch = c * b /\ c \in Nat BY <3>1 DEF c
    <3>3. c <= S \div b BY <1>3, <2>4, <3>2, MultipleBelow
    <3> DEFINE q == S \div b
    <3>6. q \in Nat BY <1>3, DivFacts
    <3>7. c * b <= q * b
      <4>1. c <= q /\ b \in Nat BY <1>3, <3>3
      <4> HIDE DEF q
      <4> QED BY <3>2, <3>6, <4>1, TimesMonotone
    <3>4. c * b <= (S \div b) * b BY <3>7
    <3>5. B = (S \div b) * b BY <1>7 DEF BucketRows, S, b
    <3> QED BY <3>2, <3>4, <3>5
  <2> QED BY <1>1, <1>2, <2>2, <2>3, <2>4, <2>5
<1> QED BY <1>5, <1>6, <1>7

(* What the sampler iterates over are rows of the dataset.                 *)
LEMMA MegatronRangeType ==
    ASSUME Orders, args.loader = "MegatronPretrainingRandomSampler",
           NEW p \in Procs, NEW e \in Seeds, NEW offset \in Nat, offset < active_total_samples
    PROVE  MegatronRange(p, e, offset) \in Seq(Rows)
<1> DEFINE N == args.samples \div GlobalBatch
           B == BucketRows(args)
           W == args.procs
           o == offset \div W
<1>1. /\ args \in Args /\ W \in Nat \ {0} /\ p \in Nat /\ p \in 0 .. W - 1
      /\ args.samples \in Nat
  BY ArgsFacts DEF Orders
<1>2. N \in Nat /\ N * GlobalBatch <= args.samples /\ offset < N * GlobalBatch /\ N * GlobalBatch \in Nat
  BY <1>1, ActiveSamples
<1>3. B \in Nat BY <1>1, BucketFacts
<1>4. CASE Sharding(args)
  <2>1. W * B = N * GlobalBatch /\ Len(order[e]) = B /\ \A i \in 1 .. B : order[e][i] \in 0 .. B - 1
    BY <1>1, <1>4, BucketFacts, MegatronOrder
  <2>2. o \in Nat BY <1>1, DivFacts
  <2> HIDE DEF o, B, W, N
  <2>3. ASSUME NEW i \in 1 .. B - o PROVE p * B + order[e][o + i] \in Rows
    <3>1. o + i \in 1 .. B BY <1>3, <2>2
    <3>2. order[e][o + i] \in 0 .. B - 1 BY <2>1, <3>1
    <3> DEFINE x == order[e][o + i]
    <3> HIDE DEF x
    <3>3. x \in 0 .. B - 1 BY <3>2 DEF x
    <3>4. p + 1 \in Nat /\ p + 1 <= W /\ W \in Nat BY <1>1
    <3>5. (p + 1) * B <= W * B BY <1>3, <3>4, TimesMonotone
    <3>6. (p + 1) * B = p * B + B /\ p * B \in Nat BY <1>1, <1>3
    <3> DEFINE y == p * B
               z == W * B
    <3>8. y + B <= z /\ z <= args.samples /\ y \in Nat /\ z \in Nat
      BY <1>2, <2>1, <3>5, <3>6
    <3> HIDE DEF y, z
    <3>9. y + x \in 0 .. args.samples - 1 BY <1>1, <1>3, <3>3, <3>8
    <3>7. p * B + x \in 0 .. args.samples - 1 BY <3>9 DEF y
    <3> QED BY <3>7 DEF x, Rows
  <2> DEFINE u == [i \in 1 .. B - o |-> p * B + order[e][o + i]]
  <2>4. MegatronRange(p, e, offset) = u BY <1>4 DEF MegatronRange, B, o, W
  <2>5. o <= B
    <3> SUFFICES ASSUME B + 1 <= o PROVE FALSE BY <1>3, <2>2
    <3>1. B * W <= o * W /\ B * W \in Nat BY <1>1, <1>3, <2>2, TimesMonotone
    <3>2. o * W <= offset BY <1>1, DivFacts DEF o
    <3>3. B * W = W * B BY <1>1, <1>3
    <3> QED BY <1>1, <1>2, <2>1, <2>2, <3>1, <3>2, <3>3
  <2>6. B - o \in Nat BY <1>3, <2>2, <2>5
  <2>7. u \in Seq(Rows) BY <2>3, <2>6
  <2> QED BY <2>4, <2>7
<1>5. CASE ~Sharding(args)
  <2> DEFINE s == Slice(order[e], offset, Len(order[e]))
  <2>1. order[e] \in Seq(Rows) /\ Len(order[e]) \in Nat BY <1>5, MegatronOrder
  <2>2. s \in Seq(Rows) BY <2>1, SliceFacts
  <2> HIDE DEF s
  <2>3. Stride(s, p, args.procs) \in Seq(Rows) BY <1>1, <2>2, StrideFacts
  <2>4. MegatronRange(p, e, offset) = Stride(s, p, args.procs) BY <1>5 DEF MegatronRange, s
  <2> QED BY <2>3, <2>4
<1> QED BY <1>4, <1>5

(* So are its batches, wherever it starts.                                 *)
LEMMA MegatronBatches ==
    ASSUME Orders, args.loader = "MegatronPretrainingRandomSampler",
           NEW p \in Procs, NEW n \in Nat,
           active_total_samples \in Nat \ {0}, n \div active_total_samples \in Seeds
    PROVE  /\ megatron_batches(p, n) \in Seq(Seq(Rows))
           /\ megatron_batches(p, n) =
                Batched(MegatronRange(p, n \div active_total_samples, n % active_total_samples),
                        args.batch_size, TRUE)
<1> DEFINE e == n \div active_total_samples
           offset == n % active_total_samples
           u == MegatronRange(p, e, offset)
<1>1. megatron_batches(p, n) = Batched(u, args.batch_size, TRUE)
  BY DEF megatron_batches, MegatronRange
<1>2. offset \in Nat /\ offset < active_total_samples BY DivMod
<1> HIDE DEF offset, e
<1>3. u \in Seq(Rows) BY <1>2, MegatronRangeType DEF e
<1>4. args.batch_size \in Nat \ {0} BY ArgsFacts DEF Orders
<1> HIDE DEF u
<1>5. Batched(u, args.batch_size, TRUE) \in Seq(Seq(Rows)) BY <1>3, <1>4, BatchedShape
<1> QED BY <1>1, <1>5 DEF u, e, offset

(* When the rows make no other micro-batch, every process is left with the *)
(* batches of the steps to come and less than one more.                    *)
LEMMA MegatronRangeEven ==
    ASSUME Orders, args.loader = "MegatronPretrainingRandomSampler", ~UnevenPass,
           NEW p \in Procs, NEW e \in Seeds,
           NEW N, N = args.samples \div GlobalBatch, NEW j \in Nat, j < N,
           NEW b, b = args.batch_size, NEW u, u = MegatronRange(p, e, j * GlobalBatch)
    PROVE  /\ Len(u) \in Nat
           /\ (N - j) * b <= Len(u) /\ Len(u) < (N - j) * b + b
           /\ \A q \in 1 .. Len(u) : u[q] = MegatronRow(p, e, j * b + q)
<1> DEFINE W == args.procs
           B == BucketRows(args)
           G == GlobalBatch
           S == args.samples
           l == Len(order[e])
           d == N - j
           offset == j * G
<1>1. /\ args \in Args /\ W \in Nat \ {0} /\ b \in Nat \ {0} /\ S \in Nat
      /\ p \in Nat /\ p \in 0 .. W - 1
  BY ArgsFacts DEF Orders
<1>2. N \in Nat /\ S = N * G + (S % G) /\ N * G \in Nat BY <1>1, ActiveSamples
<1>3. G = W * b BY DEF GlobalBatch
<1>4. d \in Nat /\ N = j + d BY <1>2
<1>5. B \in Nat BY <1>1, BucketFacts
<1>6. l \in Nat BY MegatronOrder
<1> HIDE DEF W, B, G, S, l, d
<1>7. /\ offset = (j * b) * W /\ j * b \in Nat /\ d * b \in Nat
      /\ N * b = j * b + d * b /\ N * G = offset + (d * b) * W /\ offset \in Nat
  BY <1>1, <1>3, <1>4
<1>8. CASE Sharding(args)
  <2>1. B = N * b BY <1>1, <1>8, BucketFacts DEF B
  <2>2. offset \div W = j * b
    <3>1. ((j * b) * W + 0) \div W = j * b BY <1>1, <1>7, DivUnique
    <3>2. (j * b) * W + 0 = offset BY <1>7
    <3> QED BY <3>1, <3>2
  <2> DEFINE v == [i \in 1 .. B - j * b |-> p * B + order[e][j * b + i]]
  <2>3. u = v BY <1>8, <2>2 DEF MegatronRange, B, W, G
  <2>4. B - j * b = d * b BY <1>7, <2>1
  <2>5. Len(v) = d * b
    <3> DEFINE n == B - j * b
    <3>1. n \in Nat BY <1>7, <2>4
    <3> HIDE DEF n
    <3>2. Len([i \in 1 .. n |-> p * B + order[e][j * b + i]]) = n BY <3>1
    <3> QED BY <2>4, <3>2 DEF n
  <2>6. \A q \in 1 .. (B - j * b) : v[q] = p * B + order[e][j * b + q] OBVIOUS
  <2>7. \A q : MegatronRow(p, e, j * b + q) = p * B + order[e][j * b + q]
    BY <1>8 DEF MegatronRow, B
  <2> HIDE DEF v
  <2>8. \A q \in 1 .. Len(u) : u[q] = MegatronRow(p, e, j * b + q) BY <2>3, <2>4, <2>5, <2>6, <2>7
  <2> DEFINE m == d * b
  <2>9. m \in Nat /\ Len(u) = m /\ (N - j) * b = m BY <1>7, <2>3, <2>5 DEF d
  <2> HIDE DEF m
  <2> QED BY <1>1, <2>8, <2>9
<1>9. CASE ~Sharding(args)
  <2>1. N * G <= l /\ l <= S /\ order[e] \in Seq(Rows) BY <1>9, MegatronOrder DEF l, S, G
  <2>2. S % G < b /\ S % G \in Nat
    <3>1. ~(S % G >= b) BY <1>9 DEF UnevenPass, S, G
    <3>2. G \in Nat \ {0} BY <1>1, ArgsFacts DEF G
    <3>3. S % G \in Nat BY <1>1, <3>2, DivMod
    <3> QED BY <1>1, <3>1, <3>3
  <2> DEFINE s == Slice(order[e], offset, l)
             v == Stride(s, p, W)
             m == d * b
  <2>3. s \in Seq(Rows) /\ Len(s) = l - offset /\ Len(s) \in Nat
        /\ \A i \in 1 .. Len(s) : s[i] = order[e][offset + i]
    <3>1. /\ s \in Seq(Rows)
          /\ Len(s) = IF offset <= Lesser(l, l) THEN Lesser(l, l) - offset ELSE 0
          /\ \A i \in 1 .. Len(s) : s[i] = order[e][offset + i]
      <4> DEFINE f == order[e]
      <4>1. f \in Seq(Rows) /\ offset \in Nat /\ l \in Nat /\ l = Len(f) BY <1>6, <1>7, <2>1 DEF l
      <4> HIDE DEF offset, f
      <4>2. /\ Slice(f, offset, l) \in Seq(Rows)
            /\ Len(Slice(f, offset, l)) =
                 IF offset <= Lesser(l, Len(f)) THEN Lesser(l, Len(f)) - offset ELSE 0
            /\ \A i \in 1 .. Len(Slice(f, offset, l)) : Slice(f, offset, l)[i] = f[offset + i]
        BY <4>1, SliceFacts
      <4> QED BY <4>1, <4>2 DEF f
    <3>2. Lesser(l, l) = l BY DEF Lesser
    <3>3. offset <= l
      <4>1. (d * b) * W \in Nat BY <1>1, <1>7
      <4> HIDE DEF offset
      <4> QED BY <1>2, <1>6, <1>7, <2>1, <4>1
    <3> HIDE DEF s, offset
    <3> QED BY <1>6, <1>7, <3>1, <3>2, <3>3
  <2>4. m \in Nat /\ m * W \in Nat /\ m * W <= Len(s) /\ Len(s) < m * W + b
    <3> DEFINE x == (d * b) * W
               y == N * G
    <3>1. x \in Nat /\ y = offset + x /\ y <= l /\ l < y + b /\ y \in Nat /\ offset \in Nat
      <4>1. y \in Nat /\ S = y + (S % G) BY <1>2
      <4> HIDE DEF y, x
      <4>2. l < y + b BY <1>1, <1>6, <2>1, <2>2, <4>1
      <4>3. y <= l BY <2>1 DEF y
      <4>4. y = offset + x BY <1>7 DEF x, y
      <4>5. x \in Nat BY <1>1, <1>7 DEF x
      <4> QED BY <1>7, <4>1, <4>2, <4>3, <4>4, <4>5
    <3> HIDE DEF x, y, s, offset
    <3>2. x \in Nat /\ x <= Len(s) /\ Len(s) < x + b BY <1>1, <1>6, <2>3, <3>1
    <3> QED BY <1>7, <3>2 DEF x
  <2>5. /\ v \in Seq(Rows) /\ Len(v) \in Nat
        /\ \A k \in 1 .. Len(v) :
             /\ (k - 1) * W \in Nat
             /\ p + (k - 1) * W + 1 \in 1 .. Len(s)
             /\ v[k] = s[p + (k - 1) * W + 1]
    <3> HIDE DEF s
    <3> QED BY <1>1, <2>3, StrideFacts
  <2>6. m <= Len(v)
    <3> HIDE DEF s, m
    <3> QED BY <1>1, <2>3, <2>4, StrideLength
  <2>7. Len(v) <= m + (b - 1)
    <3> DEFINE c == b - 1
               w == m + c
    <3>1. c \in Nat /\ 1 <= W /\ W \in Nat BY <1>1
    <3>2. c * 1 <= c * W
      <4> HIDE DEF c
      <4>1. 1 * c <= W * c /\ W * c \in Nat BY <3>1, TimesMonotone
      <4> QED BY <3>1, <4>1
    <3> HIDE DEF m
    <3>3. w * W = m * W + c * W /\ w \in Nat /\ c * W \in Nat
      <4> HIDE DEF c
      <4> QED BY <2>4, <3>1
    <3>4. Len(s) <= m * W + c BY <1>1, <2>3, <2>4
    <3> HIDE DEF s, c
    <3>5. Len(s) <= w * W
      <4> DEFINE x == m * W
                 y == c * W
      <4>1. x \in Nat /\ y \in Nat /\ w * W = x + y /\ c <= y /\ Len(s) <= x + c
        BY <2>4, <3>1, <3>2, <3>3, <3>4
      <4> HIDE DEF x, y, w
      <4> QED BY <2>3, <3>1, <4>1
    <3>6. w \in Nat BY <3>3
    <3> HIDE DEF w
    <3>7. Len(v) <= w BY <1>1, <2>3, <3>5, <3>6, StrideLength
    <3> QED BY <3>7 DEF w, c
  <2>8. u = v BY <1>9 DEF MegatronRange, W, l, G
  <2>9. ASSUME NEW q \in 1 .. Len(v) PROVE v[q] = MegatronRow(p, e, j * b + q)
    <3>1. v[q] = s[p + (q - 1) * W + 1] /\ p + (q - 1) * W + 1 \in 1 .. Len(s) BY <2>5
    <3>2. v[q] = order[e][offset + (p + (q - 1) * W + 1)] BY <2>3, <3>1
    <3>3. MegatronRow(p, e, j * b + q) = order[e][p + ((j * b + q) - 1) * W + 1]
      BY <1>9 DEF MegatronRow, W
    <3>4. q \in Nat BY <2>5
    <3> DEFINE x == j * b
    <3>5. offset = x * W /\ x \in Nat BY <1>7
    <3> HIDE DEF offset, x
    <3>6. ((x + q) - 1) * W = x * W + (q - 1) * W /\ x * W \in Nat /\ (q - 1) * W \in Int
      BY <1>1, <3>4, <3>5
    <3>7. offset + (p + (q - 1) * W + 1) = p + ((x + q) - 1) * W + 1
      <4> DEFINE y == (q - 1) * W
      <4> HIDE DEF y
      <4>1. y \in Int /\ ((x + q) - 1) * W = offset + y /\ offset \in Nat BY <3>5, <3>6 DEF y
      <4>2. offset + (p + y + 1) = p + ((x + q) - 1) * W + 1 BY <1>1, <4>1
      <4> QED BY <4>2 DEF y
    <3> QED BY <3>2, <3>3, <3>7 DEF x
  <2> HIDE DEF v
  <2>10. (N - j) * b = m BY DEF d
  <2> HIDE DEF m
  <2>11. Len(v) < m + b BY <1>1, <2>4, <2>5, <2>7
  <2> QED BY <2>5, <2>6, <2>8, <2>9, <2>10, <2>11
<1> QED BY <1>8, <1>9

(* The batches u of process p are those of epoch e from the j-th on.       *)
StepsFrom(u, p, e, j) ==
    /\ Len(u) = (args.samples \div GlobalBatch) - j
    /\ \A k \in 1 .. Len(u) :
         /\ Len(u[k]) = args.batch_size
         /\ \A t \in 1 .. args.batch_size :
              u[k][t] = MegatronRow(p, e, j * args.batch_size + ((k - 1) * args.batch_size + t))

(* The batches from step n on, n counted over all passes.                  *)
LEMMA MegatronFrom ==
    ASSUME Orders, args.loader = "MegatronPretrainingRandomSampler", ~UnevenPass,
           NEW p \in Procs, NEW N, N = args.samples \div GlobalBatch, N # 0,
           NEW n \in Nat, n \div N \in Seeds,
           NEW b, b = args.batch_size, NEW u, u = megatron_batches(p, n * GlobalBatch)
    PROVE  u \in Seq(Seq(Rows)) /\ StepsFrom(u, p, n \div N, n % N)
<1> DEFINE G == GlobalBatch
           A == active_total_samples
           e == n \div N
           j == n % N
           r == MegatronRange(p, e, j * G)
<1>1. /\ args \in Args /\ G \in Nat \ {0} /\ b \in Nat \ {0}
  BY ArgsFacts DEF Orders
<1>2. N \in Nat \ {0} /\ A = N * G /\ N * G \in Nat BY <1>1, ActiveSamples
<1>3. e \in Nat /\ j \in Nat /\ j < N /\ n = e * N + j BY <1>2, DivMod
<1>4. e \in Seeds OBVIOUS
<1> HIDE DEF e, j, G, A
<1>5. A \in Nat \ {0}
  <2>1. \A x, y \in Nat \ {0} : x * y \in Nat \ {0} OBVIOUS
  <2> QED BY <1>1, <1>2, <2>1
<1>6. n * G = e * A + j * G /\ j * G \in Nat BY <1>1, <1>2, <1>3
<1>7. j * G < A
  <2>1. j + 1 \in Nat /\ j + 1 <= N /\ N \in Nat /\ G \in Nat BY <1>1, <1>2, <1>3
  <2>2. (j + 1) * G <= N * G BY <2>1, TimesMonotone
  <2>3. (j + 1) * G = j * G + G BY <1>1, <1>3
  <2> DEFINE x == j * G
             y == N * G
  <2>4. x + G <= y /\ x \in Nat /\ y \in Nat BY <1>2, <1>6, <2>2, <2>3
  <2> HIDE DEF x, y
  <2>5. x < y BY <1>1, <2>4
  <2> QED BY <1>2, <2>5 DEF x, y
<1>8. (n * G) \div A = e /\ (n * G) % A = j * G
  <2> DEFINE x == j * G
  <2>1. x \in Nat /\ x < A BY <1>6, <1>7
  <2> HIDE DEF x
  <2>2. (e * A + x) \div A = e /\ (e * A + x) % A = x BY <1>3, <1>5, <2>1, DivUnique
  <2> QED BY <1>6, <2>2 DEF x
<1>9. n * G \in Nat BY <1>1
<1>10. u = Batched(r, b, TRUE) /\ u \in Seq(Seq(Rows)) /\ r \in Seq(Rows)
  <2>1. /\ megatron_batches(p, n * G) \in Seq(Seq(Rows))
        /\ megatron_batches(p, n * G) =
             Batched(MegatronRange(p, (n * G) \div A, (n * G) % A), args.batch_size, TRUE)
    BY <1>4, <1>5, <1>8, <1>9, MegatronBatches DEF A
  <2>2. r \in Seq(Rows) BY <1>4, <1>6, <1>7, MegatronRangeType DEF A
  <2>3. u = megatron_batches(p, n * G) BY DEF G
  <2> HIDE DEF r
  <2>4. MegatronRange(p, (n * G) \div A, (n * G) % A) = r BY <1>8 DEF r
  <2> QED BY <2>1, <2>2, <2>3, <2>4
<1> DEFINE d == N - j
<1>11. /\ Len(r) \in Nat /\ d * b <= Len(r) /\ Len(r) < d * b + b
       /\ \A q \in 1 .. Len(r) : r[q] = MegatronRow(p, e, j * b + q)
  BY <1>3, <1>4, MegatronRangeEven DEF G
<1>12. d \in Nat /\ d * b \in Nat BY <1>1, <1>2, <1>3
<1> HIDE DEF r, d
<1>13. /\ Len(u) = d
       /\ \A k \in 1 .. d :
            /\ Len(u[k]) = b
            /\ \A t \in 1 .. b : (k - 1) * b + t \in 1 .. Len(r) /\ u[k][t] = r[(k - 1) * b + t]
  <2>1. WholeParts(u, r, b, d) BY <1>1, <1>10, <1>11, <1>12, FullBatches
  <2> QED BY <2>1 DEF WholeParts
<1>16. ASSUME NEW k \in 1 .. Len(u), NEW t \in 1 .. b
       PROVE  u[k][t] = MegatronRow(p, e, j * b + ((k - 1) * b + t))
  <2> DEFINE q == (k - 1) * b + t
  <2>1. q \in 1 .. Len(r) /\ u[k][t] = r[q] BY <1>13
  <2> HIDE DEF q
  <2>2. r[q] = MegatronRow(p, e, j * b + q) BY <1>11, <2>1
  <2> QED BY <2>1, <2>2 DEF q
<1>17. StepsFrom(u, p, e, j) BY <1>13, <1>16 DEF StepsFrom, d
<1> QED BY <1>10, <1>17 DEF e, j

(* r is what follows the first k elements of w.                            *)
Follows(r, w, k) ==
    /\ k <= Len(w) => Len(r) = Len(w) - k
    /\ \A i \in 1 .. Len(r) : r[i] = w[k + i]
    /\ k < Len(w) => /\ r # <<>> /\ Head(r) = w[k + 1]
                     /\ Tail(r) = SubSeq(w, (k + 1) + 1, Len(w))
    /\ k >= Len(w) => r = <<>>

(* What is left of a pass after k batches.                                 *)
LEMMA RestFacts ==
    ASSUME NEW S, NEW w \in Seq(S), NEW k \in Nat, NEW r, r = SubSeq(w, k + 1, Len(w))
    PROVE  r \in Seq(S) /\ Len(w) \in Nat /\ Follows(r, w, k)
<1> DEFINE l == Len(w)
<1>1. l \in Nat /\ \A i \in 1 .. l : w[i] \in S BY LenFacts
<1> HIDE DEF l
<1>2. \A i \in k + 1 .. l : w[i] \in S BY <1>1
<1>3. k + 1 \in Int /\ l \in Int /\ r = SubSeq(w, k + 1, l) BY <1>1 DEF l
<1>4. /\ r \in Seq(S)
      /\ Len(r) = IF k + 1 <= l THEN l - (k + 1) + 1 ELSE 0
      /\ \A i \in 1 .. l - (k + 1) + 1 : r[i] = w[(k + 1) + i - 1]
  <2> DEFINE m == k + 1
             x == SubSeq(w, m, l)
  <2>1. m \in Int /\ l \in Int /\ \A i \in m .. l : w[i] \in S BY <1>2, <1>3
  <2> HIDE DEF m
  <2>2. /\ x \in Seq(S)
        /\ Len(x) = IF m <= l THEN l - m + 1 ELSE 0
        /\ \A i \in 1 .. l - m + 1 : x[i] = w[m + i - 1]
    BY <2>1, SubSeqProperties
  <2> QED BY <1>3, <2>2 DEF m
<1>5. k <= l => Len(r) = l - k BY <1>1, <1>4
<1>6. ASSUME NEW i \in 1 .. Len(r) PROVE r[i] = w[k + i]
  <2>1. i \in 1 .. l - (k + 1) + 1 /\ (k + 1) + i - 1 = k + i BY <1>1, <1>4
  <2> QED BY <1>4, <2>1
<1>7. ASSUME k < l
      PROVE  r # <<>> /\ Head(r) = w[k + 1] /\ Tail(r) = SubSeq(w, (k + 1) + 1, l)
  <2>1. Len(r) # 0 BY <1>1, <1>5, <1>7
  <2>2. r # <<>> BY <1>4, <2>1, LenFacts
  <2>3. k + 1 \in 1 .. Len(w) /\ l \in (k + 1) .. Len(w) BY <1>1, <1>7 DEF l
  <2>4. Head(r) = w[k + 1] /\ Tail(r) = SubSeq(w, (k + 1) + 1, l)
    BY <1>3, <2>3, HeadTailOfSubSeq
  <2> QED BY <2>2, <2>4
<1>8. ASSUME k >= l PROVE r = <<>>
  <2>1. Len(r) = 0 BY <1>1, <1>4, <1>8
  <2> QED BY <1>4, <2>1, LenFacts
<1> QED BY <1>1, <1>4, <1>5, <1>6, <1>7, <1>8 DEF l, Follows

(* The megatron sampler goes on where its pass stopped, whenever it is     *)
(* made: from the samples consumed it finds the epoch and the place in it. *)
LEMMA MegatronSuffix ==
    ASSUME Orders, args.loader = "MegatronPretrainingRandomSampler", ~UnevenPass,
           NEW p \in Procs, NEW N, N = args.samples \div GlobalBatch, N # 0,
           NEW n \in Nat, n \div N \in Seeds, NEW w, w = WholePass(p, n \div N)
    PROVE  /\ w \in Seq(Seq(Rows)) /\ Len(w) = N
           /\ megatron_batches(p, n * GlobalBatch) = SubSeq(w, (n % N) + 1, Len(w))
<1> DEFINE b == args.batch_size
           e == n \div N
           j == n % N
           o == e * N
           u == megatron_batches(p, n * GlobalBatch)
           r == SubSeq(w, j + 1, Len(w))
<1>1. args \in Args /\ GlobalBatch \in Nat \ {0} /\ b \in Nat \ {0} BY ArgsFacts DEF Orders
<1>2. N \in Nat \ {0} /\ active_total_samples = N * GlobalBatch BY <1>1, ActiveSamples
<1>3. e \in Nat /\ j \in Nat /\ j < N /\ e \in Seeds BY <1>2, DivMod
<1>4. /\ u \in Seq(Seq(Rows)) /\ Len(u) = N - j
      /\ \A k \in 1 .. Len(u) :
           /\ Len(u[k]) = b
           /\ \A t \in 1 .. b : u[k][t] = MegatronRow(p, e, j * b + ((k - 1) * b + t))
  <2>1. u \in Seq(Seq(Rows)) /\ StepsFrom(u, p, e, j) BY MegatronFrom
  <2> QED BY <2>1 DEF StepsFrom
<1> HIDE DEF e, j, b, u
<1>5. o \in Nat /\ o \div N = e /\ o % N = 0
  <2>0. 0 \in Nat /\ 0 < N BY <1>2
  <2>1. (e * N + 0) \div N = e /\ (e * N + 0) % N = 0 BY <1>2, <1>3, <2>0, DivUnique
  <2>2. e * N + 0 = o /\ o \in Nat BY <1>2, <1>3
  <2> QED BY <2>1, <2>2
<1>6. w = megatron_batches(p, o * GlobalBatch)
  <2>1. w = megatron_batches(p, e * active_total_samples) BY DEF WholePass, e
  <2>2. e * (N * GlobalBatch) = (e * N) * GlobalBatch BY <1>1, <1>2, <1>3
  <2> QED BY <1>2, <2>1, <2>2
<1> HIDE DEF o
<1>7. /\ w \in Seq(Seq(Rows)) /\ Len(w) = N - 0
      /\ \A k \in 1 .. Len(w) :
           /\ Len(w[k]) = b
           /\ \A t \in 1 .. b : w[k][t] = MegatronRow(p, e, 0 * b + ((k - 1) * b + t))
  <2>1. o \div N \in Seeds BY <1>3, <1>5
  <2>2. w \in Seq(Seq(Rows)) /\ StepsFrom(w, p, o \div N, o % N) BY <1>5, <1>6, <2>1, MegatronFrom
  <2>3. StepsFrom(w, p, e, 0) BY <1>5, <2>2
  <2> QED BY <2>2, <2>3 DEF StepsFrom, b
<1>8. Len(w) = N BY <1>2, <1>5, <1>7
<1>9. r \in Seq(Seq(Rows)) /\ Len(r) = N - j /\ \A i \in 1 .. Len(r) : r[i] = w[j + i]
  <2>1. j <= Len(w) /\ w \in Seq(Seq(Rows)) BY <1>2, <1>3, <1>7, <1>8
  <2>2. r = SubSeq(w, j + 1, Len(w)) OBVIOUS
  <2> HIDE DEF r
  <2>3. r \in Seq(Seq(Rows)) /\ Follows(r, w, j) BY <1>3, <2>1, <2>2, RestFacts
  <2> QED BY <1>8, <2>1, <2>3 DEF Follows
<1> HIDE DEF r
<1>10. ASSUME NEW k \in 1 .. Len(u) PROVE u[k] = r[k]
  <2>1. k \in Nat /\ j + k \in 1 .. Len(w) /\ k \in 1 .. Len(r)
    BY <1>2, <1>3, <1>4, <1>8, <1>9
  <2>2. r[k] = w[j + k] BY <1>9, <2>1
  <2>3. u[k] \in Seq(Rows) /\ Len(u[k]) = b BY <1>4, LenFacts
  <2>4. w[j + k] \in Seq(Rows) /\ Len(w[j + k]) = b BY <1>7, <2>1, LenFacts
  <2>5. ASSUME NEW t \in 1 .. b PROVE u[k][t] = w[j + k][t]
    <3>1. u[k][t] = MegatronRow(p, e, j * b + ((k - 1) * b + t)) BY <1>4
    <3>2. w[j + k][t] = MegatronRow(p, e, 0 * b + (((j + k) - 1) * b + t)) BY <1>7, <2>1
    <3>3. j * b + ((k - 1) * b + t) = 0 * b + (((j + k) - 1) * b + t)
      <4>1. ((j + k) - 1) * b = j * b + (k - 1) * b /\ j * b \in Int /\ (k - 1) * b \in Int
            /\ 0 * b = 0
        BY <1>1, <1>3, <2>1
      <4> DEFINE x == j * b
                 y == (k - 1) * b
      <4>2. ((j + k) - 1) * b = x + y /\ x \in Int /\ y \in Int /\ 0 * b = 0 BY <4>1
      <4>3. t \in Int BY <1>1
      <4> HIDE DEF x, y
      <4>4. x + (y + t) = 0 * b + (((j + k) - 1) * b + t) BY <4>2, <4>3
      <4> QED BY <4>4 DEF x, y
    <3> QED BY <3>1, <3>2, <3>3
  <2>6. u[k] = w[j + k]
    <3> DEFINE x == u[k]
               y == w[j + k]
    <3>1. x \in Seq(Rows) /\ y \in Seq(Rows) /\ Len(x) = Len(y) BY <2>3, <2>4
    <3>2. \A t \in 1 .. Len(x) : x[t] = y[t] BY <2>3, <2>5
    <3> HIDE DEF x, y
    <3>3. x = y BY <3>1, <3>2, SeqEqual
    <3> QED BY <3>3 DEF x, y
  <2> QED BY <2>2, <2>6
<1>11. u = r BY <1>4, <1>9, <1>10, SeqEqual
<1> QED BY <1>7, <1>8, <1>11 DEF u, r, j

(* A whole pass is made of rows of the dataset; on every process it has    *)
(* the batches the loop counts on.                                         *)
LEMMA PassFacts ==
    ASSUME Orders, NEW p \in Procs, NEW e \in Seeds,
           Transformers \/ Streaming \/ (PassLength # 0 /\ ~UnevenPass)
    PROVE  /\ WholePass(p, e) \in Seq(Seq(Rows)) /\ PassLength \in Nat
           /\ Len(WholePass(p, e)) \in Nat /\ PassLength <= Len(WholePass(p, e))
           /\ (Transformers /\ ~Streaming) \/ Len(WholePass(p, e)) = PassLength
<1>1. args \in Args /\ args.loader \in Loaders /\ 0 \in Procs BY ArgsFacts DEF Orders
<1>2. CASE args.loader = "BatchSamplerShard"
  <2>1. WholePass(p, e) = shard_batches(p, e) /\ PassLength = len_dataloader
    BY <1>2 DEF WholePass, PassLength, Streaming, Transformers
  <2>2. Transformers /\ ~Streaming BY <1>2 DEF Streaming, Transformers
  <2>3. /\ WholePass(p, e) \in Seq(Seq(Rows)) /\ PassLength \in Nat
        /\ PassLength <= Len(WholePass(p, e))
    BY <1>2, <2>1, ShardPass
  <2> QED BY <2>2, <2>3, LenFacts
<1>3. CASE args.loader = "SequenceParallelSampler"
  <2>1. WholePass(p, e) = sp_batches(p, e) /\ PassLength = len_dataloader
    BY <1>3 DEF WholePass, PassLength, Streaming, Transformers
  <2>2. Transformers /\ ~Streaming BY <1>3 DEF Streaming, Transformers
  <2>3. /\ WholePass(p, e) \in Seq(Seq(Rows)) /\ PassLength \in Nat
        /\ PassLength <= Len(WholePass(p, e))
    BY <1>3, <2>1, SequenceParallelPass
  <2> QED BY <2>2, <2>3, LenFacts
<1>4. CASE Streaming
  <2>1. WholePass(p, e) = dispatched_batches(p) /\ PassLength = Len(dispatched_batches(0))
    BY <1>4 DEF WholePass, PassLength, Streaming
  <2>2. /\ dispatched_batches(p) \in Seq(Seq(Rows)) /\ Len(dispatched_batches(p)) \in Nat
        /\ Len(dispatched_batches(p)) = Len(dispatched_batches(0))
    BY <1>4, DispatchedPass
  <2> QED BY <2>1, <2>2
<1>5. CASE args.loader = "MegatronPretrainingRandomSampler"
  <2> DEFINE N == args.samples \div GlobalBatch
             o == e * N
             w == WholePass(p, o \div N)
  <2>1. ~Transformers /\ ~Streaming BY <1>5 DEF Streaming, Transformers
  <2>2. PassLength = N BY <1>1, <2>1, ActiveSamples DEF PassLength
  <2>3. N \in Nat \ {0} /\ ~UnevenPass BY <1>1, <2>1, <2>2, ActiveSamples
  <2>4. e \in Nat BY DEF Seeds
  <2> HIDE DEF N
  <2>5. o \in Nat /\ o \div N = e
    <3>1. (e * N + 0) \div N = e BY <2>3, <2>4, DivUnique
    <3>2. e * N + 0 = o /\ o \in Nat BY <2>3, <2>4
    <3> QED BY <3>1, <3>2
  <2> HIDE DEF o
  <2>6. w \in Seq(Seq(Rows)) /\ Len(w) = N BY <1>5, <2>3, <2>5, MegatronSuffix DEF N
  <2> QED BY <2>2, <2>3, <2>5, <2>6
<1> QED BY <1>1, <1>2, <1>3, <1>4, <1>5 DEF Loaders, Streaming

-----------------------------------------------------------------------------
(* The invariant.                                                          *)

(* The number of steps is that of so many passes.                          *)
LEMMA TotalFacts ==
    ASSUME args \in Args
    PROVE  /\ TotalSteps(args) \in Nat
           /\ Streaming => TotalSteps(args) = args.max_steps
           /\ ~Streaming => /\ PassLength \in Nat
                            /\ TotalSteps(args) = args.epochs * PassLength
           /\ Transformers /\ ~Streaming => PassLength = len_dataloader
<1> DEFINE S == args.samples
           W == args.procs
           b == args.batch_size
           E == args.epochs
<1>1. /\ S \in Nat /\ W \in Nat \ {0} /\ b \in Nat \ {0} /\ E \in Nat /\ args.max_steps \in Nat
      /\ args.loader \in Loaders /\ args.drop_last \in BOOLEAN
  BY ArgsFacts
<1>2. CASE Streaming
  BY <1>1, <1>2 DEF TotalSteps, Streaming, Transformers
<1>3. CASE args.loader = "BatchSamplerShard"
  <2> DEFINE n == S \div W
             l == IF args.drop_last THEN n \div b ELSE CeilDiv(n, b)
  <2>1. n \in Nat BY <1>1, DivFacts
  <2> HIDE DEF n
  <2>2. l \in Nat BY <1>1, <2>1, DivFacts, CeilDivFacts
  <2>3. TotalSteps(args) = E * l BY <1>3 DEF TotalSteps, n
  <2>4. ~Streaming /\ Transformers BY <1>3 DEF Streaming, Transformers
  <2>5. len_dataloader = l BY <1>3 DEF len_dataloader, n
  <2>6. PassLength = len_dataloader BY <2>4 DEF PassLength
  <2> HIDE DEF l
  <2>7. E * l \in Nat BY <1>1, <2>2
  <2> QED BY <2>2, <2>3, <2>4, <2>5, <2>6, <2>7
<1>4. CASE args.loader = "SequenceParallelSampler"
  <2> DEFINE n == CeilDiv(S, W)
             l == IF args.drop_last THEN n \div b ELSE CeilDiv(n, b)
  <2>1. n \in Nat BY <1>1, CeilDivFacts
  <2> HIDE DEF n
  <2>2. l \in Nat BY <1>1, <2>1, DivFacts, CeilDivFacts
  <2>3. TotalSteps(args) = E * l BY <1>4 DEF TotalSteps, n
  <2>4. ~Streaming /\ Transformers BY <1>4 DEF Streaming, Transformers
  <2>5. len_dataloader = l BY <1>4 DEF len_dataloader, n
  <2>6. PassLength = len_dataloader BY <2>4 DEF PassLength
  <2> HIDE DEF l
  <2>7. E * l \in Nat BY <1>1, <2>2
  <2> QED BY <2>2, <2>3, <2>4, <2>5, <2>6, <2>7
<1>5. CASE args.loader = "MegatronPretrainingRandomSampler"
  <2> DEFINE N == S \div GlobalBatch
  <2>1. N \in Nat /\ active_total_samples \div GlobalBatch = N BY ActiveSamples
  <2>2. ~Streaming /\ ~Transformers BY <1>5 DEF Streaming, Transformers
  <2>3. PassLength = N BY <2>1, <2>2 DEF PassLength
  <2>4. TotalSteps(args) = (S \div (b * W)) * E BY <1>5 DEF TotalSteps
  <2>5. b * W = GlobalBatch BY <1>1 DEF GlobalBatch
  <2>6. TotalSteps(args) = N * E BY <2>4, <2>5
  <2> HIDE DEF N
  <2>7. N * E = E * N /\ E * N \in Nat BY <1>1, <2>1
  <2> QED BY <2>1, <2>2, <2>3, <2>6, <2>7
<1> QED BY <1>1, <1>2, <1>3, <1>4, <1>5 DEF Loaders, Streaming

(* A step to come is in a pass that an order was chosen for.               *)
LEMMA StepInSeeds ==
    ASSUME args \in Args, NEW n \in Nat, n < TotalSteps(args), ~Streaming
    PROVE  PassLength \in Nat \ {0} /\ n \div PassLength \in Seeds
<1> DEFINE L == PassLength
           E == args.epochs
           q == n \div L
<1>1. E \in Nat /\ E <= MaxEpochs /\ MaxEpochs \in Nat BY ArgsFacts
<1>2. L \in Nat /\ n < E * L BY TotalFacts
<1> HIDE DEF L, E
<1>3. L # 0
  <2> SUFFICES ASSUME L = 0 PROVE FALSE OBVIOUS
  <2>1. E * L = 0 BY <1>1
  <2> QED BY <1>2, <2>1
<1>4. q \in Nat /\ q * L <= n /\ q * L \in Nat BY <1>2, <1>3, DivFacts
<1> HIDE DEF q
<1>5. q < E
  <2> DEFINE x == q * L
             y == E * L
  <2>1. x \in Nat /\ y \in Nat BY <1>1, <1>2, <1>4
  <2>2. x < y
    <3>1. x <= n /\ n < y BY <1>2, <1>4
    <3> HIDE DEF x, y
    <3> QED BY <2>1, <3>1
  <2> QED BY <1>1, <1>2, <1>4, <2>2, TimesLess
<1>6. q \in Seeds BY <1>1, <1>4, <1>5 DEF Seeds
<1> QED BY <1>2, <1>3, <1>6 DEF L, q

(* In order every pass is the same, and so it is in a stream.              *)
LEMMA SamePass ==
    ASSUME Orders, NEW p \in Procs, NEW e \in Seeds, NEW f \in Seeds,
           Streaming \/ (Transformers /\ ~args.shuffle)
    PROVE  WholePass(p, e) = WholePass(p, f)
<1>1. CASE Streaming BY <1>1 DEF WholePass, Streaming
<1>2. CASE Transformers /\ ~Streaming /\ ~args.shuffle
  <2>1. order[e] = order[f] BY <1>2 DEF Orders, OrderInv
  <2>2. shard_batches(p, e) = shard_batches(p, f) BY <2>1 DEF shard_batches
  <2>3. sp_batches(p, e) = sp_batches(p, f) BY <2>1 DEF sp_batches
  <2> QED BY <1>2, <2>2, <2>3 DEF WholePass, Transformers, Streaming
<1> QED BY <1>1, <1>2

(* What depends on the command line and the orders only does not change.   *)
LEMMA Frame ==
    ASSUME args' = args, order' = order
    PROVE  /\ Procs' = Procs /\ (Transformers' <=> Transformers) /\ (Streaming' <=> Streaming)
           /\ GlobalBatch' = GlobalBatch /\ PassLength' = PassLength
           /\ len_dataloader' = len_dataloader /\ Rows' = Rows
           /\ (UnevenPass' <=> UnevenPass)
           /\ TotalSteps(args)' = TotalSteps(args)
           /\ PermutedRows(args)' = PermutedRows(args)
           /\ \A p, e : WholePass(p, e)' = WholePass(p, e)
           /\ \A at : KnownGap(at)' <=> KnownGap(at)
<1>1. Procs' = Procs BY DEF Procs
<1>2. Transformers' <=> Transformers BY DEF Transformers
<1>3. Streaming' <=> Streaming BY DEF Streaming
<1>4. GlobalBatch' = GlobalBatch BY DEF GlobalBatch
<1>5. active_total_samples' = active_total_samples BY <1>4 DEF active_total_samples
<1>6. \A p : dispatched_batches(p)' = dispatched_batches(p) BY DEF dispatched_batches
<1>7. len_dataloader' = len_dataloader BY DEF len_dataloader
<1>8. PassLength' = PassLength BY <1>2, <1>3, <1>4, <1>5, <1>6, <1>7 DEF PassLength
<1>9. Rows' = Rows BY DEF Rows
<1>10. UnevenPass' <=> UnevenPass BY <1>4 DEF UnevenPass, Sharding
<1>11. TotalSteps(args)' = TotalSteps(args) BY DEF TotalSteps
<1>12. PermutedRows(args)' = PermutedRows(args) BY DEF PermutedRows, ShardRows, BucketRows, Sharding
<1>13. \A p, e : shard_batches(p, e)' = shard_batches(p, e) BY DEF shard_batches
<1>14. \A p, e : sp_batches(p, e)' = sp_batches(p, e) BY DEF sp_batches
<1>15. \A p, n : megatron_batches(p, n)' = megatron_batches(p, n)
  BY <1>5 DEF megatron_batches, BucketRows, Sharding
<1>16. \A p, e : WholePass(p, e)' = WholePass(p, e)
  BY <1>5, <1>6, <1>13, <1>14, <1>15 DEF WholePass
<1>17. \A at : KnownGap(at)' <=> KnownGap(at) BY <1>7, <1>8 DEF KnownGap
<1> QED BY <1>1, <1>2, <1>3, <1>4, <1>7, <1>8, <1>9, <1>10, <1>11, <1>12, <1>16, <1>17

(* What every state of the invariant knows.                                *)
LEMMA Known ==
    ASSUME IInv
    PROVE  /\ Orders /\ args \in Args /\ args.loader \in Loaders
           /\ GlobalBatch \in Nat \ {0} /\ PassLength \in Nat
           /\ TotalSteps(args) \in Nat /\ max_steps \in Nat /\ max_steps <= TotalSteps(args)
           /\ step \in Nat /\ step <= max_steps /\ saved \in Nat /\ saved <= step
           /\ 0 \in Procs /\ 0 \in Seeds
<1>1. Types /\ OrderInv BY DEF IInv
<1>2. args \in Args /\ Orders BY <1>1 DEF Types, Orders
<1>3. args.loader \in Loaders /\ GlobalBatch \in Nat \ {0} /\ 0 \in Procs /\ 0 \in Seeds
  BY <1>2, ArgsFacts
<1>4. TotalSteps(args) \in Nat BY <1>2, TotalFacts
<1>5. PassLength \in Nat
  <2>1. CASE Streaming
    <3>1. PassLength = Len(dispatched_batches(0)) BY <2>1 DEF PassLength
    <3> QED BY <1>2, <1>3, <2>1, <3>1, DispatchedPass
  <2>2. CASE ~Streaming BY <1>2, <2>2, TotalFacts
  <2> QED BY <2>1, <2>2
<1>6. /\ max_steps \in Nat /\ max_steps <= TotalSteps(args)
      /\ step \in Nat /\ step <= max_steps /\ saved \in Nat /\ saved <= step
  <2>1. max_steps \in 0 .. TotalSteps(args) /\ step \in 0 .. max_steps /\ saved \in 0 .. step
    BY <1>1 DEF Types
  <2>2. max_steps \in Nat /\ max_steps <= TotalSteps(args) BY <1>4, <2>1
  <2>3. step \in Nat /\ step <= max_steps BY <2>1, <2>2
  <2> QED BY <2>1, <2>2, <2>3
<1> QED BY <1>2, <1>3, <1>4, <1>5, <1>6

(* What stays true of what a step leaves alone.                            *)
LEMMA Kept ==
    ASSUME IInv, args' = args, order' = order
    PROVE  /\ OrderInv'
           /\ (consumed' = consumed /\ step' = step) => ConsumedInv'
           /\ (resumed' = resumed /\ seen' = seen) => ResumeGoesOn'
           /\ (/\ left' = left /\ pc' = pc /\ step' = step /\ max_steps' = max_steps
               /\ resumed' = resumed) => LeftInv'
           /\ (/\ pc' = pc /\ step' = step /\ max_steps' = max_steps
               /\ resumed' = resumed /\ epoch' = epoch) => EpochInv'
           /\ (pc' = pc /\ step' = step /\ max_steps' = max_steps /\ epoch' = epoch) => PassInv'
           /\ (pc' = pc /\ resumed' = resumed) => HungInv'
           /\ resumed' = resumed => (Uninterrupted' <=> Uninterrupted) /\ (GoesOn' <=> GoesOn)
<1>1. /\ Procs' = Procs /\ (Transformers' <=> Transformers) /\ (Streaming' <=> Streaming)
      /\ GlobalBatch' = GlobalBatch /\ PassLength' = PassLength
      /\ len_dataloader' = len_dataloader /\ (UnevenPass' <=> UnevenPass)
      /\ PermutedRows(args)' = PermutedRows(args)
      /\ \A p, e : WholePass(p, e)' = WholePass(p, e)
      /\ \A at : KnownGap(at)' <=> KnownGap(at)
  BY Frame
<1>2. OrderInv' BY <1>1 DEF IInv, OrderInv
<1>3. ASSUME consumed' = consumed, step' = step PROVE ConsumedInv'
  BY <1>1, <1>3 DEF IInv, ConsumedInv
<1>4. ASSUME resumed' = resumed, seen' = seen PROVE ResumeGoesOn'
  <2>1. AsUninterrupted => AsUninterrupted' BY <1>1, <1>4 DEF AsUninterrupted
  <2> QED BY <1>1, <1>4, <2>1 DEF IInv, ResumeGoesOn
<1>5. ASSUME resumed' = resumed
      PROVE  (Uninterrupted' <=> Uninterrupted) /\ (GoesOn' <=> GoesOn)
  BY <1>1, <1>5 DEF Uninterrupted, GoesOn
<1>6. ASSUME left' = left, pc' = pc, step' = step, max_steps' = max_steps, resumed' = resumed
      PROVE  LeftInv'
  <2>1. \A s, k : LeftOf(s, k)' <=> LeftOf(s, k) BY <1>1, <1>6 DEF LeftOf
  <2>2. \A s, k : InPlace(s, k)' <=> InPlace(s, k) BY <1>1, <1>6 DEF InPlace
  <2>3. LeftInv BY DEF IInv
  <2> QED BY <1>1, <1>5, <1>6, <2>1, <2>2, <2>3 DEF LeftInv
<1>7. ASSUME pc' = pc, step' = step, max_steps' = max_steps, resumed' = resumed,
             epoch' = epoch
      PROVE  EpochInv'
  BY <1>1, <1>7 DEF IInv, EpochInv
<1>8. ASSUME pc' = pc, step' = step, max_steps' = max_steps, epoch' = epoch PROVE PassInv'
  BY <1>1, <1>8 DEF IInv, PassInv
<1>9. ASSUME pc' = pc, resumed' = resumed PROVE HungInv'
  BY <1>1, <1>9 DEF IInv, HungInv
<1> QED BY <1>2, <1>3, <1>4, <1>5, <1>6, <1>7, <1>8, <1>9

(* A checkpoint of the step made last.                                     *)
LEMMA SaveCheckpointStep ==
    ASSUME IInv, SaveCheckpoint
    PROVE  IInv'
<1>1. /\ args' = args /\ order' = order /\ pc' = pc /\ step' = step /\ epoch' = epoch
      /\ left' = left /\ consumed' = consumed /\ max_steps' = max_steps /\ passes' = passes
      /\ resumed' = resumed /\ seen' = seen
      /\ saved' = step /\ pc \in {"train", "epoch"}
  BY DEF SaveCheckpoint
<1>2. Types'
  <2>1. /\ Procs' = Procs /\ (Transformers' <=> Transformers) /\ Rows' = Rows
        /\ PermutedRows(args)' = PermutedRows(args) /\ TotalSteps(args)' = TotalSteps(args)
    BY <1>1, Frame
  <2>2. step \in Nat BY Known
  <2>3. saved' \in 0 .. step' BY <1>1, <2>2
  <2> QED BY <1>1, <2>1, <2>3 DEF IInv, Types
<1>3. OrderInv' /\ ConsumedInv' /\ ResumeGoesOn' /\ LeftInv' BY <1>1, Kept
<1>4. EpochInv' /\ PassInv' /\ HungInv' BY <1>1, Kept
<1>5. CrashInv' BY <1>1 DEF CrashInv
<1> QED BY <1>2, <1>3, <1>4, <1>5 DEF IInv

(* The program crashes.                                                    *)
LEMMA CrashStep ==
    ASSUME IInv, Crash
    PROVE  IInv'
<1>1. /\ args' = args /\ order' = order /\ step' = step /\ epoch' = epoch
      /\ left' = left /\ consumed' = consumed /\ max_steps' = max_steps /\ passes' = passes
      /\ saved' = saved /\ resumed' = resumed /\ seen' = seen
      /\ pc' = "crashed" /\ saved > 0
  BY DEF Crash
<1>2. Types'
  <2>1. /\ Procs' = Procs /\ (Transformers' <=> Transformers) /\ Rows' = Rows
        /\ PermutedRows(args)' = PermutedRows(args) /\ TotalSteps(args)' = TotalSteps(args)
    BY <1>1, Frame
  <2> QED BY <1>1, <2>1 DEF IInv, Types
<1>3. OrderInv' /\ ConsumedInv' /\ ResumeGoesOn' BY <1>1, Kept
<1>4. EpochInv' /\ PassInv' /\ HungInv' /\ LeftInv'
  BY <1>1 DEF EpochInv, PassInv, HungInv, LeftInv
<1>5. CrashInv' BY <1>1 DEF CrashInv
<1> QED BY <1>2, <1>3, <1>4, <1>5 DEF IInv

(* Training has made its last step.                                        *)
LEMMA FinishStep ==
    ASSUME IInv, Finish
    PROVE  IInv'
<1>1. /\ args' = args /\ order' = order /\ step' = step /\ epoch' = epoch
      /\ left' = left /\ consumed' = consumed /\ max_steps' = max_steps /\ passes' = passes
      /\ saved' = saved /\ resumed' = resumed /\ seen' = seen
      /\ pc' = "done"
  BY DEF Finish
<1>2. Types'
  <2>1. /\ Procs' = Procs /\ (Transformers' <=> Transformers) /\ Rows' = Rows
        /\ PermutedRows(args)' = PermutedRows(args) /\ TotalSteps(args)' = TotalSteps(args)
    BY <1>1, Frame
  <2> QED BY <1>1, <2>1 DEF IInv, Types
<1>3. OrderInv' /\ ConsumedInv' /\ ResumeGoesOn' BY <1>1, Kept
<1>4. EpochInv' /\ PassInv' /\ HungInv' /\ LeftInv'
  BY <1>1 DEF EpochInv, PassInv, HungInv, LeftInv
<1>5. CrashInv' BY <1>1 DEF CrashInv
<1> QED BY <1>2, <1>3, <1>4, <1>5 DEF IInv

(* r has x at its end and is q otherwise.                                  *)
Extended(r, q, x) == r # <<>> /\ Last(r) = x /\ ToSet(r) = ToSet(q) \cup {x}

(* The elements of a sequence to which one is appended.                    *)
LEMMA AppendedFacts ==
    ASSUME NEW S, NEW q \in Seq(S), NEW x \in S, NEW r, r = Append(q, x)
    PROVE  r \in Seq(S) /\ Extended(r, q, x)
<1> DEFINE n == Len(q)
<1>1. /\ r \in Seq(S) /\ Len(r) = n + 1 /\ n \in Nat /\ r # <<>>
      /\ \A i \in 1 .. n : r[i] = q[i]
      /\ r[n + 1] = x
  BY AppendFacts
<1>2. DOMAIN q = 1 .. n /\ DOMAIN r = 1 .. n + 1 BY <1>1
<1> HIDE DEF n
<1>3. Last(r) = x BY <1>1 DEF Last
<1>4. ASSUME NEW y \in ToSet(r) PROVE y \in ToSet(q) \cup {x}
  <2>1. PICK i \in 1 .. n + 1 : y = r[i] BY <1>2 DEF ToSet
  <2>2. CASE i = n + 1 BY <1>1, <2>1, <2>2
  <2>3. CASE i # n + 1
    <3>1. i \in 1 .. n BY <1>1, <2>3
    <3> QED BY <1>1, <1>2, <2>1, <3>1 DEF ToSet
  <2> QED BY <2>2, <2>3
<1>5. ASSUME NEW y \in ToSet(q) PROVE y \in ToSet(r)
  <2>1. PICK i \in 1 .. n : y = q[i] BY <1>2 DEF ToSet
  <2>2. i \in 1 .. n + 1 /\ y = r[i] BY <1>1, <2>1
  <2> QED BY <1>2, <2>2 DEF ToSet
<1>6. x \in ToSet(r)
  <2>1. n + 1 \in 1 .. n + 1 BY <1>1
  <2> QED BY <1>1, <1>2, <2>1 DEF ToSet
<1>7. ToSet(r) = ToSet(q) \cup {x} BY <1>4, <1>5, <1>6
<1> QED BY <1>1, <1>3, <1>7 DEF Extended

(* The loop of transformers has a length to count epochs with.             *)
LEMMA EpochLength ==
    ASSUME IInv, Transformers, TotalSteps(args) > 0
    PROVE  /\ len_dataloader \in Nat \ {0}
           /\ Streaming => len_dataloader = TotalSteps(args)
           /\ ~Streaming => len_dataloader = PassLength
<1>1. args \in Args /\ PassLength \in Nat /\ TotalSteps(args) \in Nat BY Known
<1>2. CASE Streaming
  <2>1. len_dataloader = args.max_steps BY <1>2 DEF Streaming, len_dataloader
  <2>2. TotalSteps(args) = args.max_steps BY <1>1, <1>2, TotalFacts
  <2> QED BY <1>1, <1>2, <2>1, <2>2
<1>3. CASE ~Streaming
  <2>1. TotalSteps(args) = args.epochs * PassLength /\ PassLength = len_dataloader
    BY <1>1, <1>3, TotalFacts
  <2>2. args.epochs \in Nat BY <1>1, ArgsFacts
  <2>3. args.epochs * 0 = 0 BY <2>2
  <2>4. PassLength # 0 BY <2>1, <2>3
  <2> QED BY <1>1, <1>3, <2>1, <2>4
<1> QED BY <1>2, <1>3

(* A new program resumes from the checkpoint.                              *)
LEMMA ResumeStep ==
    ASSUME IInv, Resume
    PROVE  IInv'
<1>1. /\ args' = args /\ order' = order /\ saved' = saved
      /\ pc = "crashed" /\ pc' = "epoch" /\ step' = saved /\ seen' = SubSeq(seen, 1, saved)
      /\ epoch' = (IF Transformers THEN saved \div len_dataloader ELSE 0)
      /\ consumed' = [p \in Procs |-> saved * GlobalBatch]
      /\ max_steps' = TotalSteps(args) /\ passes' = 0 /\ left' = Empty
      /\ resumed' = Append(resumed, saved)
  BY DEF Resume
<1>2. /\ Procs' = Procs /\ (Transformers' <=> Transformers) /\ (Streaming' <=> Streaming)
      /\ GlobalBatch' = GlobalBatch /\ PassLength' = PassLength
      /\ len_dataloader' = len_dataloader /\ Rows' = Rows /\ (UnevenPass' <=> UnevenPass)
      /\ PermutedRows(args)' = PermutedRows(args) /\ TotalSteps(args)' = TotalSteps(args)
      /\ \A p, e : WholePass(p, e)' = WholePass(p, e)
      /\ \A at : KnownGap(at)' <=> KnownGap(at)
  BY <1>1, Frame
<1>3. /\ GlobalBatch \in Nat /\ TotalSteps(args) \in Nat /\ saved \in Nat
      /\ step \in Nat /\ saved <= step /\ saved <= TotalSteps(args)
  <2>1. /\ GlobalBatch \in Nat \ {0} /\ TotalSteps(args) \in Nat /\ saved \in Nat
        /\ step \in Nat /\ saved <= step /\ step <= max_steps
        /\ max_steps \in Nat /\ max_steps <= TotalSteps(args)
    BY Known
  <2> QED BY <2>1
<1>4. saved > 0 BY <1>1 DEF IInv, CrashInv
<1>5. resumed \in Seq(Nat) /\ seen \in Seq([Procs -> Seq(Rows)]) /\ Len(seen) = step
  BY DEF IInv, Types
<1>6. /\ resumed' \in Seq(Nat) /\ resumed' # <<>> /\ Last(resumed') = saved
      /\ ToSet(resumed') = ToSet(resumed) \cup {saved}
  <2>1. resumed' = Append(resumed, saved) BY <1>1
  <2>2. resumed \in Seq(Nat) /\ saved \in Nat BY <1>3, <1>5
  <2>3. resumed' \in Seq(Nat) /\ Extended(resumed', resumed, saved)
    BY <2>1, <2>2, AppendedFacts
  <2> QED BY <2>3 DEF Extended
<1>7. /\ seen' \in Seq([Procs -> Seq(Rows)]) /\ Len(seen') = saved
      /\ \A i \in 1 .. saved : seen'[i] = seen[i] /\ i \in 1 .. Len(seen)
  <2>1. \A i \in 1 .. saved : seen[i] \in [Procs -> Seq(Rows)] /\ i \in 1 .. Len(seen)
    BY <1>3, <1>5, LenFacts
  <2>2. 1 \in Int /\ saved \in Int BY <1>3
  <2>3. /\ seen' \in Seq([Procs -> Seq(Rows)])
        /\ Len(seen') = IF 1 <= saved THEN saved - 1 + 1 ELSE 0
        /\ \A i \in 1 .. saved - 1 + 1 : seen'[i] = seen[1 + i - 1]
    BY <1>1, <2>1, <2>2, SubSeqProperties
  <2>4. Len(seen') = saved BY <1>3, <1>4, <2>3
  <2>5. ASSUME NEW i \in 1 .. saved PROVE seen'[i] = seen[i]
    <3>1. i \in 1 .. saved - 1 + 1 /\ 1 + i - 1 = i BY <1>3
    <3> QED BY <2>3, <3>1
  <2> QED BY <2>1, <2>3, <2>4, <2>5
<1>8. Transformers => /\ len_dataloader \in Nat \ {0}
                      /\ Streaming => len_dataloader = TotalSteps(args)
                      /\ ~Streaming => len_dataloader = PassLength
  <2>1. TotalSteps(args) > 0 BY <1>3, <1>4
  <2> QED BY <2>1, EpochLength
<1>9. epoch' \in Nat BY <1>1, <1>3, <1>8, DivFacts
<1>10. Types'
  <2>1. left' \in [Procs -> Seq(Seq(Rows))] BY <1>1 DEF Empty
  <2>2. saved * GlobalBatch \in Nat BY <1>3
  <2>3. consumed' \in [Procs -> Nat] BY <1>1, <2>2
  <2>4. /\ args' \in Args /\ order' \in [Seeds -> Seq(0 .. PermutedRows(args) - 1)]
    BY <1>1 DEF IInv, Types
  <2>5. /\ max_steps' \in 0 .. TotalSteps(args) /\ step' \in 0 .. max_steps' /\ saved' \in 0 .. step'
        /\ passes' \in Nat
    BY <1>1, <1>3
  <2> QED BY <1>1, <1>2, <1>6, <1>7, <1>9, <2>1, <2>3, <2>4, <2>5 DEF Types
<1>11. OrderInv' BY <1>1, Kept
<1>12. ConsumedInv'
  <2>1. \A p \in Procs : consumed'[p] = step' * GlobalBatch BY <1>1
  <2> QED BY <1>2, <2>1 DEF ConsumedInv
<1>13. EpochInv'
  <2>1. ASSUME Transformers, Streaming, saved < TotalSteps(args) PROVE epoch' = 0
    <3>1. len_dataloader \in Nat \ {0} /\ saved < len_dataloader /\ 0 \in Nat
      BY <1>8, <2>1
    <3>2. (0 * len_dataloader + saved) \div len_dataloader = 0 BY <1>3, <3>1, DivUnique
    <3>3. 0 * len_dataloader + saved = saved BY <1>3, <3>1
    <3> QED BY <1>1, <2>1, <3>2, <3>3
  <2> QED BY <1>1, <1>2, <1>6, <2>1 DEF EpochInv
<1>14. PassInv' BY <1>1, <1>2 DEF PassInv
<1>15. HungInv' /\ LeftInv' /\ CrashInv' BY <1>1 DEF HungInv, LeftInv, CrashInv
<1>16. ResumeGoesOn'
  <2>1. SUFFICES ASSUME ~UnevenPass, \A at \in ToSet(resumed') : ~KnownGap(at)
                 PROVE  AsUninterrupted'
    BY <1>2 DEF ResumeGoesOn
  <2>2. AsUninterrupted BY <1>6, <2>1 DEF IInv, ResumeGoesOn
  <2>3. ASSUME NEW i \in 1 .. Len(seen'), NEW p \in Procs
        PROVE  seen'[i][p] = WholePass(p, (i - 1) \div PassLength)[((i - 1) % PassLength) + 1]
    <3>1. i \in 1 .. saved BY <1>7
    <3>2. seen'[i] = seen[i] /\ i \in 1 .. Len(seen) BY <1>7, <3>1
    <3> QED BY <2>2, <3>2 DEF AsUninterrupted
  <2> QED BY <1>2, <2>3 DEF AsUninterrupted
<1> QED BY <1>10, <1>11, <1>12, <1>13, <1>14, <1>15, <1>16 DEF IInv

(* Iterators that hold what follows the first k batches of pass s.         *)
RestOf(s, k) == [p \in Procs |-> SubSeq(WholePass(p, s), k + 1, Len(WholePass(p, s)))]

(* All there is follows the first none.                                    *)
LEMMA WholeRest ==
    ASSUME NEW S, NEW w \in Seq(S)
    PROVE  SubSeq(w, 0 + 1, Len(w)) = w
<1> DEFINE r == SubSeq(w, 0 + 1, Len(w))
<1>1. /\ r \in Seq(S) /\ Len(w) \in Nat /\ (0 <= Len(w) => Len(r) = Len(w) - 0)
      /\ \A i \in 1 .. Len(r) : r[i] = w[0 + i]
  <2>1. 0 \in Nat /\ r = SubSeq(w, 0 + 1, Len(w)) OBVIOUS
  <2> HIDE DEF r
  <2>2. r \in Seq(S) /\ Len(w) \in Nat /\ Follows(r, w, 0) BY <2>1, RestFacts
  <2> QED BY <2>2 DEF Follows
<1> HIDE DEF r
<1>2. Len(r) = Len(w) BY <1>1
<1>3. \A i \in 1 .. Len(r) : r[i] = w[i] BY <1>1
<1>4. r = w BY <1>1, <1>2, <1>3, SeqEqual
<1> QED BY <1>4 DEF r

(* Iterators made in the middle of a pass.                                 *)
LEMMA StartedIn ==
    ASSUME IInv, args' = args, order' = order, step' = step, max_steps' = max_steps,
           resumed' = resumed,
           NEW s \in Seeds, NEW k \in 0 .. PassLength,
           Transformers \/ Streaming \/ (PassLength # 0 /\ ~UnevenPass),
           left' = RestOf(s, k),
           (Transformers /\ ~Streaming) => k < PassLength /\ k = step % PassLength,
           GoesOn => InPlace(s, k)
    PROVE  left' \in [Procs -> Seq(Seq(Rows))] /\ LeftInv'
<1>1. /\ Procs' = Procs /\ (Transformers' <=> Transformers) /\ (Streaming' <=> Streaming)
      /\ PassLength' = PassLength /\ \A p, e : WholePass(p, e)' = WholePass(p, e)
  BY Frame
<1>2. Orders /\ PassLength \in Nat BY Known
<1>3. k \in Nat BY <1>2
<1>4. ASSUME NEW p \in Procs
      PROVE  SubSeq(WholePass(p, s), k + 1, Len(WholePass(p, s))) \in Seq(Seq(Rows))
  <2> DEFINE w == WholePass(p, s)
  <2>1. w \in Seq(Seq(Rows)) BY <1>2, PassFacts
  <2> HIDE DEF w
  <2>2. SubSeq(w, k + 1, Len(w)) \in Seq(Seq(Rows)) BY <1>3, <2>1, RestFacts
  <2> QED BY <2>2 DEF w
<1>5. left' \in [Procs -> Seq(Seq(Rows))] BY <1>4 DEF RestOf
<1>6. LeftOf(s, k)' BY <1>1 DEF LeftOf, RestOf
<1>7. GoesOn' <=> GoesOn BY Kept
<1>8. InPlace(s, k) => InPlace(s, k)' BY <1>1 DEF InPlace
<1>9. /\ (Transformers' /\ ~Streaming') => k < PassLength' /\ k = step' % PassLength'
      /\ GoesOn' => InPlace(s, k)'
  BY <1>1, <1>7, <1>8
<1>10. k \in 0 .. PassLength' BY <1>1
<1>11. LeftInv' BY <1>6, <1>9, <1>10 DEF LeftInv
<1> QED BY <1>5, <1>11

(* The last of a sequence is in it.                                        *)
LEMMA LastIn ==
    ASSUME NEW S, NEW q \in Seq(S), q # <<>>
    PROVE  Last(q) \in ToSet(q)
<1>1. Len(q) \in Nat /\ Len(q) # 0 BY LenFacts
<1>2. Len(q) \in DOMAIN q BY <1>1
<1> QED BY <1>2 DEF Last, ToSet

(* The place of a number of steps that is less than a pass.                *)
LEMMA Below ==
    ASSUME NEW n \in Nat, NEW d \in Nat, n < d
    PROVE  n \div d = 0 /\ n % d = n
<1>1. d \in Nat \ {0} /\ 0 \in Nat OBVIOUS
<1>2. (0 * d + n) \div d = 0 /\ (0 * d + n) % d = n BY <1>1, DivUnique
<1>3. 0 * d + n = n OBVIOUS
<1> QED BY <1>2, <1>3

(* An epoch that is entered at the beginning of a pass.                    *)
LEMMA EpochFromStart ==
    ASSUME IInv, pc = "epoch", Transformers, step < max_steps,
           (/\ resumed # <<>> /\ step = Last(resumed) /\ epoch = step \div len_dataloader)
              => step % len_dataloader = 0
    PROVE  \E s \in Seeds :
              /\ \A p \in Procs : WholePass(p, epoch) = WholePass(p, s)
              /\ ~Streaming => 0 < PassLength /\ 0 = step % PassLength
              /\ InPlace(s, 0)
<1> DEFINE L == len_dataloader
<1>1. /\ Orders /\ args \in Args /\ PassLength \in Nat /\ step \in Nat /\ 0 \in Seeds
      /\ step < TotalSteps(args)
  <2>1. /\ Orders /\ args \in Args /\ PassLength \in Nat /\ step \in Nat /\ 0 \in Seeds
        /\ TotalSteps(args) \in Nat /\ max_steps \in Nat /\ max_steps <= TotalSteps(args)
    BY Known
  <2> QED BY <2>1
<1>2. /\ L \in Nat \ {0} /\ (Streaming => L = TotalSteps(args))
      /\ (~Streaming => L = PassLength)
  <2>1. TotalSteps(args) \in Nat BY Known
  <2>2. TotalSteps(args) > 0 BY <1>1, <2>1
  <2> QED BY <2>2, EpochLength
<1>3. (PassLength > 0 /\ step % PassLength # 0) =>
         resumed # <<>> /\ step = Last(resumed) /\ (Streaming => epoch = 0)
  BY DEF IInv, EpochInv
<1>4. CASE Streaming
  <2>1. step \div L = 0 /\ step % L = step BY <1>1, <1>2, <1>4, Below
  <2>2. PassLength > 0 => step % PassLength = 0
    <3> SUFFICES ASSUME PassLength > 0, step % PassLength # 0 PROVE FALSE
      <4>1. step % PassLength \in Int \/ ~(PassLength > 0) BY <1>1
      <4> QED OBVIOUS
    <3>1. resumed # <<>> /\ step = Last(resumed) /\ epoch = 0 BY <1>3, <1>4
    <3>2. step % L = 0 BY <2>1, <3>1
    <3>3. step = 0 BY <2>1, <3>2
    <3>4. step % PassLength = 0 BY <1>1, <3>3, Below
    <3> QED BY <3>4
  <2>3. \A p \in Procs : \A e, f : WholePass(p, e) = WholePass(p, f) BY <1>4 DEF WholePass, Streaming
  <2>4. InPlace(0, 0) BY <1>1, <2>2, <2>3 DEF InPlace
  <2> QED BY <1>1, <1>4, <2>3, <2>4
<1>5. CASE ~Streaming
  <2>1. epoch = step \div L BY <1>5 DEF IInv, PassInv
  <2>2. PassLength \in Nat \ {0} /\ step \div PassLength \in Seeds BY <1>1, <1>5, StepInSeeds
  <2>3. L = PassLength BY <1>2, <1>5
  <2>4. step % PassLength = 0
    <3> SUFFICES ASSUME step % PassLength # 0 PROVE FALSE OBVIOUS
    <3>1. resumed # <<>> /\ step = Last(resumed) BY <1>3, <2>2
    <3> QED BY <2>1, <2>3, <3>1
  <2>5. epoch \in Seeds /\ epoch = step \div PassLength BY <2>1, <2>2, <2>3
  <2>6. InPlace(epoch, 0) BY <2>2, <2>4, <2>5 DEF InPlace
  <2> QED BY <2>2, <2>4, <2>5, <2>6
<1> QED BY <1>4, <1>5

(* An epoch that is entered in the middle of a pass.                       *)
LEMMA EpochFromMiddle ==
    ASSUME IInv, pc = "epoch", Transformers, step < max_steps,
           resumed # <<>>, step = Last(resumed), epoch = step \div len_dataloader,
           NEW k, k = step % len_dataloader, k # 0
    PROVE  /\ k \in Nat
           /\ ~Streaming => k < PassLength /\ k = step % PassLength
           /\ Streaming => k = step
           /\ (k <= PassLength /\ GoesOn) => InPlace(0, k)
<1> DEFINE L == len_dataloader
<1>1. /\ Orders /\ args \in Args /\ PassLength \in Nat /\ step \in Nat /\ 0 \in Seeds
      /\ step < TotalSteps(args)
  <2>1. /\ Orders /\ args \in Args /\ PassLength \in Nat /\ step \in Nat /\ 0 \in Seeds
        /\ TotalSteps(args) \in Nat /\ max_steps \in Nat /\ max_steps <= TotalSteps(args)
    BY Known
  <2> QED BY <2>1
<1>2. /\ L \in Nat \ {0} /\ (Streaming => L = TotalSteps(args))
      /\ (~Streaming => L = PassLength)
  <2>1. TotalSteps(args) \in Nat BY Known
  <2>2. TotalSteps(args) > 0 BY <1>1, <2>1
  <2> QED BY <2>2, EpochLength
<1>3. k \in Nat /\ k < L BY <1>1, <1>2, DivMod
<1>4. CASE Streaming
  <2>1. k = step BY <1>1, <1>2, <1>4, Below
  <2>2. ASSUME k <= PassLength PROVE InPlace(0, k)
    <3>1. CASE k = PassLength
      <4>1. PassLength \in Nat \ {0} /\ 1 \in Nat /\ 0 \in Nat /\ 0 < PassLength
        BY <1>1, <3>1
      <4>2. (1 * PassLength + 0) % PassLength = 0 BY <4>1, DivUnique
      <4>3. 1 * PassLength + 0 = step BY <1>1, <2>1, <3>1
      <4>4. step % PassLength = 0 BY <4>2, <4>3
      <4> QED BY <3>1, <4>4 DEF InPlace
    <3>2. CASE k # PassLength
      <4>1. step < PassLength BY <1>1, <2>1, <2>2, <3>2
      <4>2. step \div PassLength = 0 /\ step % PassLength = step BY <1>1, <4>1, Below
      <4> QED BY <2>1, <3>2, <4>2 DEF InPlace
    <3> QED BY <3>1, <3>2
  <2> QED BY <1>3, <1>4, <2>1, <2>2
<1>5. CASE ~Streaming
  <2>1. PassLength \in Nat \ {0} /\ step \div PassLength \in Seeds BY <1>1, <1>5, StepInSeeds
  <2>2. L = PassLength BY <1>2, <1>5
  <2>3. k < PassLength /\ k = step % PassLength BY <1>3, <2>2
  <2>4. ASSUME GoesOn PROVE InPlace(0, k)
    <3>1. ~KnownGap(step)
      <4>1. step \in ToSet(resumed) BY LastIn DEF IInv, Types
      <4> QED BY <1>5, <2>4, <4>1 DEF Uninterrupted, GoesOn
    <3>2. args.loader \in {"BatchSamplerShard", "SequenceParallelSampler"}
      BY <1>5 DEF Transformers, Streaming
    <3>3. ~args.shuffle \/ ~(step > L) BY <3>1, <3>2 DEF KnownGap
    <3>4. ASSUME NEW p \in Procs
          PROVE  WholePass(p, 0) = WholePass(p, step \div PassLength)
      <4>1. CASE ~args.shuffle BY <1>1, <2>1, <4>1, SamePass
      <4>2. CASE ~(step > L)
        <5>1. step # PassLength
          <6>1. 1 \in Nat /\ 0 \in Nat /\ 0 < PassLength BY <2>1
          <6>2. (1 * PassLength + 0) % PassLength = 0 BY <2>1, <6>1, DivUnique
          <6>3. 1 * PassLength + 0 = PassLength BY <2>1
          <6> QED BY <2>3, <6>2, <6>3
        <5>2. step < PassLength BY <1>1, <2>1, <2>2, <4>2, <5>1
        <5>3. step \div PassLength = 0 BY <1>1, <5>2, Below
        <5> QED BY <5>3
      <4> QED BY <3>3, <4>1, <4>2
    <3>5. k # PassLength BY <1>3, <2>1, <2>3
    <3> QED BY <2>3, <3>4, <3>5 DEF InPlace
  <2> QED BY <1>3, <1>5, <2>3, <2>4
<1> QED BY <1>4, <1>5

(* What a new iterator changes and what it leaves alone.                   *)
LEMMA StartedStep ==
    ASSUME IInv, UNCHANGED <<args, order, step, epoch, consumed, max_steps, passes, saved,
                             resumed, seen>>,
           pc = "epoch", pc' \in {"train", "done"},
           left' \in [Procs -> Seq(Seq(Rows))], LeftInv'
    PROVE  IInv'
<1>1. /\ args' = args /\ order' = order /\ step' = step /\ epoch' = epoch
      /\ consumed' = consumed /\ max_steps' = max_steps /\ passes' = passes
      /\ saved' = saved /\ resumed' = resumed /\ seen' = seen
  OBVIOUS
<1>2. Types'
  <2>1. /\ Procs' = Procs /\ (Transformers' <=> Transformers) /\ Rows' = Rows
        /\ PermutedRows(args)' = PermutedRows(args) /\ TotalSteps(args)' = TotalSteps(args)
    BY <1>1, Frame
  <2> QED BY <1>1, <2>1 DEF IInv, Types
<1>3. OrderInv' /\ ConsumedInv' /\ ResumeGoesOn' BY <1>1, Kept
<1>4. EpochInv' /\ HungInv' /\ CrashInv' BY DEF EpochInv, HungInv, CrashInv
<1>5. PassInv'
  <2>1. (Transformers' <=> Transformers) /\ (Streaming' <=> Streaming)
        /\ len_dataloader' = len_dataloader
    BY <1>1, Frame
  <2> QED BY <1>1, <2>1 DEF IInv, PassInv
<1> QED BY <1>2, <1>3, <1>4, <1>5 DEF IInv

(* The loop of transformers enters an epoch.                               *)
LEMMA StartEpochStep ==
    ASSUME IInv, StartEpoch
    PROVE  IInv'
<1> DEFINE middle == /\ resumed # <<>> /\ step = Last(resumed)
                     /\ epoch = step \div len_dataloader
           skip == IF middle THEN step % len_dataloader ELSE 0
           ends == Streaming /\ skip > Len(WholePass(0, 0))
<1>1. /\ args' = args /\ order' = order /\ step' = step /\ epoch' = epoch
      /\ consumed' = consumed /\ max_steps' = max_steps /\ passes' = passes
      /\ saved' = saved /\ resumed' = resumed /\ seen' = seen
      /\ pc = "epoch" /\ Transformers /\ step < max_steps
  BY DEF StartEpoch
<1>2. IF ends THEN pc' = "hung" /\ left' = left
      ELSE /\ left' = [p \in Procs |-> IF skip = 0 THEN WholePass(p, epoch)
                                       ELSE SkippingLoader(p, skip)]
           /\ pc' \in {"train", "done"}
  BY DEF StartEpoch
<1>3. Orders /\ PassLength \in Nat /\ 0 \in Seeds /\ 0 \in Procs BY Known
<1> HIDE DEF middle, skip, ends
<1>4. CASE skip = 0
  <2>0. ~ends
    <3>1. Streaming => Len(WholePass(0, 0)) = PassLength BY <1>1, <1>3, PassFacts
    <3> QED BY <1>3, <1>4, <3>1 DEF ends
  <2>1. PICK s \in Seeds :
              /\ \A p \in Procs : WholePass(p, epoch) = WholePass(p, s)
              /\ ~Streaming => 0 < PassLength /\ 0 = step % PassLength
              /\ InPlace(s, 0)
    <3>1. middle => step % len_dataloader = 0 BY <1>4 DEF skip
    <3> QED BY <1>1, <3>1, EpochFromStart DEF middle
  <2>2. left' = RestOf(s, 0)
    <3>1. ASSUME NEW p \in Procs
          PROVE  WholePass(p, epoch) = SubSeq(WholePass(p, s), 0 + 1, Len(WholePass(p, s)))
      <4> DEFINE w == WholePass(p, s)
      <4>1. w \in Seq(Seq(Rows)) BY <1>1, <1>3, PassFacts
      <4> HIDE DEF w
      <4>2. SubSeq(w, 0 + 1, Len(w)) = w BY <4>1, WholeRest
      <4> QED BY <2>1, <4>2 DEF w
    <3>2. left' = [p \in Procs |-> WholePass(p, epoch)] BY <1>2, <1>4, <2>0
    <3> QED BY <3>1, <3>2 DEF RestOf
  <2>3. 0 \in 0 .. PassLength BY <1>3
  <2>4. left' \in [Procs -> Seq(Seq(Rows))] /\ LeftInv' BY <1>1, <2>1, <2>2, <2>3, StartedIn
  <2>5. pc' \in {"train", "done"} BY <1>2, <2>0
  <2> QED BY <1>1, <2>4, <2>5, StartedStep
<1>5. ASSUME skip # 0
      PROVE  /\ middle /\ skip = step % len_dataloader /\ skip \in Nat
             /\ ~Streaming => skip < PassLength /\ skip = step % PassLength
             /\ Streaming => skip = step
             /\ (skip <= PassLength /\ GoesOn) => InPlace(0, skip)
  <2>1. middle /\ skip = step % len_dataloader BY <1>5 DEF skip
  <2> QED BY <1>1, <1>5, <2>1, EpochFromMiddle DEF middle
<1>6. CASE skip # 0 /\ ~ends
  <2>1. skip <= PassLength
    <3>1. CASE Streaming
      <4>1. Len(WholePass(0, 0)) = PassLength BY <1>1, <1>3, <3>1, PassFacts
      <4> QED BY <1>3, <1>5, <1>6, <3>1, <4>1 DEF ends
    <3>2. CASE ~Streaming BY <1>3, <1>5, <1>6, <3>2
    <3> QED BY <3>1, <3>2
  <2>2. skip \in 0 .. PassLength BY <1>3, <1>5, <1>6, <2>1
  <2>3. left' = RestOf(0, skip)
    <3>1. left' = [p \in Procs |-> SkippingLoader(p, skip)] BY <1>2, <1>6
    <3> QED BY <3>1 DEF RestOf, SkippingLoader
  <2>4. left' \in [Procs -> Seq(Seq(Rows))] /\ LeftInv'
    BY <1>1, <1>3, <1>5, <1>6, <2>1, <2>2, <2>3, StartedIn
  <2>5. pc' \in {"train", "done"} BY <1>2, <1>6
  <2> QED BY <1>1, <2>4, <2>5, StartedStep
<1>7. CASE skip # 0 /\ ends
  <2>1. pc' = "hung" /\ left' = left BY <1>2, <1>7
  <2>2. Types'
    <3>1. /\ Procs' = Procs /\ (Transformers' <=> Transformers) /\ Rows' = Rows
          /\ PermutedRows(args)' = PermutedRows(args) /\ TotalSteps(args)' = TotalSteps(args)
      BY <1>1, Frame
    <3> QED BY <1>1, <2>1, <3>1 DEF IInv, Types
  <2>3. OrderInv' /\ ConsumedInv' /\ ResumeGoesOn' BY <1>1, Kept
  <2>4. EpochInv' /\ PassInv' /\ CrashInv' /\ LeftInv'
    BY <2>1 DEF EpochInv, PassInv, CrashInv, LeftInv
  <2>5. HungInv'
    <3>1. step \in ToSet(resumed) /\ resumed' = resumed
      BY <1>1, <1>5, <1>7, LastIn DEF IInv, Types, middle
    <3>2. args.loader = "DataLoaderDispatcher"
      BY <1>1, <1>7 DEF ends, Streaming, Transformers
    <3>3. step > PassLength
      <4>1. Len(WholePass(0, 0)) = PassLength BY <1>1, <1>3, <1>7, PassFacts DEF ends
      <4> QED BY <1>5, <1>7, <4>1 DEF ends
    <3>4. KnownGap(step) BY <3>2, <3>3 DEF KnownGap
    <3>5. KnownGap(step)' <=> KnownGap(step) BY <1>1, Frame
    <3> QED BY <1>1, <3>1, <3>2, <3>4, <3>5 DEF HungInv
  <2> QED BY <2>2, <2>3, <2>4, <2>5 DEF IInv
<1> QED BY <1>4, <1>6, <1>7

(* Whatever the step, the megatron sampler yields rows of the dataset.     *)
LEMMA MegatronType ==
    ASSUME Orders, args.loader = "MegatronPretrainingRandomSampler",
           NEW p \in Procs, NEW n \in Nat, n < TotalSteps(args)
    PROVE  megatron_batches(p, n * GlobalBatch) \in Seq(Seq(Rows))
<1> DEFINE G == GlobalBatch
           N == args.samples \div G
           A == active_total_samples
           e == n \div N
           j == n % N
<1>1. args \in Args /\ G \in Nat \ {0} BY ArgsFacts DEF Orders
<1>2. N \in Nat /\ A = N * G /\ A \div G = N BY <1>1, ActiveSamples
<1>3. N \in Nat \ {0} /\ e \in Seeds
  <2>1. ~Streaming /\ ~Transformers BY DEF Streaming, Transformers
  <2>2. PassLength = N BY <1>2, <2>1 DEF PassLength
  <2>3. PassLength \in Nat \ {0} /\ n \div PassLength \in Seeds BY <1>1, <2>1, StepInSeeds
  <2> QED BY <2>2, <2>3
<1> HIDE DEF N, A, G
<1>4. e \in Nat /\ j \in Nat /\ j < N /\ n = e * N + j BY <1>3, DivMod
<1> HIDE DEF e, j
<1>5. A \in Nat \ {0}
  <2>1. \A x, y \in Nat \ {0} : x * y \in Nat \ {0} OBVIOUS
  <2> QED BY <1>1, <1>2, <1>3, <2>1
<1>6. n * G = e * A + j * G /\ j * G \in Nat /\ n * G \in Nat BY <1>1, <1>2, <1>3, <1>4
<1>7. j * G < A
  <2>1. j + 1 \in Nat /\ j + 1 <= N /\ N \in Nat /\ G \in Nat BY <1>1, <1>3, <1>4
  <2>2. (j + 1) * G <= N * G /\ N * G \in Nat BY <2>1, TimesMonotone
  <2>3. (j + 1) * G = j * G + G BY <1>1, <1>4
  <2> DEFINE x == j * G
             y == N * G
  <2>4. x + G <= y /\ x \in Nat /\ y \in Nat BY <1>6, <2>2, <2>3
  <2> HIDE DEF x, y
  <2>5. x < y BY <1>1, <2>4
  <2> QED BY <1>2, <2>5 DEF x, y
<1>8. (n * G) \div A = e
  <2> DEFINE x == j * G
  <2>1. x \in Nat /\ x < A BY <1>6, <1>7
  <2> HIDE DEF x
  <2>2. (e * A + x) \div A = e BY <1>4, <1>5, <2>1, DivUnique
  <2> QED BY <1>6, <2>2 DEF x
<1> DEFINE c == n * G
<1>9. c \in Nat /\ A \in Nat \ {0} /\ c \div A \in Seeds BY <1>3, <1>5, <1>6, <1>8
<1> HIDE DEF c
<1>10. megatron_batches(p, c) \in Seq(Seq(Rows)) BY <1>9, MegatronBatches DEF A
<1> QED BY <1>10 DEF c, G

(* MegatronTrainer.train prepares its iterators.                           *)
LEMMA StartTrainingStep ==
    ASSUME IInv, StartTraining
    PROVE  IInv'
<1>1. /\ args' = args /\ order' = order /\ step' = step /\ epoch' = epoch
      /\ consumed' = consumed /\ max_steps' = max_steps /\ passes' = passes
      /\ saved' = saved /\ resumed' = resumed /\ seen' = seen
      /\ pc = "epoch" /\ pc' = "train" /\ ~Transformers /\ step < max_steps
      /\ left' = [p \in Procs |-> IF Streaming THEN dispatched_batches(p)
                                  ELSE megatron_batches(p, consumed[p])]
  BY DEF StartTraining
<1>2. /\ Orders /\ args \in Args /\ args.loader \in Loaders /\ PassLength \in Nat
      /\ 0 \in Seeds /\ step \in Nat /\ step < TotalSteps(args)
  <2>1. /\ Orders /\ args \in Args /\ args.loader \in Loaders /\ PassLength \in Nat
        /\ step \in Nat /\ 0 \in Seeds
        /\ TotalSteps(args) \in Nat /\ max_steps \in Nat /\ max_steps <= TotalSteps(args)
    BY Known
  <2> QED BY <1>1, <2>1
<1>3. CASE Streaming
  <2>1. \A p \in Procs : \A e : WholePass(p, e) = dispatched_batches(p)
    BY <1>3 DEF WholePass, Streaming
  <2>2. left' = RestOf(0, 0)
    <3>1. ASSUME NEW p \in Procs
          PROVE  dispatched_batches(p) = SubSeq(WholePass(p, 0), 0 + 1, Len(WholePass(p, 0)))
      <4> DEFINE w == dispatched_batches(p)
      <4>1. w \in Seq(Seq(Rows)) BY <1>2, <1>3, DispatchedPass
      <4> HIDE DEF w
      <4>2. SubSeq(w, 0 + 1, Len(w)) = w BY <4>1, WholeRest
      <4> QED BY <2>1, <4>2 DEF w
    <3> QED BY <1>1, <1>3, <3>1 DEF RestOf
  <2>3. ASSUME GoesOn PROVE InPlace(0, 0)
    <3>1. args.loader = "MegatronDataLoaderDispatcher"
      BY <1>1, <1>3 DEF Streaming, Transformers
    <3>2. \A at : KnownGap(at) BY <3>1 DEF KnownGap
    <3>3. resumed = <<>>
      <4>1. resumed \in Seq(Nat) BY DEF IInv, Types
      <4>2. ToSet(resumed) = {} BY <1>1, <2>3, <3>2 DEF Uninterrupted, GoesOn
      <4> QED BY <4>1, <4>2, LastIn
    <3>4. step = 0 BY <1>1, <3>3 DEF IInv, EpochInv
    <3>5. PassLength > 0 => step % PassLength = 0 /\ step \div PassLength = 0
      BY <1>2, <3>4, Below
    <3> QED BY <1>2, <2>1, <3>5 DEF InPlace
  <2>4. 0 \in 0 .. PassLength BY <1>2
  <2>5. left' \in [Procs -> Seq(Seq(Rows))] /\ LeftInv'
    BY <1>1, <1>2, <1>3, <2>2, <2>3, <2>4, StartedIn
  <2> QED BY <1>1, <2>5, StartedStep
<1>4. CASE ~Streaming
  <2>1. args.loader = "MegatronPretrainingRandomSampler"
    BY <1>1, <1>2, <1>4 DEF Loaders, Streaming, Transformers
  <2>2. left' = [p \in Procs |-> megatron_batches(p, step * GlobalBatch)]
    <3>1. \A p \in Procs : consumed[p] = step * GlobalBatch
      BY <1>1 DEF IInv, ConsumedInv
    <3> QED BY <1>1, <1>4, <3>1
  <2>3. left' \in [Procs -> Seq(Seq(Rows))]
    <3>1. \A p \in Procs : megatron_batches(p, step * GlobalBatch) \in Seq(Seq(Rows))
      BY <1>2, <2>1, MegatronType
    <3> QED BY <2>2, <3>1
  <2>4. CASE UnevenPass
    <3>1. UnevenPass' BY <1>1, <2>4, Frame
    <3>2. LeftInv' BY <3>1 DEF LeftInv
    <3> QED BY <1>1, <2>3, <3>2, StartedStep
  <2>5. CASE ~UnevenPass
    <3> DEFINE N == args.samples \div GlobalBatch
               s == step \div PassLength
               k == step % PassLength
    <3>1. PassLength = N BY <1>1, <1>2, <1>4, ActiveSamples DEF PassLength
    <3>2. PassLength \in Nat \ {0} /\ s \in Seeds BY <1>2, <1>4, StepInSeeds
    <3>3. k \in Nat /\ k < PassLength BY <1>2, <3>2, DivMod
    <3>4. ASSUME NEW p \in Procs
          PROVE  megatron_batches(p, step * GlobalBatch)
                   = SubSeq(WholePass(p, s), k + 1, Len(WholePass(p, s)))
      <4> DEFINE w == WholePass(p, step \div N)
      <4>1. N # 0 /\ step \div N \in Seeds BY <3>1, <3>2
      <4>2. w = WholePass(p, step \div N) OBVIOUS
      <4> HIDE DEF w, N
      <4>3. N = args.samples \div GlobalBatch BY DEF N
      <4>4. megatron_batches(p, step * GlobalBatch) = SubSeq(w, (step % N) + 1, Len(w))
        BY <1>2, <2>1, <2>5, <4>1, <4>2, <4>3, MegatronSuffix
      <4> QED BY <3>1, <4>4 DEF w
    <3> HIDE DEF s, k
    <3>5. left' = RestOf(s, k) BY <2>2, <3>4 DEF RestOf
    <3>6. InPlace(s, k) BY <3>2, <3>3 DEF InPlace, s, k
    <3>7. k \in 0 .. PassLength BY <3>2, <3>3
    <3>8. LeftInv' BY <1>1, <2>5, <3>2, <3>5, <3>6, <3>7, StartedIn
    <3> QED BY <1>1, <2>3, <3>8, StartedStep
  <2> QED BY <2>4, <2>5
<1> QED BY <1>3, <1>4

(* The place of the next step is the next place.                           *)
LEMMA NextPlace ==
    ASSUME IInv, args' = args, order' = order, step' = step + 1,
           NEW s, NEW k \in Nat, k < PassLength, InPlace(s, k)
    PROVE  InPlace(s, k + 1)'
<1>1. PassLength \in Nat \ {0} /\ step \in Nat
  <2>1. PassLength \in Nat /\ step \in Nat BY Known
  <2> QED BY <2>1
<1>2. /\ Procs' = Procs /\ PassLength' = PassLength
      /\ \A p, e : WholePass(p, e)' = WholePass(p, e)
  BY Frame
<1>3. k # PassLength BY <1>1
<1>4. /\ k = step % PassLength
      /\ \A p \in Procs : WholePass(p, s) = WholePass(p, step \div PassLength)
  BY <1>1, <1>3 DEF InPlace
<1>5. CASE k + 1 = PassLength
  <2>1. (step + 1) % PassLength = 0 BY <1>1, <1>4, <1>5, SuccDivMod
  <2> QED BY <1>2, <1>5, <2>1 DEF InPlace
<1>6. CASE k + 1 # PassLength
  <2>1. (step % PassLength) + 1 < PassLength BY <1>1, <1>4, <1>6
  <2>2. (step + 1) \div PassLength = step \div PassLength /\ (step + 1) % PassLength = k + 1
    BY <1>1, <1>4, <2>1, SuccDivMod
  <2>3. \A p \in Procs : WholePass(p, s)' = WholePass(p, step \div PassLength)'
    <3>1. step' \div PassLength' = step \div PassLength BY <1>2, <2>2
    <3>2. \A p : WholePass(p, step \div PassLength)' = WholePass(p, step' \div PassLength')
      BY <1>2
    <3> QED BY <1>2, <1>4, <3>1, <3>2
  <2>4. k + 1 = step' % PassLength' /\ PassLength' = PassLength /\ Procs' = Procs
    BY <1>2, <2>2
  <2> QED BY <1>6, <2>3, <2>4 DEF InPlace
<1> QED BY <1>5, <1>6

(* A step takes the first batch of every iterator.                         *)
LEMMA BatchTaken ==
    ASSUME IInv, args' = args, order' = order, resumed' = resumed, step' = step + 1,
           NEW at \in [Procs -> Seq(Seq(Rows))], \A p \in Procs : at[p] # <<>>,
           seen' = Append(seen, [p \in Procs |-> Head(at[p])]),
           left' = [p \in Procs |-> Tail(at[p])],
           ~UnevenPass =>
             \E s \in Seeds, k \in 0 .. PassLength :
               /\ k < PassLength /\ at = RestOf(s, k)
               /\ (Transformers /\ ~Streaming) => k = step % PassLength
               /\ GoesOn => InPlace(s, k)
    PROVE  /\ left' \in [Procs -> Seq(Seq(Rows))]
           /\ seen' \in Seq([Procs -> Seq(Rows)]) /\ Len(seen') = step + 1
           /\ ~UnevenPass =>
                \E s \in Seeds, k \in 0 .. PassLength :
                  /\ LeftOf(s, k)'
                  /\ (Transformers /\ ~Streaming) => k = (step % PassLength) + 1
                  /\ GoesOn => InPlace(s, k)'
           /\ ResumeGoesOn'
<1> DEFINE x == [p \in Procs |-> Head(at[p])]
<1>1. /\ Procs' = Procs /\ PassLength' = PassLength /\ (UnevenPass' <=> UnevenPass)
      /\ \A p, e : WholePass(p, e)' = WholePass(p, e)
      /\ \A at1 : KnownGap(at1)' <=> KnownGap(at1)
  BY Frame
<1>2. Orders /\ PassLength \in Nat /\ step \in Nat BY Known
<1>3. seen \in Seq([Procs -> Seq(Rows)]) /\ Len(seen) = step BY DEF IInv, Types
<1>4. ASSUME NEW p \in Procs
      PROVE  Head(at[p]) \in Seq(Rows) /\ Tail(at[p]) \in Seq(Seq(Rows))
  <2>1. at[p] \in Seq(Seq(Rows)) /\ at[p] # <<>> OBVIOUS
  <2> QED BY <2>1, TailFacts
<1>5. x \in [Procs -> Seq(Rows)] /\ left' \in [Procs -> Seq(Seq(Rows))] BY <1>4
<1>6. seen' = Append(seen, x) /\ \A p \in Procs : x[p] = Head(at[p]) OBVIOUS
<1> HIDE DEF x
<1>7. /\ seen' \in Seq([Procs -> Seq(Rows)]) /\ Len(seen') = step + 1
      /\ \A i \in 1 .. step : seen'[i] = seen[i]
      /\ seen'[step + 1] = x
  BY <1>3, <1>5, <1>6, AppendFacts
<1>8. ASSUME NEW s \in Seeds, NEW k \in 0 .. PassLength, k < PassLength, at = RestOf(s, k),
             ~UnevenPass, NEW p \in Procs
      PROVE  /\ x[p] = WholePass(p, s)[k + 1]
             /\ left'[p] = SubSeq(WholePass(p, s), (k + 1) + 1, Len(WholePass(p, s)))
  <2> DEFINE w == WholePass(p, s)
             r == SubSeq(w, k + 1, Len(w))
  <2>1. k \in Nat /\ PassLength # 0 BY <1>2, <1>8
  <2>2. w \in Seq(Seq(Rows)) /\ Len(w) \in Nat /\ PassLength <= Len(w)
    BY <1>2, <1>8, <2>1, PassFacts
  <2>3. k < Len(w) BY <1>2, <1>8, <2>1, <2>2
  <2>4. at[p] = r BY <1>8 DEF RestOf
  <2>5. r = SubSeq(w, k + 1, Len(w)) OBVIOUS
  <2>6. left'[p] = Tail(at[p]) OBVIOUS
  <2> HIDE DEF w, r
  <2>7. Head(r) = w[k + 1] /\ Tail(r) = SubSeq(w, (k + 1) + 1, Len(w))
    <3>1. Follows(r, w, k) BY <2>1, <2>2, <2>5, RestFacts
    <3> QED BY <2>3, <3>1 DEF Follows
  <2> QED BY <1>6, <2>4, <2>6, <2>7 DEF w
<1>9. ASSUME ~UnevenPass
      PROVE  \E s \in Seeds, k \in 0 .. PassLength :
                  /\ LeftOf(s, k)'
                  /\ (Transformers /\ ~Streaming) => k = (step % PassLength) + 1
                  /\ GoesOn => InPlace(s, k)'
  <2>1. PICK s \in Seeds, k \in 0 .. PassLength :
               /\ k < PassLength /\ at = RestOf(s, k)
               /\ (Transformers /\ ~Streaming) => k = step % PassLength
               /\ GoesOn => InPlace(s, k)
    BY <1>9
  <2>2. k \in Nat /\ k + 1 \in 0 .. PassLength BY <1>2, <2>1
  <2>3. LeftOf(s, k + 1)' BY <1>1, <1>8, <1>9, <2>1 DEF LeftOf
  <2>4. GoesOn => InPlace(s, k + 1)' BY <2>1, <2>2, NextPlace
  <2>5. (Transformers /\ ~Streaming) => k + 1 = (step % PassLength) + 1 BY <2>1
  <2> QED BY <2>2, <2>3, <2>4, <2>5
<1>10. ASSUME ~UnevenPass, \A at1 \in ToSet(resumed) : ~KnownGap(at1)
       PROVE  AsUninterrupted'
  <2>1. AsUninterrupted BY <1>10 DEF IInv, ResumeGoesOn
  <2>2. PICK s \in Seeds, k \in 0 .. PassLength :
               k < PassLength /\ at = RestOf(s, k) /\ InPlace(s, k)
    BY <1>10 DEF GoesOn, Uninterrupted
  <2>3. PassLength > 0 /\ k # PassLength BY <1>2, <2>2
  <2>4. /\ k = step % PassLength
        /\ \A p \in Procs : WholePass(p, s) = WholePass(p, step \div PassLength)
    BY <2>2, <2>3 DEF InPlace
  <2>5. ASSUME NEW i \in 1 .. Len(seen'), NEW p \in Procs
        PROVE  seen'[i][p] = WholePass(p, (i - 1) \div PassLength)[((i - 1) % PassLength) + 1]
    <3>1. CASE i = step + 1
      <4>1. seen'[i][p] = x[p] BY <1>7, <3>1
      <4>2. x[p] = WholePass(p, s)[k + 1] BY <1>8, <1>10, <2>2
      <4>3. i - 1 = step BY <1>2, <3>1
      <4> QED BY <2>4, <4>1, <4>2, <4>3
    <3>2. CASE i # step + 1
      <4>1. i \in 1 .. step /\ i \in 1 .. Len(seen) BY <1>2, <1>3, <1>7, <3>2
      <4>2. seen'[i] = seen[i] BY <1>7, <4>1
      <4> QED BY <2>1, <4>1, <4>2 DEF AsUninterrupted
    <3> QED BY <3>1, <3>2
  <2> QED BY <1>1, <2>5 DEF AsUninterrupted
<1>11. ResumeGoesOn' BY <1>1, <1>10 DEF ResumeGoesOn
<1> QED BY <1>5, <1>7, <1>9, <1>11

(* Iterators are what they hold.                                           *)
LEMMA LeftRest ==
    ASSUME IInv, NEW s, NEW k, LeftOf(s, k)
    PROVE  left = RestOf(s, k)
<1>1. left = [p \in Procs |-> left[p]] BY DEF IInv, Types
<1>2. \A p \in Procs : left[p] = SubSeq(WholePass(p, s), k + 1, Len(WholePass(p, s)))
  BY DEF LeftOf
<1> QED BY <1>1, <1>2 DEF RestOf

(* An iterator is empty at the end of a pass.                              *)
LEMMA RestEmpty ==
    ASSUME IInv, NEW p \in Procs, NEW s \in Seeds, NEW k \in 0 .. PassLength,
           Transformers \/ Streaming \/ (PassLength # 0 /\ ~UnevenPass)
    PROVE  /\ k < PassLength => RestOf(s, k)[p] # <<>>
           /\ (k = PassLength /\ ~(Transformers /\ ~Streaming)) => RestOf(s, k)[p] = <<>>
<1> DEFINE w == WholePass(p, s)
           r == SubSeq(w, k + 1, Len(w))
<1>1. Orders /\ PassLength \in Nat BY Known
<1>2. /\ w \in Seq(Seq(Rows)) /\ Len(w) \in Nat /\ PassLength <= Len(w)
      /\ (Transformers /\ ~Streaming) \/ Len(w) = PassLength
  BY <1>1, PassFacts
<1>3. k \in Nat /\ r = SubSeq(w, k + 1, Len(w)) BY <1>1
<1>4. RestOf(s, k)[p] = r BY DEF RestOf
<1> HIDE DEF w, r
<1>5. (k < Len(w) => r # <<>>) /\ (k >= Len(w) => r = <<>>)
  <2>1. Follows(r, w, k) BY <1>2, <1>3, RestFacts
  <2> QED BY <2>1 DEF Follows
<1>6. k < PassLength => k < Len(w) BY <1>1, <1>2, <1>3
<1>7. (k = PassLength /\ Len(w) = PassLength) => k >= Len(w) BY <1>1, <1>2, <1>3
<1> QED BY <1>2, <1>4, <1>5, <1>6, <1>7

(* One optimizer step under transformers.                                  *)
LEMMA TrainStepStep ==
    ASSUME IInv, TrainStep
    PROVE  IInv'
<1>1. /\ args' = args /\ order' = order /\ step' = step + 1
      /\ consumed' = consumed /\ max_steps' = max_steps /\ passes' = passes
      /\ saved' = saved /\ resumed' = resumed
      /\ pc = "train" /\ Transformers /\ step < max_steps
      /\ \A p \in Procs : left[p] # <<>>
      /\ seen' = Append(seen, [p \in Procs |-> Head(left[p])])
      /\ left' = [p \in Procs |-> Tail(left[p])]
  BY DEF TrainStep
<1>2. \/ /\ step + 1 < max_steps /\ ~Streaming /\ (step + 1) % len_dataloader = 0
         /\ epoch' = epoch + 1 /\ pc' = "epoch"
      \/ /\ ~(step + 1 < max_steps /\ (~Streaming /\ (step + 1) % len_dataloader = 0))
         /\ epoch' = epoch /\ pc' = "train"
  BY <1>1 DEF TrainStep
<1>3. /\ Procs' = Procs /\ (Transformers' <=> Transformers) /\ (Streaming' <=> Streaming)
      /\ PassLength' = PassLength /\ len_dataloader' = len_dataloader /\ Rows' = Rows
      /\ (UnevenPass' <=> UnevenPass)
      /\ PermutedRows(args)' = PermutedRows(args) /\ TotalSteps(args)' = TotalSteps(args)
  BY <1>1, Frame
<1>4. /\ Orders /\ args \in Args /\ PassLength \in Nat /\ 0 \in Procs
      /\ max_steps \in Nat /\ step \in Nat /\ saved \in Nat /\ saved <= step
      /\ step < TotalSteps(args)
  <2>1. /\ Orders /\ args \in Args /\ PassLength \in Nat /\ 0 \in Procs
        /\ max_steps \in Nat /\ max_steps <= TotalSteps(args) /\ TotalSteps(args) \in Nat
        /\ step \in Nat /\ saved \in Nat /\ saved <= step
    BY Known
  <2> QED BY <1>1, <2>1
<1>5. ~UnevenPass BY <1>1 DEF UnevenPass, Transformers
<1>6. ~Streaming => PassLength \in Nat \ {0} /\ len_dataloader = PassLength
  <2>1. ~Streaming => PassLength \in Nat \ {0} BY <1>4, StepInSeeds
  <2>2. ~Streaming => len_dataloader = PassLength BY <1>1, <1>4, TotalFacts
  <2> QED BY <2>1, <2>2
<1>7. PICK s \in Seeds, k \in 0 .. PassLength :
           /\ LeftOf(s, k)
           /\ (Transformers /\ ~Streaming) => k < PassLength /\ k = step % PassLength
           /\ GoesOn => InPlace(s, k)
  BY <1>1, <1>5 DEF IInv, LeftInv
<1>8. left = RestOf(s, k) BY <1>7, LeftRest
<1>9. k < PassLength
  <2>1. k \in Nat /\ k <= PassLength BY <1>4
  <2>2. left[0] # <<>> BY <1>1, <1>4
  <2>3. Streaming => k # PassLength BY <1>1, <1>4, <1>8, <2>2, RestEmpty
  <2> QED BY <1>1, <1>4, <1>7, <2>1, <2>3
<1>10. /\ left' \in [Procs -> Seq(Seq(Rows))]
       /\ seen' \in Seq([Procs -> Seq(Rows)]) /\ Len(seen') = step + 1
       /\ \E s1 \in Seeds, k1 \in 0 .. PassLength :
            /\ LeftOf(s1, k1)'
            /\ (Transformers /\ ~Streaming) => k1 = (step % PassLength) + 1
            /\ GoesOn => InPlace(s1, k1)'
       /\ ResumeGoesOn'
  <2>1. left \in [Procs -> Seq(Seq(Rows))] BY DEF IInv, Types
  <2>2. \E s1 \in Seeds, k1 \in 0 .. PassLength :
               /\ k1 < PassLength /\ left = RestOf(s1, k1)
               /\ (Transformers /\ ~Streaming) => k1 = step % PassLength
               /\ GoesOn => InPlace(s1, k1)
    BY <1>7, <1>8, <1>9
  <2> QED BY <1>1, <1>5, <2>1, <2>2, BatchTaken
<1>11. Types'
  <2>1. epoch' \in Nat BY <1>2 DEF IInv, Types
  <2>2. pc' \in {"epoch", "train"} BY <1>2
  <2>3. step' \in 0 .. max_steps' /\ saved' \in 0 .. step' BY <1>1, <1>4
  <2> QED BY <1>1, <1>3, <1>10, <2>1, <2>2, <2>3 DEF IInv, Types
<1>12. OrderInv' BY <1>1, Kept
<1>13. ConsumedInv' BY <1>1, <1>3 DEF ConsumedInv
<1>14. CrashInv' /\ HungInv' BY <1>2 DEF CrashInv, HungInv
<1>15. EpochInv'
  <2>1. pc' = "epoch" => step' % PassLength' = 0 BY <1>1, <1>2, <1>3, <1>6
  <2>2. Transformers' BY <1>1, <1>3
  <2> QED BY <2>1, <2>2 DEF EpochInv
<1>16. ~Streaming =>
         /\ (step % PassLength) + 1 < PassLength =>
              /\ (step + 1) \div PassLength = step \div PassLength
              /\ (step + 1) % PassLength = (step % PassLength) + 1
         /\ (step % PassLength) + 1 = PassLength =>
              /\ (step + 1) \div PassLength = (step \div PassLength) + 1
              /\ (step + 1) % PassLength = 0
         /\ (step % PassLength) + 1 <= PassLength
         /\ step % PassLength \in Nat
  <2>1. ASSUME ~Streaming
        PROVE  step % PassLength \in Nat /\ (step % PassLength) + 1 <= PassLength
    <3>1. step % PassLength \in Nat /\ step % PassLength < PassLength BY <1>4, <1>6, <2>1, DivMod
    <3> QED BY <1>4, <3>1
  <2> QED BY <1>4, <1>6, <2>1, SuccDivMod
<1>17. PassInv'
  <2>1. SUFFICES ASSUME step + 1 < max_steps, ~Streaming
                 PROVE  epoch' = (step + 1) \div PassLength
    BY <1>1, <1>3, <1>6 DEF PassInv
  <2>2. epoch = step \div PassLength BY <1>1, <1>6, <2>1 DEF IInv, PassInv
  <2>3. CASE (step + 1) % PassLength = 0
    <3>1. epoch' = epoch + 1 BY <1>2, <1>6, <2>1, <2>3
    <3>2. (step % PassLength) + 1 = PassLength
      <4> SUFFICES ASSUME (step % PassLength) + 1 < PassLength PROVE FALSE
        BY <1>4, <1>16, <2>1
      <4>1. (step + 1) % PassLength = (step % PassLength) + 1 BY <1>16, <2>1
      <4> QED BY <1>16, <2>1, <2>3, <4>1
    <3> QED BY <1>16, <2>1, <2>2, <3>1, <3>2
  <2>4. CASE (step + 1) % PassLength # 0
    <3>1. epoch' = epoch BY <1>2, <1>6, <2>1, <2>4
    <3>2. (step % PassLength) + 1 < PassLength BY <1>4, <1>16, <2>1, <2>4
    <3> QED BY <1>16, <2>1, <2>2, <3>1, <3>2
  <2> QED BY <2>3, <2>4
<1>18. LeftInv'
  <2>1. SUFFICES ASSUME pc' = "train", step + 1 < max_steps
        PROVE  \E s1 \in Seeds, k1 \in 0 .. PassLength :
                 /\ LeftOf(s1, k1)'
                 /\ (Transformers /\ ~Streaming) =>
                       k1 < PassLength /\ k1 = (step + 1) % PassLength
                 /\ GoesOn => InPlace(s1, k1)'
    <3>1. GoesOn' <=> GoesOn BY <1>1, Kept
    <3> QED BY <1>1, <1>3, <3>1 DEF LeftInv
  <2>2. ~Streaming => (step + 1) % PassLength # 0 BY <1>2, <1>6, <2>1
  <2>3. ~Streaming => /\ (step % PassLength) + 1 < PassLength
                      /\ (step + 1) % PassLength = (step % PassLength) + 1
    BY <1>4, <1>16, <2>2
  <2> QED BY <1>10, <2>3
<1> QED BY <1>10, <1>11, <1>12, <1>13, <1>14, <1>15, <1>17, <1>18 DEF IInv

(* The dispatcher has scattered None.                                      *)
LEMMA StreamEndsStep ==
    ASSUME IInv, StreamEnds
    PROVE  IInv'
<1>1. /\ args' = args /\ order' = order /\ step' = step /\ left' = left
      /\ consumed' = consumed /\ max_steps' = max_steps /\ passes' = passes
      /\ saved' = saved /\ resumed' = resumed /\ seen' = seen
      /\ pc = "train" /\ pc' = "epoch" /\ Transformers /\ Streaming /\ step < max_steps
      /\ epoch' = epoch + 1 /\ \A p \in Procs : left[p] = <<>>
  BY DEF StreamEnds
<1>2. /\ Procs' = Procs /\ (Transformers' <=> Transformers) /\ (Streaming' <=> Streaming)
      /\ PassLength' = PassLength /\ Rows' = Rows
      /\ PermutedRows(args)' = PermutedRows(args) /\ TotalSteps(args)' = TotalSteps(args)
  BY <1>1, Frame
<1>3. Orders /\ PassLength \in Nat /\ 0 \in Procs BY Known
<1>4. Types'
  <2>1. epoch' \in Nat BY <1>1 DEF IInv, Types
  <2> QED BY <1>1, <1>2, <2>1 DEF IInv, Types
<1>5. OrderInv' /\ ConsumedInv' /\ ResumeGoesOn' BY <1>1, Kept
<1>6. CrashInv' /\ HungInv' /\ LeftInv' BY <1>1 DEF CrashInv, HungInv, LeftInv
<1>7. PassInv' BY <1>1, <1>2 DEF PassInv
<1>8. EpochInv'
  <2>1. ~UnevenPass /\ GoesOn BY <1>1 DEF UnevenPass, Transformers, GoesOn
  <2>2. PICK s \in Seeds, k \in 0 .. PassLength : LeftOf(s, k) /\ InPlace(s, k)
    BY <1>1, <2>1 DEF IInv, LeftInv
  <2>3. left = RestOf(s, k) BY <2>2, LeftRest
  <2>4. left[0] = <<>> BY <1>1, <1>3
  <2>5. ~(k < PassLength) BY <1>1, <1>3, <2>3, <2>4, RestEmpty
  <2>6. k = PassLength BY <1>3, <2>5
  <2>7. PassLength > 0 => step % PassLength = 0 BY <2>2, <2>6 DEF InPlace
  <2> QED BY <1>1, <1>2, <2>7 DEF EpochInv
<1> QED BY <1>4, <1>5, <1>6, <1>7, <1>8 DEF IInv

(* One iteration of MegatronTrainer.train.                                 *)
LEMMA TrainIterationStep ==
    ASSUME IInv, TrainIteration
    PROVE  IInv'
<1> DEFINE again == {p \in Procs : left[p] = <<>>}
           ended == passes + (IF 0 \in again THEN 1 ELSE 0)
           at == [p \in Procs |-> IF p \notin again THEN left[p]
                                  ELSE IF Streaming THEN dispatched_batches(p)
                                  ELSE megatron_batches(p, consumed[p])]
<1>1. /\ args' = args /\ order' = order /\ pc' = pc /\ epoch' = epoch
      /\ saved' = saved /\ resumed' = resumed
      /\ pc = "train" /\ ~Transformers /\ step < max_steps /\ step' = step + 1
      /\ consumed' = [p \in Procs |-> consumed[p] + GlobalBatch]
  BY DEF TrainIteration
<1>2. /\ \A p \in Procs : at[p] # <<>>
      /\ seen' = Append(seen, [p \in Procs |-> Head(at[p])])
      /\ left' = [p \in Procs |-> Tail(at[p])]
      /\ passes' = ended
      /\ max_steps' = IF 0 \in again /\ ended >= args.epochs THEN step + 1 ELSE max_steps
  BY DEF TrainIteration
<1>3. /\ Procs' = Procs /\ (Transformers' <=> Transformers) /\ (Streaming' <=> Streaming)
      /\ GlobalBatch' = GlobalBatch /\ PassLength' = PassLength /\ Rows' = Rows
      /\ (UnevenPass' <=> UnevenPass)
      /\ PermutedRows(args)' = PermutedRows(args) /\ TotalSteps(args)' = TotalSteps(args)
  BY <1>1, Frame
<1>4. /\ Orders /\ args \in Args /\ args.loader \in Loaders /\ PassLength \in Nat
      /\ 0 \in Procs /\ 0 \in Seeds /\ GlobalBatch \in Nat
      /\ max_steps \in Nat /\ step \in Nat /\ saved \in Nat /\ saved <= step
      /\ step < TotalSteps(args) /\ max_steps <= TotalSteps(args) /\ TotalSteps(args) \in Nat
  <2>1. /\ Orders /\ args \in Args /\ args.loader \in Loaders /\ PassLength \in Nat
        /\ 0 \in Procs /\ 0 \in Seeds /\ GlobalBatch \in Nat \ {0}
        /\ max_steps \in Nat /\ max_steps <= TotalSteps(args) /\ TotalSteps(args) \in Nat
        /\ step \in Nat /\ saved \in Nat /\ saved <= step
    BY Known
  <2> QED BY <1>1, <2>1
<1>5. ~Streaming => args.loader = "MegatronPretrainingRandomSampler"
  BY <1>1, <1>4 DEF Loaders, Streaming, Transformers
<1>6. \A p \in Procs : consumed[p] = step * GlobalBatch BY <1>1 DEF IInv, ConsumedInv
<1>7. \A p \in Procs :
         at[p] = IF left[p] # <<>> THEN left[p]
                 ELSE IF Streaming THEN dispatched_batches(p)
                 ELSE megatron_batches(p, step * GlobalBatch)
  BY <1>6
<1>8. at = [p \in Procs |-> at[p]] OBVIOUS
<1>9. ended \in Nat BY DEF IInv, Types
<1> DEFINE ends == 0 \in again /\ ended >= args.epochs
<1>10. max_steps' = IF ends THEN step + 1 ELSE max_steps BY <1>2
<1> HIDE DEF at, ended, again, ends
<1>11. at \in [Procs -> Seq(Seq(Rows))]
  <2>1. ASSUME NEW p \in Procs PROVE at[p] \in Seq(Seq(Rows))
    <3>1. left[p] \in Seq(Seq(Rows)) BY DEF IInv, Types
    <3>2. Streaming => dispatched_batches(p) \in Seq(Seq(Rows)) BY <1>4, DispatchedPass
    <3>3. ~Streaming => megatron_batches(p, step * GlobalBatch) \in Seq(Seq(Rows))
      BY <1>4, <1>5, MegatronType
    <3> QED BY <1>7, <3>1, <3>2, <3>3
  <2> QED BY <1>8, <2>1
<1>12. ASSUME ~UnevenPass
       PROVE  \E s \in Seeds, k \in 0 .. PassLength :
                 /\ k < PassLength /\ at = RestOf(s, k)
                 /\ GoesOn => InPlace(s, k)
  <2>1. ~Streaming => PassLength \in Nat \ {0} /\ step \div PassLength \in Seeds
    BY <1>4, StepInSeeds
  <2>2. PICK s \in Seeds, k \in 0 .. PassLength : LeftOf(s, k) /\ (GoesOn => InPlace(s, k))
    BY <1>1, <1>12 DEF IInv, LeftInv
  <2>3. left = RestOf(s, k) BY <2>2, LeftRest
  <2>4. ASSUME NEW p \in Procs
        PROVE  (k < PassLength => left[p] # <<>>) /\ (k = PassLength => left[p] = <<>>)
    BY <1>1, <1>12, <2>1, <2>3, RestEmpty
  <2>5. CASE k < PassLength
    <3>1. \A p \in Procs : at[p] = left[p] BY <1>7, <2>4, <2>5
    <3>2. at = RestOf(s, k) BY <1>8, <2>3, <3>1 DEF RestOf
    <3> QED BY <2>2, <2>5, <3>2
  <2>6. CASE k = PassLength /\ Streaming
    <3>1. \A p \in Procs : \A e : WholePass(p, e) = dispatched_batches(p)
      BY <2>6 DEF WholePass, Streaming
    <3>2. ASSUME NEW p \in Procs
          PROVE  at[p] = SubSeq(WholePass(p, 0), 0 + 1, Len(WholePass(p, 0)))
      <4> DEFINE w == dispatched_batches(p)
      <4>1. w \in Seq(Seq(Rows)) BY <1>4, <2>6, DispatchedPass
      <4>2. at[p] = w BY <1>7, <2>4, <2>6
      <4> HIDE DEF w
      <4>3. SubSeq(w, 0 + 1, Len(w)) = w BY <4>1, WholeRest
      <4> QED BY <3>1, <4>2, <4>3 DEF w
    <3>3. at = RestOf(0, 0) BY <1>8, <3>2 DEF RestOf
    <3>4. 0 < PassLength
      <4>1. at[0] = dispatched_batches(0) /\ at[0] # <<>> BY <1>2, <1>4, <1>7, <2>4, <2>6
      <4>2. at[0] \in Seq(Seq(Rows)) BY <1>4, <1>11
      <4>3. Len(dispatched_batches(0)) # 0 BY <4>1, <4>2, LenFacts
      <4>4. PassLength = Len(dispatched_batches(0)) BY <2>6 DEF PassLength
      <4> QED BY <1>4, <4>3, <4>4
    <3>5. ASSUME GoesOn PROVE InPlace(0, 0)
      <4>1. step % PassLength = 0 BY <2>2, <2>6, <3>4, <3>5 DEF InPlace
      <4> QED BY <3>1, <3>4, <4>1 DEF InPlace
    <3>6. 0 \in 0 .. PassLength BY <1>4
    <3> QED BY <1>4, <3>3, <3>4, <3>5, <3>6
  <2>7. CASE k = PassLength /\ ~Streaming
    <3> DEFINE N == args.samples \div GlobalBatch
               t == step \div PassLength
               j == step % PassLength
    <3>1. PassLength = N BY <1>1, <1>4, <2>7, ActiveSamples DEF PassLength
    <3>2. PassLength \in Nat \ {0} /\ t \in Seeds BY <2>1, <2>7
    <3>3. j \in Nat /\ j < PassLength BY <1>4, <3>2, DivMod
    <3>4. ASSUME NEW p \in Procs
          PROVE  at[p] = SubSeq(WholePass(p, t), j + 1, Len(WholePass(p, t)))
      <4> DEFINE w == WholePass(p, step \div N)
      <4>1. N # 0 /\ step \div N \in Seeds BY <3>1, <3>2
      <4>2. w = WholePass(p, step \div N) OBVIOUS
      <4> HIDE DEF w, N
      <4>3. N = args.samples \div GlobalBatch BY DEF N
      <4>4. megatron_batches(p, step * GlobalBatch) = SubSeq(w, (step % N) + 1, Len(w))
        BY <1>4, <1>5, <1>12, <2>7, <4>1, <4>2, <4>3, MegatronSuffix
      <4>5. at[p] = megatron_batches(p, step * GlobalBatch) BY <1>7, <2>4, <2>7
      <4> QED BY <3>1, <4>4, <4>5 DEF w
    <3> HIDE DEF t, j
    <3>5. at = RestOf(t, j) BY <1>8, <3>4 DEF RestOf
    <3>6. InPlace(t, j) BY <3>2, <3>3 DEF InPlace, t, j
    <3>7. j \in 0 .. PassLength BY <3>2, <3>3
    <3> QED BY <3>2, <3>3, <3>5, <3>6, <3>7
  <2>8. k < PassLength \/ k = PassLength BY <1>4
  <2> QED BY <2>5, <2>6, <2>7, <2>8
<1>13. /\ left' \in [Procs -> Seq(Seq(Rows))]
       /\ seen' \in Seq([Procs -> Seq(Rows)]) /\ Len(seen') = step + 1
       /\ ~UnevenPass =>
            \E s1 \in Seeds, k1 \in 0 .. PassLength :
              /\ LeftOf(s1, k1)'
              /\ (Transformers /\ ~Streaming) => k1 = (step % PassLength) + 1
              /\ GoesOn => InPlace(s1, k1)'
       /\ ResumeGoesOn'
  <2>1. ~UnevenPass =>
          \E s1 \in Seeds, k1 \in 0 .. PassLength :
               /\ k1 < PassLength /\ at = RestOf(s1, k1)
               /\ (Transformers /\ ~Streaming) => k1 = step % PassLength
               /\ GoesOn => InPlace(s1, k1)
    BY <1>1, <1>12
  <2> QED BY <1>1, <1>2, <1>11, <2>1, BatchTaken
<1>14. Types'
  <2>1. max_steps' \in 0 .. TotalSteps(args) /\ step' \in 0 .. max_steps' /\ saved' \in 0 .. step'
    <3>1. max_steps' = step + 1 \/ max_steps' = max_steps BY <1>10
    <3> QED BY <1>1, <1>4, <3>1
  <2>2. consumed' \in [Procs -> Nat]
    <3>1. \A p \in Procs : consumed[p] + GlobalBatch \in Nat BY <1>4 DEF IInv, Types
    <3> QED BY <1>1, <3>1
  <2>3. passes' \in Nat BY <1>2, <1>9
  <2>4. pc' = "train" /\ epoch' \in Nat BY <1>1 DEF IInv, Types
  <2>5. args' \in Args /\ order' \in [Seeds -> Seq(0 .. PermutedRows(args) - 1)]
        /\ resumed' \in Seq(Nat)
    BY <1>1 DEF IInv, Types
  <2> QED BY <1>1, <1>3, <1>13, <2>1, <2>2, <2>3, <2>4, <2>5 DEF Types
<1>15. OrderInv' BY <1>1, Kept
<1>16. ConsumedInv'
  <2>1. step * GlobalBatch + GlobalBatch = (step + 1) * GlobalBatch BY <1>4
  <2>2. \A p \in Procs : consumed'[p] = (step + 1) * GlobalBatch BY <1>1, <1>6, <2>1
  <2> QED BY <1>1, <1>3, <2>2 DEF ConsumedInv
<1>17. EpochInv' /\ PassInv' /\ HungInv' /\ CrashInv'
  BY <1>1, <1>3 DEF EpochInv, PassInv, HungInv, CrashInv
<1>18. LeftInv'
  <2>1. GoesOn' <=> GoesOn BY <1>1, Kept
  <2> QED BY <1>1, <1>3, <1>13, <2>1 DEF LeftInv
<1> QED BY <1>13, <1>14, <1>15, <1>16, <1>17, <1>18 DEF IInv

(* How many rows are permuted.                                             *)
LEMMA PermutedRowsFacts ==
    ASSUME args \in Args
    PROVE  PermutedRows(args) \in Nat
<1>1. args.samples \in Nat /\ args.procs \in Nat \ {0} BY ArgsFacts
<1>2. BucketRows(args) \in Nat BY BucketFacts
<1>3. (args.samples \div args.procs) * args.procs \in Nat BY <1>1, DivFacts
<1> QED BY <1>1, <1>2, <1>3 DEF PermutedRows, ShardRows

(* The numbers below n, permuted or in order.                              *)
LEMMA OrderFacts ==
    ASSUME NEW n \in Nat, NEW q \in Permuted(n) \cup {Straight(n)}
    PROVE  /\ q \in Seq(0 .. n - 1) /\ Len(q) = n
           /\ \A i, j \in 1 .. Len(q) : q[i] = q[j] => i = j
<1>1. CASE q = Straight(n)
  <2>1. q = [i \in 1 .. n |-> i - 1] BY <1>1 DEF Straight
  <2>2. \A i \in 1 .. n : i - 1 \in 0 .. n - 1 OBVIOUS
  <2>3. q \in Seq(0 .. n - 1) /\ Len(q) = n BY <2>1, <2>2
  <2> QED BY <2>1, <2>3
<1>2. CASE q \in Permuted(n)
  <2>1. PICK f \in Bijection(1 .. n, 0 .. n - 1) : q = [i \in 1 .. n |-> f[i]]
    BY <1>2 DEF Permuted
  <2>2. /\ \A i \in 1 .. n : f[i] \in 0 .. n - 1
        /\ \A i, j \in 1 .. n : f[i] = f[j] => i = j
    BY <2>1 DEF Bijection, Injection, IsInjective
  <2>3. q \in Seq(0 .. n - 1) /\ Len(q) = n BY <2>1, <2>2
  <2> QED BY <2>1, <2>2, <2>3
<1> QED BY <1>1, <1>2

(* The initial states.                                                     *)
LEMMA InitInv ==
    ASSUME Init
    PROVE  IInv
<1>1. /\ args \in Args /\ pc = "epoch" /\ step = 0 /\ epoch = 0 /\ left = Empty
      /\ consumed = [p \in Procs |-> 0] /\ max_steps = TotalSteps(args) /\ passes = 0
      /\ saved = 0 /\ resumed = <<>> /\ seen = <<>>
  BY DEF Init
<1>2. order \in [Seeds -> IF args.shuffle THEN Permuted(PermutedRows(args))
                          ELSE {Straight(PermutedRows(args))}]
  BY DEF Init
<1>3. GlobalBatch \in Nat \ {0} /\ TotalSteps(args) \in Nat /\ PermutedRows(args) \in Nat
      /\ 0 \in Seeds
  BY <1>1, ArgsFacts, TotalFacts, PermutedRowsFacts
<1> DEFINE n == PermutedRows(args)
<1>4. ASSUME NEW e \in Seeds
      PROVE  /\ order[e] \in Seq(0 .. n - 1) /\ Len(order[e]) = n
             /\ \A i, j \in 1 .. Len(order[e]) : order[e][i] = order[e][j] => i = j
             /\ ~args.shuffle => order[e] = Straight(n)
  <2>1. order[e] \in Permuted(n) \cup {Straight(n)} /\ (~args.shuffle => order[e] = Straight(n))
    BY <1>2
  <2> DEFINE q == order[e]
  <2>2. q \in Permuted(n) \cup {Straight(n)} /\ n \in Nat BY <1>3, <2>1
  <2> HIDE DEF q, n
  <2>3. /\ q \in Seq(0 .. n - 1) /\ Len(q) = n
        /\ \A i, j \in 1 .. Len(q) : q[i] = q[j] => i = j
    BY <2>2, OrderFacts
  <2> QED BY <2>1, <2>3 DEF q
<1> HIDE DEF n
<1>5. OrderInv BY <1>3, <1>4 DEF OrderInv, n
<1>6. order \in [Seeds -> Seq(0 .. n - 1)]
  <2>1. order = [e \in Seeds |-> order[e]] BY <1>2
  <2> QED BY <1>4, <2>1
<1>7. Types
  <2>1. left \in [Procs -> Seq(Seq(Rows))] BY <1>1 DEF Empty
  <2>2. consumed \in [Procs -> Nat] BY <1>1
  <2>3. max_steps \in 0 .. TotalSteps(args) /\ step \in 0 .. max_steps /\ saved \in 0 .. step
    BY <1>1, <1>3
  <2>4. /\ epoch \in Nat /\ passes \in Nat /\ resumed \in Seq(Nat)
        /\ seen \in Seq([Procs -> Seq(Rows)]) /\ Len(seen) = step
    BY <1>1
  <2> QED BY <1>1, <1>6, <2>1, <2>2, <2>3, <2>4 DEF Types, n
<1>8. PassLength \in Nat
  <2>1. Orders BY <1>1, <1>5, <1>6 DEF Orders, n
  <2>2. CASE Streaming
    <3>1. PassLength = Len(dispatched_batches(0)) /\ 0 \in Procs
      BY <1>1, <2>2, ArgsFacts DEF PassLength
    <3> QED BY <2>1, <2>2, <3>1, DispatchedPass
  <2>3. CASE ~Streaming BY <1>1, <2>3, TotalFacts
  <2> QED BY <2>2, <2>3
<1>9. ConsumedInv BY <1>1, <1>3 DEF ConsumedInv
<1>10. CrashInv /\ HungInv /\ LeftInv BY <1>1 DEF CrashInv, HungInv, LeftInv
<1>11. EpochInv
  <2>1. PassLength > 0 => step % PassLength = 0 BY <1>1, <1>8, Below
  <2> QED BY <1>1, <2>1 DEF EpochInv
<1>12. PassInv
  <2>1. SUFFICES ASSUME step < max_steps, Transformers, ~Streaming
                 PROVE  epoch = step \div len_dataloader
    BY DEF PassInv
  <2>2. PassLength \in Nat \ {0} BY <1>1, <1>3, <2>1, StepInSeeds
  <2>3. len_dataloader = PassLength BY <1>1, <2>1, TotalFacts
  <2>4. step \div PassLength = 0 BY <1>1, <2>2, Below
  <2> QED BY <1>1, <2>3, <2>4
<1>13. ResumeGoesOn
  <2>1. \A i \in 1 .. Len(seen) : FALSE BY <1>1
  <2> QED BY <2>1 DEF ResumeGoesOn, AsUninterrupted
<1> QED BY <1>5, <1>7, <1>9, <1>10, <1>11, <1>12, <1>13 DEF IInv

(* Every step.                                                             *)
LEMMA StepInv ==
    ASSUME IInv, [Next]_vars
    PROVE  IInv'
<1>1. CASE UNCHANGED vars
  <2>1. /\ args' = args /\ order' = order /\ pc' = pc /\ step' = step /\ epoch' = epoch
        /\ left' = left /\ consumed' = consumed /\ max_steps' = max_steps
        /\ passes' = passes /\ saved' = saved /\ resumed' = resumed /\ seen' = seen
    BY <1>1 DEF vars
  <2>2. Types'
    <3>1. /\ Procs' = Procs /\ (Transformers' <=> Transformers) /\ Rows' = Rows
          /\ PermutedRows(args)' = PermutedRows(args) /\ TotalSteps(args)' = TotalSteps(args)
      BY <2>1, Frame
    <3> QED BY <2>1, <3>1 DEF IInv, Types
  <2>3. OrderInv' /\ ConsumedInv' /\ ResumeGoesOn' /\ LeftInv' BY <2>1, Kept
  <2>4. EpochInv' /\ PassInv' /\ HungInv' BY <2>1, Kept
  <2>5. CrashInv' BY <2>1 DEF IInv, CrashInv
  <2> QED BY <2>2, <2>3, <2>4, <2>5 DEF IInv
<1>2. CASE StartEpoch BY <1>2, StartEpochStep
<1>3. CASE StartTraining BY <1>3, StartTrainingStep
<1>4. CASE TrainStep BY <1>4, TrainStepStep
<1>5. CASE StreamEnds BY <1>5, StreamEndsStep
<1>6. CASE TrainIteration BY <1>6, TrainIterationStep
<1>7. CASE Finish BY <1>7, FinishStep
<1>8. CASE SaveCheckpoint BY <1>8, SaveCheckpointStep
<1>9. CASE Crash BY <1>9, CrashStep
<1>10. CASE Resume BY <1>10, ResumeStep
<1> QED BY <1>1, <1>2, <1>3, <1>4, <1>5, <1>6, <1>7, <1>8, <1>9, <1>10 DEF Next, Running

-----------------------------------------------------------------------------
(* The theorems.                                                           *)

(* In every reachable state what the iterators hold is the end of a whole  *)
(* pass of their loader, equally far into it on every process.             *)
THEOREM InductiveInvariant == Spec => []IInv
<1>1. Init => IInv BY InitInv
<1>2. IInv /\ [Next]_vars => IInv' BY StepInv
<1> QED BY <1>1, <1>2, PTL DEF Spec

(* Whatever was lost in crashes and resumed, step i has trained on every   *)
(* process on the batch of the i-th step of an uninterrupted training, but *)
(* for the resumes of KnownGap.                                            *)
THEOREM TrainingGoesOn == Spec => []ResumeGoesOn
<1>1. IInv => ResumeGoesOn BY DEF IInv
<1> QED BY <1>1, InductiveInvariant, PTL

(* No process is without a batch in a step in which another has one: no    *)
(* collective waits for ever, and only a stream that was resumed past the  *)
(* end of its pass hangs.                                                  *)
THEOREM BatchesInStep == Spec => []ProcessesInStep
<1>1. IInv => ProcessesInStep
  <2> SUFFICES ASSUME IInv PROVE ProcessesInStep OBVIOUS
  <2>1. ASSUME pc = "train", Transformers, step < max_steps
        PROVE  \/ \A p \in Procs : left[p] # <<>>
               \/ Streaming /\ \A p \in Procs : left[p] = <<>>
    <3>1. ~UnevenPass BY <2>1 DEF UnevenPass, Transformers
    <3>2. PICK s \in Seeds, k \in 0 .. PassLength :
                 LeftOf(s, k) /\ (~Streaming => k < PassLength)
      BY <2>1, <3>1 DEF IInv, LeftInv
    <3>3. left = RestOf(s, k) BY <3>2, LeftRest
    <3>4. CASE k < PassLength
      <4>1. \A p \in Procs : left[p] # <<>> BY <2>1, <3>3, <3>4, RestEmpty
      <4> QED BY <4>1
    <3>5. CASE k = PassLength /\ Streaming
      <4>1. \A p \in Procs : left[p] = <<>> BY <3>3, <3>5, RestEmpty
      <4> QED BY <3>5, <4>1
    <3>6. PassLength \in Nat BY Known
    <3>7. k < PassLength \/ k = PassLength BY <3>6
    <3> QED BY <3>2, <3>4, <3>5, <3>7
  <2>2. HungInv BY DEF IInv
  <2> QED BY <2>1, <2>2 DEF ProcessesInStep, HungInv
<1> QED BY <1>1, InductiveInvariant, PTL

----

(* A pass deals every row once. *)

(* There are at most n more in T than in R, and as many in R as there are  *)
(* places from the first on, of D, that pl gives to members of T.          *)
Counted(T, R, pl, n, D) ==
    /\ Cardinality(T) \in Nat /\ Cardinality(R) \in Nat
    /\ Cardinality(T) - Cardinality(R) <= n
    /\ \A m \in 0 .. D : (\A x \in 1 .. m : \E t \in T : pl[t] = x) => m <= Cardinality(R)

(* Rows R dealt from a list: each t of T is given place pl[t] of X places, *)
(* all different, and the first D places hold different rows d[x].         *)
Numbered(T, R, pl, d, X, D) ==
    /\ X \in Nat /\ D \in Nat /\ D <= X
    /\ pl \in [T -> 1 .. X] /\ \A t, u \in T : pl[t] = pl[u] => t = u
    /\ \A x, y \in 1 .. D : d[x] = d[y] => x = y
    /\ R = {d[pl[t]] : t \in T}

(* Then the rows are almost as many as the places, and no fewer than the   *)
(* places from the first on that are given.                                *)
LEMMA Counting ==
    ASSUME NEW T, NEW R, NEW pl, NEW d, NEW X, NEW D, Numbered(T, R, pl, d, X, D)
    PROVE  Counted(T, R, pl, X - D, D)
<1>0. /\ X \in Nat /\ D \in Nat /\ D <= X
      /\ pl \in [T -> 1 .. X] /\ \A t, u \in T : pl[t] = pl[u] => t = u
      /\ \A x, y \in 1 .. D : d[x] = d[y] => x = y
      /\ R = {d[pl[t]] : t \in T}
  BY DEF Numbered
<1> DEFINE Q == {pl[t] : t \in T}
           E == Q \cap (1 .. D)
<1>1. IsFiniteSet(1 .. X) /\ Q \in SUBSET (1 .. X) BY <1>0, FS_Interval
<1>2. IsFiniteSet(T)
  <2>1. pl \in Injection(T, 1 .. X) BY <1>0 DEF Injection, IsInjective
  <2> QED BY <1>1, <2>1, FS_Injection
<1>3. IsFiniteSet(Q) /\ Cardinality(Q) = Cardinality(T)
  <2>1. pl \in Surjection(T, Q) BY <1>0 DEF Surjection
  <2>2. pl \in Injection(T, Q) BY <1>0 DEF Injection, IsInjective
  <2> HIDE DEF Q
  <2> QED BY <1>2, <2>1, <2>2, FS_Surjection
<1>4. R = {d[x] : x \in Q} BY <1>0
<1>5. Q \subseteq 1 .. X BY <1>1
<1> HIDE DEF Q
<1>6. IsFiniteSet(R)
  <2> DEFINE g == [x \in Q |-> d[x]]
  <2>1. g \in Surjection(Q, R) BY <1>4 DEF Surjection
  <2> HIDE DEF g
  <2> QED BY <1>3, <2>1, FS_Surjection
<1>7. /\ Cardinality(Q) \in Nat /\ Cardinality(R) \in Nat /\ IsFiniteSet(E)
      /\ Cardinality(E) \in Nat /\ Cardinality(Q \ (1 .. D)) = Cardinality(Q) - Cardinality(E)
  BY <1>3, <1>6, FS_CardinalityType, FS_Intersection, FS_Difference
<1>8. Cardinality(Q \ (1 .. D)) <= X - D
  <2>1. Q \ (1 .. D) \in SUBSET (D + 1 .. X) BY <1>0, <1>5
  <2>2. IsFiniteSet(D + 1 .. X) /\ Cardinality(D + 1 .. X) = X - D
    <3>1. /\ IsFiniteSet(D + 1 .. X)
          /\ Cardinality(D + 1 .. X) = IF D + 1 > X THEN 0 ELSE X - (D + 1) + 1
      BY <1>0, FS_Interval
    <3> QED BY <1>0, <3>1
  <2> QED BY <2>1, <2>2, FS_Subset
<1>9. Cardinality(E) <= Cardinality(R)
  <2> DEFINE h == [x \in E |-> d[x]]
  <2>1. \A x \in E : d[x] \in R BY <1>4
  <2>2. h \in [E -> R] BY <2>1
  <2>3. \A x, y \in E : h[x] = h[y] => x = y BY <1>0
  <2>4. h \in Injection(E, R) BY <2>2, <2>3 DEF Injection, IsInjective
  <2> HIDE DEF h, E
  <2> QED BY <1>6, <2>4, FS_Injection
<1>10. ASSUME NEW m \in 0 .. D, \A x \in 1 .. m : \E t \in T : pl[t] = x
       PROVE  m <= Cardinality(R)
  <2>1. 1 .. m \in SUBSET E BY <1>0, <1>10 DEF Q
  <2>2. Cardinality(1 .. m) = m
    <3>1. Cardinality(1 .. m) = IF 1 > m THEN 0 ELSE m - 1 + 1 BY <1>0, FS_Interval
    <3> QED BY <1>0, <3>1
  <2>3. m <= Cardinality(E)
    <3> HIDE DEF E
    <3> QED BY <1>7, <2>1, <2>2, FS_Subset
  <2> QED BY <1>7, <1>9, <2>3
<1> HIDE DEF E
<1>11. Cardinality(T) - Cardinality(R) <= X - D
  <2> DEFINE r == Cardinality(Q \ (1 .. D))
  <2>1. r = Cardinality(Q) - Cardinality(E) /\ r <= X - D BY <1>7, <1>8
  <2> HIDE DEF r
  <2> QED BY <1>0, <1>3, <1>7, <1>9, <2>1
<1>12. Cardinality(T) \in Nat BY <1>3, <1>7
<1> QED BY <1>7, <1>10, <1>11, <1>12 DEF Counted

(* Each process of the megatron sampler has a bucket of its own.           *)
InBuckets == args.loader = "MegatronPretrainingRandomSampler" /\ Sharding(args)

(* The list a pass deals to the processes: how many rows, how many of them *)
(* are there only to make the shares equal, and which row is at a place.   *)
DealtRows ==
    IF args.loader = "SequenceParallelSampler" THEN CeilDiv(args.samples, args.procs) * args.procs
    ELSE IF InBuckets THEN args.procs * BucketRows(args)
    ELSE PermutedRows(args)

Repeated ==
    IF args.loader = "SequenceParallelSampler"
    THEN CeilDiv(args.samples, args.procs) * args.procs - args.samples ELSE 0

DealtRow(e, x) ==
    IF args.loader = "SequenceParallelSampler" THEN order[e][((x - 1) % args.samples) + 1]
    ELSE IF InBuckets
    THEN ((x - 1) \div BucketRows(args)) * BucketRows(args)
           + order[e][((x - 1) % BucketRows(args)) + 1]
    ELSE order[e][x]

(* The place of the j-th row of the k-th batch of process p.               *)
Place(k, p, j) ==
    IF Streaming THEN ((k - 1) * args.procs + p) * args.batch_size + j
    ELSE IF InBuckets THEN p * BucketRows(args) + ((k - 1) * args.batch_size + j)
    ELSE p + (((k - 1) * args.batch_size + j) - 1) * args.procs + 1

(* The three ways of dealing.                                              *)
LEMMA PlaceCases ==
    ASSUME NEW k, NEW p, NEW j
    PROVE  /\ Streaming =>
                Place(k, p, j) = ((k - 1) * args.procs + p) * args.batch_size + j
           /\ (~Streaming /\ InBuckets) =>
                Place(k, p, j) = p * BucketRows(args) + ((k - 1) * args.batch_size + j)
           /\ (~Streaming /\ ~InBuckets) =>
                Place(k, p, j) = p + (((k - 1) * args.batch_size + j) - 1) * args.procs + 1
BY DEF Place

(* Quotient and remainder, given separately, determine a number.           *)
LEMMA PairUnique ==
    ASSUME NEW b \in Nat \ {0}, NEW q \in Nat, NEW r \in Nat, r < b,
           NEW s \in Nat, NEW t \in Nat, t < b, q * b + r = s * b + t
    PROVE  q = s /\ r = t
<1>1. (q * b + r) \div b = q /\ (q * b + r) % b = r BY DivUnique
<1>2. (s * b + t) \div b = s /\ (s * b + t) % b = t BY DivUnique
<1> QED BY <1>1, <1>2

(* So do they when they are counted from 1.                                *)
LEMMA PlaceUnique ==
    ASSUME NEW b \in Nat \ {0}, NEW k \in Nat \ {0}, NEW j \in 1 .. b,
           NEW l \in Nat \ {0}, NEW i \in 1 .. b,
           (k - 1) * b + j = (l - 1) * b + i
    PROVE  k = l /\ j = i
<1> DEFINE q == k - 1
           s == l - 1
<1>1. q \in Nat /\ s \in Nat /\ j - 1 \in Nat /\ j - 1 < b /\ i - 1 \in Nat /\ i - 1 < b
  OBVIOUS
<1>2. q * b + (j - 1) = s * b + (i - 1)
  <2> DEFINE x == q * b
             y == s * b
  <2>1. x \in Int /\ y \in Int /\ x + j = y + i BY <1>1
  <2>2. j \in Int /\ i \in Int OBVIOUS
  <2> HIDE DEF x, y
  <2>3. x + (j - 1) = y + (i - 1) BY <2>1, <2>2
  <2> QED BY <2>3 DEF x, y
<1> HIDE DEF q, s
<1>3. q = s /\ j - 1 = i - 1 BY <1>1, <1>2, PairUnique
<1>4. k = l BY <1>3 DEF q, s
<1>5. j = i BY <1>3
<1> QED BY <1>4, <1>5

(* x is the j-th of the k-th of n rounds of b.                             *)
InRounds(x, n, b) ==
    \E k \in 1 .. n, j \in 1 .. b : x = (k - 1) * b + j /\ (k - 1) * b \in Nat

(* A number from 1 on in terms of the two.                                 *)
LEMMA PlaceExists ==
    ASSUME NEW b \in Nat \ {0}, NEW n \in Nat, NEW x \in 1 .. n * b
    PROVE  InRounds(x, n, b)
<1> DEFINE y == x - 1
           q == y \div b
           r == y % b
           m == n * b
<1>1. m \in Nat /\ x \in 1 .. m BY DEF m
<1>2. y \in Nat /\ y < m /\ x = y + 1
  <2> HIDE DEF m
  <2> QED BY <1>1
<1> HIDE DEF y
<1>3. q \in Nat /\ r \in Nat /\ r < b /\ q * b \in Nat /\ y = q * b + r BY <1>2, DivMod
<1> HIDE DEF q, r
<1>4. q < n
  <2>1. q * b < n * b
    <3> DEFINE z == q * b
    <3>1. z \in Nat /\ y = z + r BY <1>3
    <3> HIDE DEF z
    <3>2. z < m
      <4> HIDE DEF m
      <4> QED BY <1>1, <1>2, <1>3, <3>1
    <3> QED BY <3>2 DEF z, m
  <2> QED BY <1>3, <2>1, TimesLess
<1>5. q + 1 \in 1 .. n /\ r + 1 \in 1 .. b BY <1>3, <1>4
<1>6. x = ((q + 1) - 1) * b + (r + 1) /\ ((q + 1) - 1) * b \in Nat
  <2>1. (q + 1) - 1 = q BY <1>3
  <2> DEFINE z == q * b
  <2>2. z \in Nat /\ y = z + r BY <1>3
  <2> HIDE DEF z
  <2>3. x = z + (r + 1) BY <1>2, <1>3, <2>2
  <2> QED BY <2>1, <2>2, <2>3 DEF z
<1> QED BY <1>5, <1>6 DEF InRounds

(* Rows at different places of a batch, a process or a step are different  *)
(* places of the list.                                                     *)
LEMMA PlacesDiffer ==
    ASSUME args \in Args, PassLength \in Nat,
           NEW k \in 1 .. PassLength, NEW p \in Procs, NEW j \in 1 .. args.batch_size,
           NEW l \in 1 .. PassLength, NEW q \in Procs, NEW i \in 1 .. args.batch_size,
           Place(k, p, j) = Place(l, q, i)
    PROVE  k = l /\ p = q /\ j = i
<1> DEFINE W == args.procs
           b == args.batch_size
           u == (k - 1) * b + j
           v == (l - 1) * b + i
<1>1. W \in Nat \ {0} /\ b \in Nat \ {0} BY ArgsFacts
<1>2. p \in Nat /\ p < W /\ q \in Nat /\ q < W BY <1>1 DEF Procs
<1>3. k \in Nat \ {0} /\ l \in Nat \ {0} /\ j \in 1 .. b /\ i \in 1 .. b OBVIOUS
<1>4. u \in Nat \ {0} /\ v \in Nat \ {0}
  <2> DEFINE x == (k - 1) * b
             y == (l - 1) * b
  <2>1. k - 1 \in Nat /\ l - 1 \in Nat BY <1>3
  <2>2. x \in Nat /\ y \in Nat BY <1>1, <2>1
  <2> HIDE DEF x, y
  <2>3. x + j \in Nat \ {0} /\ y + i \in Nat \ {0} BY <1>1, <2>2
  <2> QED BY <2>3 DEF x, y
<1> HIDE DEF W, b
<1>5. u = v => k = l /\ j = i BY <1>1, <1>3, PlaceUnique
<1>6. CASE Streaming
  <2> DEFINE x == (k - 1) * W + p
             y == (l - 1) * W + q
  <2>1. x * b + j = y * b + i
    <3>1. /\ Place(k, p, j) = ((k - 1) * args.procs + p) * args.batch_size + j
          /\ Place(l, q, i) = ((l - 1) * args.procs + q) * args.batch_size + i
      BY <1>6, PlaceCases
    <3>2. Place(k, p, j) = Place(l, q, i) OBVIOUS
    <3>3. ((k - 1) * args.procs + p) * args.batch_size + j
            = ((l - 1) * args.procs + q) * args.batch_size + i
      BY ONLY <3>1, <3>2
    <3> QED BY Zenon, <3>3 DEF W, b
  <2>2. x \in Nat /\ y \in Nat
    <3>1. k - 1 \in Nat /\ l - 1 \in Nat BY <1>3
    <3> QED BY <1>1, <1>2, <3>1
  <2> HIDE DEF x, y
  <2>3. (x + 1) \in Nat \ {0} /\ (y + 1) \in Nat \ {0} /\ (x + 1) - 1 = x /\ (y + 1) - 1 = y
    BY <2>2
  <2> DEFINE x1 == x + 1
             y1 == y + 1
  <2>4. x1 \in Nat \ {0} /\ y1 \in Nat \ {0} /\ (x1 - 1) * b + j = (y1 - 1) * b + i
    BY <2>1, <2>3
  <2> HIDE DEF x1, y1
  <2>5. x1 = y1 /\ j = i BY <1>1, <1>3, <2>4, PlaceUnique
  <2>6. x = y BY <2>2, <2>5 DEF x1, y1
  <2>7. k - 1 \in Nat /\ l - 1 \in Nat BY <1>3
  <2>8. k - 1 = l - 1 /\ p = q BY <1>1, <1>2, <2>6, <2>7, PairUnique DEF x, y
  <2> QED BY <1>3, <2>5, <2>8
<1>7. CASE InBuckets
  <2> DEFINE B == BucketRows(args)
  <2>1. ~Streaming BY <1>7 DEF Streaming, InBuckets
  <2>2. p * B + u = q * B + v
    <3>1. Place(k, p, j) = p * BucketRows(args) + ((k - 1) * args.batch_size + j) BY <1>7, <2>1, PlaceCases
    <3>2. Place(l, q, i) = q * BucketRows(args) + ((l - 1) * args.batch_size + i) BY <1>7, <2>1, PlaceCases
    <3>3. Place(k, p, j) = Place(l, q, i) OBVIOUS
    <3> QED BY ONLY <3>1, <3>2, <3>3 DEF b
  <2>3. PassLength = args.samples \div GlobalBatch
    <3>1. ~Transformers BY <1>7 DEF Transformers, InBuckets
    <3> QED BY <2>1, <3>1, ActiveSamples DEF PassLength
  <2>4. B = PassLength * b BY <1>7, <2>3, BucketFacts DEF b, InBuckets
  <2> HIDE DEF B
  <2>5. ASSUME NEW n \in 1 .. PassLength, NEW t \in 1 .. b
        PROVE  (n - 1) * b + t <= B /\ B \in Nat
    <3>1. n \in Nat /\ n <= PassLength OBVIOUS
    <3>2. n * b <= PassLength * b /\ n * b \in Nat /\ PassLength * b \in Nat
      BY <1>1, <3>1, TimesMonotone
    <3>3. (n - 1) * b = n * b - b BY <1>1, <3>1
    <3> DEFINE x == n * b
               y == (n - 1) * b
    <3>4. x <= B /\ x \in Nat /\ B \in Nat /\ y = x - b BY <2>4, <3>2, <3>3
    <3> HIDE DEF x, y
    <3>5. y + t <= B BY <1>1, <3>4
    <3> QED BY <3>4, <3>5 DEF y
  <2>6. u <= B /\ v <= B /\ B \in Nat BY <1>3, <2>5
  <2> HIDE DEF u, v
  <2>7. p + 1 \in Nat \ {0} /\ q + 1 \in Nat \ {0} /\ (p + 1) - 1 = p /\ (q + 1) - 1 = q
        /\ u \in 1 .. B /\ v \in 1 .. B /\ B \in Nat \ {0}
    BY <1>2, <1>4, <2>6
  <2> DEFINE p1 == p + 1
             q1 == q + 1
  <2>8. p1 \in Nat \ {0} /\ q1 \in Nat \ {0} /\ (p1 - 1) * B + u = (q1 - 1) * B + v
    BY <2>2, <2>7
  <2> HIDE DEF p1, q1
  <2>9. p1 = q1 /\ u = v BY <2>7, <2>8, PlaceUnique
  <2>10. p = q BY <1>2, <2>9 DEF p1, q1
  <2> QED BY <1>5, <2>9, <2>10
<1>8. CASE ~Streaming /\ ~InBuckets
  <2>1. p + (u - 1) * W + 1 = q + (v - 1) * W + 1
    <3>1. Place(k, p, j) = p + (((k - 1) * args.batch_size + j) - 1) * args.procs + 1 BY <1>8, PlaceCases
    <3>2. Place(l, q, i) = q + (((l - 1) * args.batch_size + i) - 1) * args.procs + 1 BY <1>8, PlaceCases
    <3>3. Place(k, p, j) = Place(l, q, i) OBVIOUS
    <3> QED BY ONLY <3>1, <3>2, <3>3 DEF W, b
  <2> HIDE DEF u, v
  <2>2. u - 1 \in Nat /\ v - 1 \in Nat BY <1>4
  <2> DEFINE x == (u - 1) * W
             y == (v - 1) * W
  <2>3. x \in Nat /\ y \in Nat /\ p + x + 1 = q + y + 1 BY <1>1, <2>1, <2>2
  <2> HIDE DEF x, y
  <2>4. x + p = y + q BY <1>2, <2>3
  <2>5. u - 1 = v - 1 /\ p = q BY <1>1, <1>2, <2>2, <2>4, PairUnique DEF x, y
  <2>6. u = v BY <1>4, <2>5
  <2> QED BY <1>5, <2>5, <2>6
<1> QED BY <1>6, <1>7, <1>8

(* w is the k-th batch of what process p gets of a list dealt one by one.  *)
StridedBatch(w, list, k, p, W, b) ==
    /\ Len(w) <= b
    /\ \A j \in 1 .. Len(w) :
         /\ p + (((k - 1) * b + j) - 1) * W + 1 \in 1 .. Len(list)
         /\ w[j] = list[p + (((k - 1) * b + j) - 1) * W + 1]
    /\ \A j \in 1 .. b : p + (((k - 1) * b + j) - 1) * W + 1 <= Len(list) => j <= Len(w)

(* v is the stride from p on in steps of W.                                *)
OnStride(v, S, list, p, W) ==
    /\ v \in Seq(S) /\ Len(v) \in Nat /\ Len(list) <= p + Len(v) * W
    /\ \A i \in 1 .. Len(v) :
         /\ (i - 1) * W \in Nat
         /\ p + (i - 1) * W + 1 \in 1 .. Len(list)
         /\ v[i] = list[p + (i - 1) * W + 1]

(* StrideFacts in one formula.                                             *)
LEMMA StrideForm ==
    ASSUME NEW S, NEW list \in Seq(S), NEW rank \in Nat, NEW procs \in Nat \ {0}
    PROVE  OnStride(Stride(list, rank, procs), S, list, rank, procs)
<1> DEFINE v == Stride(list, rank, procs)
<1>1. /\ v \in Seq(S) /\ Len(v) \in Nat /\ Len(list) <= rank + Len(v) * procs
      /\ \A k \in 1 .. Len(v) :
           /\ (k - 1) * procs \in Nat
           /\ rank + (k - 1) * procs + 1 \in 1 .. Len(list)
           /\ v[k] = list[rank + (k - 1) * procs + 1]
  BY StrideFacts
<1> HIDE DEF v
<1>2. OnStride(v, S, list, rank, procs) BY <1>1, Zenon DEF OnStride
<1> QED BY <1>2 DEF v

(* A stride cut into batches.                                              *)
LEMMA StridedBatches ==
    ASSUME NEW S, NEW list \in Seq(S), NEW W \in Nat \ {0}, NEW p \in 0 .. W - 1,
           NEW b \in Nat \ {0}, NEW drop \in BOOLEAN,
           NEW u, u = Batched(Stride(list, p, W), b, drop), NEW k \in 1 .. Len(u)
    PROVE  StridedBatch(u[k], list, k, p, W, b)
<1> DEFINE v == Stride(list, p, W)
           x == (k - 1) * b
           w == u[k]
<1>1. p \in Nat OBVIOUS
<1>2. /\ v \in Seq(S) /\ Len(v) \in Nat /\ Len(list) <= p + Len(v) * W
      /\ \A i \in 1 .. Len(v) :
           /\ (i - 1) * W \in Nat
           /\ p + (i - 1) * W + 1 \in 1 .. Len(list)
           /\ v[i] = list[p + (i - 1) * W + 1]
  <2>1. OnStride(v, S, list, p, W) BY <1>1, StrideForm
  <2> HIDE DEF x, w, v
  <2> QED BY <2>1, Zenon DEF OnStride
<1>3. u = Batched(v, b, drop) OBVIOUS
<1> HIDE DEF v
<1>4. Parts(u, v, b) /\ Len(u) \in Nat BY <1>2, <1>3, BatchedFacts
<1>5. /\ x \in Nat /\ Len(w) = Lesser(b, Len(v) - x)
      /\ \A t \in 1 .. Len(w) : x + t \in 1 .. Len(v) /\ w[t] = v[x + t]
  BY <1>4 DEF Parts
<1> HIDE DEF x, w
<1>6. Len(w) <= b BY <1>2, <1>5 DEF Lesser
<1>7. ASSUME NEW j \in 1 .. Len(w)
      PROVE  /\ p + ((x + j) - 1) * W + 1 \in 1 .. Len(list)
             /\ w[j] = list[p + ((x + j) - 1) * W + 1]
  <2> DEFINE i == x + j
  <2>1. i \in 1 .. Len(v) /\ w[j] = v[i] BY <1>5
  <2> HIDE DEF i
  <2>2. p + (i - 1) * W + 1 \in 1 .. Len(list) /\ v[i] = list[p + (i - 1) * W + 1]
    BY <1>2, <2>1
  <2> QED BY <2>1, <2>2 DEF i
<1>8. ASSUME NEW j \in 1 .. b, p + ((x + j) - 1) * W + 1 <= Len(list)
      PROVE  j <= Len(w)
  <2> DEFINE i == (x + j) - 1
             y == i * W
             z == Len(v) * W
  <2>1. i \in Nat /\ Len(list) \in Nat BY <1>5, LenFacts
  <2>2. y \in Nat /\ z \in Nat /\ p + y + 1 <= Len(list) /\ Len(list) <= p + z
    BY <1>2, <1>8, <2>1
  <2>3. y < z
    <3> HIDE DEF y, z
    <3> QED BY <1>1, <2>1, <2>2
  <2> HIDE DEF i
  <2>4. i < Len(v) BY <1>2, <2>1, <2>3, TimesLess
  <2>5. j <= Len(v) - x /\ j <= b /\ j \in Nat BY <1>2, <1>5, <2>1, <2>4 DEF i
  <2> QED BY <1>5, <2>5 DEF Lesser
<1> QED BY <1>6, <1>7, <1>8 DEF StridedBatch, x, w

(* w holds the rows of its places, all that the dealt list has.            *)
Dealt(w, k, p, e) ==
    /\ Len(w) <= args.batch_size
    /\ \A j \in 1 .. Len(w) :
         Place(k, p, j) \in 1 .. DealtRows /\ w[j] = DealtRow(e, Place(k, p, j))
    /\ \A j \in 1 .. args.batch_size : Place(k, p, j) <= DealtRows => j <= Len(w)

(* A batch of a list dealt one by one does.                                *)
LEMMA DealtOneByOne ==
    ASSUME ~Streaming, ~InBuckets, NEW w, NEW k, NEW p, NEW e, NEW list,
           Len(list) = DealtRows, \A x \in 1 .. DealtRows : list[x] = DealtRow(e, x),
           StridedBatch(w, list, k, p, args.procs, args.batch_size)
    PROVE  Dealt(w, k, p, e)
<1> DEFINE at(j) == p + (((k - 1) * args.batch_size + j) - 1) * args.procs + 1
<1>1. \A j : Place(k, p, j) = at(j) BY PlaceCases
<1>2. /\ Len(w) <= args.batch_size
      /\ \A j \in 1 .. Len(w) : at(j) \in 1 .. Len(list) /\ w[j] = list[at(j)]
      /\ \A j \in 1 .. args.batch_size : at(j) <= Len(list) => j <= Len(w)
  BY DEF StridedBatch
<1> HIDE DEF at
<1> QED BY <1>1, <1>2 DEF Dealt

(* The batches of BatchSamplerShard.                                       *)
LEMMA ShardDealt ==
    ASSUME Orders, args.loader = "BatchSamplerShard", NEW p \in Procs, NEW e \in Seeds,
           NEW k \in 1 .. Len(shard_batches(p, e))
    PROVE  Dealt(shard_batches(p, e)[k], k, p, e)
<1> DEFINE f == order[e]
           W == args.procs
           b == args.batch_size
           u == shard_batches(p, e)
           T == 0 .. PermutedRows(args) - 1
<1>1. W \in Nat \ {0} /\ b \in Nat \ {0} /\ args.drop_last \in BOOLEAN /\ p \in 0 .. W - 1
  BY ArgsFacts DEF Orders
<1>2. f \in Seq(T) /\ Len(f) = PermutedRows(args) BY DEF Orders, OrderInv
<1>3. u = Batched(Stride(f, p, W), b, args.drop_last) BY DEF shard_batches
<1>4. ~Streaming /\ ~InBuckets /\ DealtRows = PermutedRows(args)
  BY DEF Streaming, InBuckets, DealtRows
<1>5. \A x : f[x] = DealtRow(e, x) BY <1>4 DEF DealtRow
<1>6. k \in 1 .. Len(u) OBVIOUS
<1> HIDE DEF f, u, T
<1>7. StridedBatch(u[k], f, k, p, W, b) BY <1>1, <1>2, <1>3, <1>6, StridedBatches
<1>8. Dealt(u[k], k, p, e) BY <1>2, <1>4, <1>5, <1>7, DealtOneByOne
<1> QED BY <1>8 DEF u

(* The batches of SequenceParallelSampler.                                 *)
LEMMA SequenceParallelDealt ==
    ASSUME Orders, args.loader = "SequenceParallelSampler", NEW p \in Procs, NEW e \in Seeds,
           NEW k \in 1 .. Len(sp_batches(p, e))
    PROVE  Dealt(sp_batches(p, e)[k], k, p, e)
<1> DEFINE W == args.procs
           b == args.batch_size
           u == sp_batches(p, e)
           n == CeilDiv(args.samples, W) * W
           f == [i \in 1 .. n |-> order[e][((i - 1) % args.samples) + 1]]
           T == {f[i] : i \in 1 .. n}
<1>1. W \in Nat \ {0} /\ b \in Nat \ {0} /\ args.drop_last \in BOOLEAN /\ p \in 0 .. W - 1
      /\ args.samples \in Nat
  BY ArgsFacts DEF Orders
<1>2. n \in Nat BY <1>1, CeilDivFacts
<1>3. u = Batched(Stride(f, p, W), b, args.drop_last) BY DEF sp_batches
<1>4. ~Streaming /\ ~InBuckets /\ DealtRows = n
  BY DEF Streaming, InBuckets, DealtRows
<1>5. \A x \in 1 .. n : f[x] = DealtRow(e, x) BY DEF DealtRow
<1>6. k \in 1 .. Len(u) OBVIOUS
<1> HIDE DEF n
<1>7. f \in Seq(T) /\ Len(f) = n
  <2>1. f \in [1 .. n -> T] OBVIOUS
  <2> HIDE DEF f, T
  <2> QED BY <1>2, <2>1
<1> HIDE DEF f, u, T
<1>8. StridedBatch(u[k], f, k, p, W, b) BY <1>1, <1>3, <1>6, <1>7, StridedBatches
<1>9. Dealt(u[k], k, p, e) BY <1>4, <1>5, <1>7, <1>8, DealtOneByOne
<1> QED BY <1>9 DEF u

(* The batches of the dispatchers.                                         *)
LEMMA DispatchedDealt ==
    ASSUME Orders, Streaming, NEW p \in Procs, NEW k \in 1 .. Len(dispatched_batches(p))
    PROVE  Dealt(dispatched_batches(p)[k], k, p, 0)
<1> DEFINE W == args.procs
           b == args.batch_size
           f == order[0]
           base == Batched(f, b, FALSE)
           n == Len(base) \div W
           D == [i \in 1 .. n |-> base[(i - 1) * W + p + 1]]
           i == (k - 1) * W + p
           m == i + 1
           T == 0 .. PermutedRows(args) - 1
<1>1. W \in Nat \ {0} /\ b \in Nat \ {0} /\ p \in 0 .. W - 1 /\ p \in Nat /\ 0 \in Seeds
  BY ArgsFacts DEF Orders
<1>2. f \in Seq(T) /\ Len(f) = PermutedRows(args) BY <1>1 DEF Orders, OrderInv
<1>3. ~InBuckets /\ DealtRows = PermutedRows(args) /\ \A x : f[x] = DealtRow(0, x)
  <2>1. ~InBuckets /\ args.loader # "SequenceParallelSampler" BY DEF Streaming, InBuckets
  <2>2. DealtRows = PermutedRows(args) BY <2>1 DEF DealtRows
  <2>3. \A x : f[x] = DealtRow(0, x) BY <2>1 DEF DealtRow
  <2> QED BY <2>1, <2>2, <2>3
<1>4. dispatched_batches(p) = D BY DEF dispatched_batches
<1>5. \A j : Place(k, p, j) = i * b + j BY PlaceCases
<1> HIDE DEF f, T
<1>6. Len(base) \in Nat /\ Parts(base, f, b) BY <1>1, <1>2, BatchedFacts
<1> HIDE DEF base
<1>7. n \in Nat /\ n * W \in Nat /\ n * W <= Len(base) BY <1>1, <1>6, DivFacts
<1> HIDE DEF n
<1>8. Len(D) = n BY <1>7
<1>9. k \in 1 .. n /\ dispatched_batches(p)[k] = base[(k - 1) * W + p + 1] BY <1>4, <1>8
<1> HIDE DEF D
<1>10. i \in Nat /\ m \in 1 .. Len(base) /\ (k - 1) * W + p + 1 = m
  <2>0. k \in Nat /\ k <= n /\ k - 1 \in Nat /\ W \in Nat BY <1>1, <1>7, <1>9
  <2>1. k * W <= n * W /\ k * W \in Nat BY <1>7, <2>0, TimesMonotone
  <2>2. (k - 1) * W = k * W - W /\ (k - 1) * W \in Nat
    <3> HIDE DEF W
    <3> QED BY <2>0
  <2> DEFINE x == (k - 1) * W
             y == k * W
             z == n * W
  <2>3. x = y - W /\ y <= z /\ z <= Len(base) /\ x \in Nat /\ y \in Nat /\ z \in Nat
    BY <1>7, <2>1, <2>2
  <2>4. i = x + p OBVIOUS
  <2> HIDE DEF W, x, y, z, i
  <2>5. i \in Nat /\ m \in 1 .. Len(base) /\ x + p + 1 = m BY <1>1, <1>6, <2>3, <2>4
  <2> QED BY <2>5 DEF x
<1> DEFINE w == base[m]
<1>11. dispatched_batches(p)[k] = w BY <1>9, <1>10
<1>12. m - 1 = i BY <1>10
<1> HIDE DEF m
<1>13. /\ Len(w) = Lesser(b, Len(f) - i * b)
       /\ i * b \in Nat
       /\ \A t \in 1 .. Len(w) : i * b + t \in 1 .. Len(f) /\ w[t] = f[i * b + t]
  BY <1>6, <1>10, <1>12 DEF Parts
<1> DEFINE x == i * b
<1> HIDE DEF w, x, i
<1>14. Len(f) \in Nat BY <1>2, LenFacts
<1>15. Len(w) <= b BY <1>1, <1>13, <1>14 DEF Lesser, x
<1>16. ASSUME NEW j \in 1 .. b, x + j <= Len(f) PROVE j <= Len(w)
  <2>1. x \in Nat /\ Len(w) = Lesser(b, Len(f) - x) BY <1>13 DEF x
  <2> QED BY <1>1, <1>14, <1>16, <2>1 DEF Lesser
<1>17. Dealt(w, k, p, 0) BY <1>2, <1>3, <1>5, <1>13, <1>15, <1>16 DEF Dealt, x
<1> QED BY <1>11, <1>17

(* The batches of a whole pass of the megatron sampler.                    *)
LEMMA MegatronDealt ==
    ASSUME Orders, args.loader = "MegatronPretrainingRandomSampler", ~UnevenPass,
           NEW N, N = args.samples \div GlobalBatch, N # 0,
           NEW p \in Procs, NEW e \in Seeds, NEW k \in 1 .. N
    PROVE  Dealt(WholePass(p, e)[k], k, p, e)
<1> DEFINE W == args.procs
           b == args.batch_size
           A == active_total_samples
           u == WholePass(p, e)
           r == MegatronRange(p, e, 0)
           f == order[e]
<1>1. W \in Nat \ {0} /\ b \in Nat \ {0} /\ p \in 0 .. W - 1 /\ p \in Nat /\ args \in Args
      /\ GlobalBatch \in Nat \ {0}
  BY ArgsFacts DEF Orders
<1>2. N \in Nat \ {0} /\ A = N * GlobalBatch BY <1>1, ActiveSamples
<1>3. A \in Nat \ {0}
  <2>1. \A x, y \in Nat \ {0} : x * y \in Nat \ {0} OBVIOUS
  <2> QED BY <1>1, <1>2, <2>1
<1> HIDE DEF A
<1>4. e \in Nat /\ 0 \in Nat /\ 0 < A BY <1>3 DEF Seeds
<1>5. e * A \in Nat /\ (e * A) \div A = e /\ (e * A) % A = 0
  <2>1. (e * A + 0) \div A = e /\ (e * A + 0) % A = 0 BY <1>3, <1>4, DivUnique
  <2>2. e * A \in Nat BY <1>3, <1>4
  <2>3. e * A + 0 = e * A BY <2>2
  <2> QED BY <2>1, <2>2, <2>3
<1>6. u = megatron_batches(p, e * A) BY DEF WholePass, A
<1>7. u = Batched(r, b, TRUE)
  <2> DEFINE x == e * A
  <2>1. x \in Nat /\ x \div A = e /\ x % A = 0 BY <1>5
  <2> HIDE DEF x
  <2>2. megatron_batches(p, x) = Batched(MegatronRange(p, x \div A, x % A), b, TRUE)
    BY <1>3, <2>1, MegatronBatches DEF A
  <2>3. u = megatron_batches(p, x) BY <1>6 DEF x
  <2> QED BY <2>1, <2>2, <2>3
<1>8. r \in Seq(Rows) BY <1>3, <1>4, MegatronRangeType DEF A
<1>9. Len(u) = N
  <2> DEFINE o == e * N
  <2>1. N \in Nat \ {0} /\ e \in Nat /\ 0 \in Nat /\ 0 < N BY <1>2, <1>4
  <2>2. (e * N + 0) \div N = e BY ONLY <2>1, DivUnique
  <2>3. o \in Nat /\ o + 0 = o BY ONLY <2>1
  <2>4. o \in Nat /\ o \div N = e BY <2>2, <2>3
  <2> HIDE DEF o
  <2> QED BY <2>4, MegatronSuffix
<1>10. ~Streaming BY DEF Streaming
<1>11. CASE InBuckets
  <2> DEFINE B == BucketRows(args)
             x == (k - 1) * b
             w == u[k]
  <2>1. Sharding(args) BY <1>11 DEF InBuckets
  <2>2. /\ B \in Nat /\ B = N * b /\ Len(f) = B
        /\ f \in Seq(0 .. PermutedRows(args) - 1)
    BY <1>1, <2>1, BucketFacts, MegatronOrder DEF Orders
  <2>3. Len(r) = B /\ \A i \in 1 .. Len(r) : r[i] = p * B + f[i]
    <3>1. 0 \div W = 0
      <4>1. W \in Nat \ {0} /\ 0 \in Nat /\ 0 < W BY <1>1
      <4> HIDE DEF W
      <4> QED BY ONLY <4>1
    <3>2. r = [i \in 1 .. B - 0 |-> p * B + f[0 + i]] BY <2>1, <3>1 DEF MegatronRange
    <3>3. B - 0 = B /\ \A i \in 1 .. B : 0 + i = i BY <2>2
    <3>4. r = [i \in 1 .. B |-> p * B + f[0 + i]] BY <3>2, <3>3
    <3> HIDE DEF B, r, f
    <3>5. Len(r) = B BY <2>2, <3>4
    <3> QED BY <3>3, <3>4, <3>5
  <2>4. WholeParts(u, r, b, N)
    <3> DEFINE y == N * b
    <3>1. y \in Nat /\ y <= Len(r) /\ Len(r) < y + b BY <1>1, <1>2, <2>2, <2>3
    <3>2. N \in Nat BY <1>2
    <3> HIDE DEF r, u
    <3> QED BY <1>1, <1>7, <1>8, <3>1, <3>2, FullBatches
  <2>5. Len(w) = b /\ \A t \in 1 .. b : x + t \in 1 .. Len(r) /\ w[t] = r[x + t]
    BY <2>4 DEF WholeParts
  <2>6. \A j : Place(k, p, j) = p * B + (x + j) BY <1>10, <1>11, PlaceCases
  <2>7. DealtRows = W * B BY <1>11 DEF DealtRows, InBuckets
  <2>8. \A y : DealtRow(e, y) = ((y - 1) \div B) * B + f[((y - 1) % B) + 1]
    BY <1>11 DEF DealtRow, InBuckets
  <2> HIDE DEF B, x, w, r, u, f
  <2> DEFINE at(j) == p * B + (x + j)
  <2>9. ASSUME NEW j \in 1 .. b
        PROVE  /\ at(j) \in 1 .. W * B
               /\ w[j] = ((at(j) - 1) \div B) * B + f[((at(j) - 1) % B) + 1]
    <3> DEFINE i == x + j
               y == p * B
    <3>1. i \in 1 .. B /\ w[j] = y + f[i]
      <4>1. i \in 1 .. Len(r) /\ w[j] = r[i] BY <2>5
      <4> HIDE DEF i
      <4> QED BY <2>3, <4>1
    <3> HIDE DEF i
    <3>2. B \in Nat \ {0} /\ i - 1 \in Nat /\ i - 1 < B /\ i \in Nat BY <2>2, <3>1
    <3>3. (y + (i - 1)) \div B = p /\ (y + (i - 1)) % B = i - 1 BY <1>1, <3>2, DivUnique
    <3>4. p + 1 \in Nat /\ p + 1 <= W /\ W \in Nat BY <1>1
    <3>5. (p + 1) * B <= W * B /\ W * B \in Nat BY <2>2, <3>4, TimesMonotone
    <3>6. (p + 1) * B = y + B /\ y \in Nat BY <1>1, <2>2
    <3> DEFINE z == W * B
    <3>7. z \in Nat /\ y + B <= z BY <3>5, <3>6
    <3> HIDE DEF z
    <3>8. y + i - 1 = y + (i - 1) /\ (i - 1) + 1 = i /\ y + i \in 1 .. z
      <4> HIDE DEF y
      <4> QED BY <2>2, <3>1, <3>2, <3>6, <3>7
    <3>9. w[j] = p * B + f[i] BY <3>1
    <3> HIDE DEF y
    <3> DEFINE c == at(j)
    <3>10. c = y + i BY DEF y, i
    <3>11. z = W * B BY DEF z
    <3> HIDE DEF c, at
    <3>12. c \in 1 .. W * B BY <3>8, <3>10, <3>11
    <3>13. c - 1 = y + (i - 1) BY <3>2, <3>6, <3>10
    <3>14. (c - 1) \div B = p /\ ((c - 1) % B) + 1 = i BY <3>3, <3>8, <3>13
    <3>15. w[j] = ((c - 1) \div B) * B + f[((c - 1) % B) + 1] BY <3>9, <3>14
    <3> QED BY <3>12, <3>15 DEF c
  <2>10. \A j \in 1 .. b : Place(k, p, j) \in 1 .. DealtRows /\ w[j] = DealtRow(e, Place(k, p, j))
    <3> TAKE j \in 1 .. b
    <3>1. Place(k, p, j) = at(j) BY <2>6
    <3> HIDE DEF at
    <3> QED BY <2>7, <2>8, <2>9, <3>1
  <2>11. Len(w) = b /\ b \in Nat BY <1>1, <2>5
  <2>12. Dealt(w, k, p, e)
    <3> HIDE DEF W
    <3> QED BY <2>10, <2>11 DEF Dealt
  <2> QED BY <2>12 DEF w, u
<1>12. CASE ~InBuckets
  <2> DEFINE s == Slice(f, 0, Len(f))
  <2>1. ~Sharding(args) BY <1>12 DEF InBuckets
  <2>2. f \in Seq(Rows) /\ Len(f) \in Nat BY <2>1, MegatronOrder
  <2>3. r = Stride(s, p, W) BY <2>1 DEF MegatronRange
  <2>4. s \in Seq(Rows) /\ Len(s) = Len(f) /\ \A i \in 1 .. Len(s) : s[i] = f[i]
    <3> HIDE DEF f
    <3> DEFINE l == Len(f)
    <3>1. Lesser(l, l) = l BY DEF Lesser
    <3>0. 0 \in Nat /\ l \in Nat BY <2>2
    <3> HIDE DEF l
    <3>2. /\ Slice(f, 0, l) \in Seq(Rows)
          /\ Len(Slice(f, 0, l)) =
               IF 0 <= Lesser(l, Len(f)) THEN Lesser(l, Len(f)) - 0 ELSE 0
          /\ \A i \in 1 .. Len(Slice(f, 0, l)) : Slice(f, 0, l)[i] = f[0 + i]
      BY <2>2, <3>0, SliceFacts
    <3>3. s = Slice(f, 0, l) /\ l = Len(f) BY DEF l
    <3> HIDE DEF s
    <3> QED BY <2>2, <3>1, <3>2, <3>3
  <2>5. DealtRows = PermutedRows(args) /\ Len(f) = PermutedRows(args)
    BY <1>12 DEF DealtRows, Orders, OrderInv
  <2>6. \A i : f[i] = DealtRow(e, i) BY <1>12 DEF DealtRow
  <2> HIDE DEF s, r, f, u
  <2>7. u = Batched(Stride(s, p, W), b, TRUE) /\ k \in 1 .. Len(u) BY <1>7, <1>9, <2>3
  <2>8. StridedBatch(u[k], s, k, p, W, b) BY <1>1, <2>4, <2>7, StridedBatches
  <2>9. Dealt(u[k], k, p, e) BY <1>10, <1>12, <2>4, <2>5, <2>6, <2>8, DealtOneByOne
  <2> QED BY <2>9 DEF u
<1> QED BY <1>11, <1>12

(* So do all batches that are trained on.                                  *)
LEMMA PassDealt ==
    ASSUME Orders, ~UnevenPass, PassLength \in Nat \ {0}, NEW p \in Procs, NEW e \in Seeds,
           Streaming => e = 0, NEW k \in 1 .. PassLength
    PROVE  Dealt(WholePass(p, e)[k], k, p, e)
<1> DEFINE w == WholePass(p, e)
<1>1. args \in Args /\ args.loader \in Loaders BY ArgsFacts DEF Orders
<1>2. Len(w) \in Nat /\ PassLength <= Len(w) BY PassFacts
<1> HIDE DEF w
<1>3. k \in 1 .. Len(w) BY <1>2
<1>4. CASE args.loader = "BatchSamplerShard"
  <2>1. w = shard_batches(p, e) BY <1>4 DEF WholePass, w
  <2> QED BY <1>3, <1>4, <2>1, ShardDealt DEF w
<1>5. CASE args.loader = "SequenceParallelSampler"
  <2>1. w = sp_batches(p, e) BY <1>5 DEF WholePass, w
  <2> QED BY <1>3, <1>5, <2>1, SequenceParallelDealt DEF w
<1>6. CASE args.loader = "MegatronPretrainingRandomSampler"
  <2> DEFINE N == args.samples \div GlobalBatch
  <2>1. ~Streaming /\ ~Transformers BY <1>6 DEF Streaming, Transformers
  <2>2. PassLength = N BY <1>1, <2>1, ActiveSamples DEF PassLength
  <2>3. N # 0 /\ k \in 1 .. N BY <2>2
  <2> QED BY <1>6, <2>3, MegatronDealt
<1>7. CASE Streaming
  <2>1. w = dispatched_batches(p) BY <1>7 DEF WholePass, Streaming, w
  <2> QED BY <1>3, <1>7, <2>1, DispatchedDealt DEF w
<1> QED BY <1>1, <1>4, <1>5, <1>6, <1>7 DEF Loaders, Streaming

(* The batches of a pass cover the list from its beginning.                *)
LEMMA PlacesCover ==
    ASSUME args \in Args, PassLength \in Nat \ {0}, NEW x \in 1 .. PassLength * GlobalBatch
    PROVE  \E k \in 1 .. PassLength, p \in Procs, j \in 1 .. args.batch_size : Place(k, p, j) = x
<1> DEFINE W == args.procs
           b == args.batch_size
           P == PassLength
<1>1. W \in Nat \ {0} /\ b \in Nat \ {0} BY ArgsFacts
<1> HIDE DEF P
<1>2. P \in Nat \ {0} BY DEF P
<1>3. P * GlobalBatch = (P * W) * b /\ P * GlobalBatch = (P * b) * W
      /\ P * GlobalBatch = W * (P * b) /\ P * b \in Nat \ {0} /\ P * W \in Nat \ {0}
  <2> HIDE DEF W, b
  <2>1. GlobalBatch = W * b BY DEF GlobalBatch, W, b
  <2>2. P * (W * b) = (P * W) * b /\ P * (W * b) = (P * b) * W /\ P * (W * b) = W * (P * b)
    BY <1>1, <1>2
  <2>3. \A m, n \in Nat \ {0} : m * n \in Nat \ {0} OBVIOUS
  <2> QED BY <1>1, <1>2, <2>1, <2>2, <2>3
<1>4. \A q \in 1 .. W : q - 1 \in Procs /\ q = (q - 1) + 1 /\ q - 1 \in Nat BY <1>1 DEF Procs
<1>5. CASE Streaming
  <2> DEFINE n == P * W
  <2>1. n \in Nat /\ x \in 1 .. n * b BY <1>3 DEF P
  <2> HIDE DEF n
  <2>2. PICK y \in 1 .. n, j \in 1 .. b : x = (y - 1) * b + j
    <3>1. InRounds(x, n, b) BY <1>1, <2>1, PlaceExists
    <3> QED BY <3>1 DEF InRounds
  <2>3. y \in 1 .. P * W BY DEF n
  <2>4. PICK k \in 1 .. P, q \in 1 .. W : y = (k - 1) * W + q /\ (k - 1) * W \in Nat
    <3>1. InRounds(y, P, W) BY <1>1, <1>2, <2>3, PlaceExists
    <3> QED BY <3>1 DEF InRounds
  <2>5. y - 1 = (k - 1) * W + (q - 1)
    <3> DEFINE z == (k - 1) * W
    <3>1. y = z + q /\ z \in Nat BY <2>4
    <3> HIDE DEF z
    <3>2. y - 1 = z + (q - 1) BY <1>4, <3>1
    <3> QED BY <3>2 DEF z
  <2>6. Place(k, q - 1, j) = ((k - 1) * W + (q - 1)) * b + j BY <1>5, PlaceCases
  <2>7. Place(k, q - 1, j) = x BY <2>2, <2>5, <2>6
  <2> QED BY <1>4, <2>7 DEF P
<1>6. CASE ~Streaming /\ InBuckets
  <2> DEFINE B == BucketRows(args)
  <2>1. ~Transformers BY <1>6 DEF Transformers, InBuckets
  <2>2. P = args.samples \div GlobalBatch BY <1>6, <2>1, ActiveSamples DEF PassLength, P
  <2>3. B = P * b BY <1>6, <2>2, BucketFacts DEF InBuckets
  <2>4. \A k, p, j : Place(k, p, j) = p * B + ((k - 1) * b + j) BY <1>6, PlaceCases
  <2> HIDE DEF B
  <2>5. B \in Nat \ {0} /\ W \in Nat /\ x \in 1 .. W * B BY <1>1, <1>3, <2>3 DEF P
  <2>6. PICK q \in 1 .. W, i \in 1 .. B : x = (q - 1) * B + i
    <3>1. InRounds(x, W, B) BY <2>5, PlaceExists
    <3> QED BY <3>1 DEF InRounds
  <2>7. i \in 1 .. P * b BY <2>3
  <2>8. PICK k \in 1 .. P, j \in 1 .. b : i = (k - 1) * b + j
    <3>1. InRounds(i, P, b) BY <1>1, <1>2, <2>7, PlaceExists
    <3> QED BY <3>1 DEF InRounds
  <2>9. Place(k, q - 1, j) = x BY <2>4, <2>6, <2>8
  <2> QED BY <1>4, <2>9 DEF P
<1>7. CASE ~Streaming /\ ~InBuckets
  <2> DEFINE n == P * b
  <2>1. n \in Nat /\ x \in 1 .. n * W BY <1>3 DEF P
  <2>2. \A k, p, j : Place(k, p, j) = p + (((k - 1) * b + j) - 1) * W + 1 BY <1>7, PlaceCases
  <2> HIDE DEF n
  <2>3. PICK i \in 1 .. n, q \in 1 .. W : x = (i - 1) * W + q /\ (i - 1) * W \in Nat
    <3>1. InRounds(x, n, W) BY <1>1, <2>1, PlaceExists
    <3> QED BY <3>1 DEF InRounds
  <2>4. i \in 1 .. P * b BY DEF n
  <2>5. PICK k \in 1 .. P, j \in 1 .. b : i = (k - 1) * b + j
    <3>1. InRounds(i, P, b) BY <1>1, <1>2, <2>4, PlaceExists
    <3> QED BY <3>1 DEF InRounds
  <2>6. x = (q - 1) + (i - 1) * W + 1
    <3> DEFINE z == (i - 1) * W
    <3>1. x = z + q /\ z \in Nat BY <2>3
    <3> HIDE DEF z
    <3>2. x = (q - 1) + z + 1 BY <1>4, <3>1
    <3> QED BY <3>2 DEF z
  <2>7. Place(k, q - 1, j) = x BY <2>2, <2>5, <2>6
  <2> QED BY <1>4, <2>7 DEF P
<1> QED BY <1>5, <1>6, <1>7

(* The list holds different rows, but for those repeated at its end.       *)
LEMMA DealtDifferent ==
    ASSUME Orders, NEW e \in Seeds,
           NEW x \in 1 .. DealtRows - Repeated, NEW y \in 1 .. DealtRows - Repeated,
           DealtRow(e, x) = DealtRow(e, y)
    PROVE  x = y
<1> DEFINE f == order[e]
           S == args.samples
           B == BucketRows(args)
<1>1. /\ args \in Args /\ S \in Nat /\ args.procs \in Nat \ {0}
      /\ f \in Seq(0 .. PermutedRows(args) - 1) /\ Len(f) = PermutedRows(args)
      /\ \A i, j \in 1 .. Len(f) : f[i] = f[j] => i = j
  BY ArgsFacts DEF Orders, OrderInv
<1>2. CASE args.loader = "SequenceParallelSampler"
  <2> DEFINE n == CeilDiv(S, args.procs) * args.procs
  <2>1. DealtRows = n /\ Repeated = n - S BY <1>2 DEF DealtRows, Repeated
  <2>2. n \in Nat BY <1>1, CeilDivFacts
  <2>3. \A i : DealtRow(e, i) = f[((i - 1) % S) + 1] BY <1>2 DEF DealtRow
  <2>4. Len(f) = S BY <1>1, <1>2 DEF PermutedRows
  <2> HIDE DEF n, S, f
  <2>5. x \in 1 .. S /\ y \in 1 .. S BY <1>1, <2>1, <2>2
  <2>6. ASSUME NEW i \in 1 .. S PROVE ((i - 1) % S) + 1 = i
    <3>1. S \in Nat \ {0} /\ i - 1 \in Nat /\ i - 1 < S /\ i \in Nat BY <1>1
    <3>2. (i - 1) % S = i - 1 BY <3>1, Below
    <3> QED BY <3>1, <3>2
  <2> QED BY <1>1, <2>3, <2>4, <2>5, <2>6
<1>3. CASE InBuckets
  <2>1. Sharding(args) /\ args.loader = "MegatronPretrainingRandomSampler"
    BY <1>3 DEF InBuckets
  <2>2. args.loader # "SequenceParallelSampler" BY <2>1
  <2>3. Repeated = 0 /\ DealtRows = args.procs * B BY <1>3, <2>2 DEF Repeated, DealtRows
  <2>4. \A i : DealtRow(e, i) = ((i - 1) \div B) * B + f[((i - 1) % B) + 1]
    BY <1>3, <2>2 DEF DealtRow
  <2>5. B \in Nat BY <1>1, BucketFacts
  <2>6. Len(f) = B /\ \A i \in 1 .. Len(f) : f[i] \in 0 .. Len(f) - 1 BY <2>1, MegatronOrder
  <2> HIDE DEF B, f
  <2> DEFINE n == args.procs * B
  <2>7. n \in Nat /\ x \in 1 .. n - 0 /\ y \in 1 .. n - 0 BY <1>1, <2>3, <2>5
  <2>8. B # 0
    <3> SUFFICES ASSUME B = 0 PROVE FALSE OBVIOUS
    <3>1. n = 0 BY <1>1
    <3> QED BY <2>7, <3>1
  <2> HIDE DEF n
  <2>9. x - 1 \in Nat /\ y - 1 \in Nat /\ x \in Nat /\ y \in Nat BY <2>7
  <2> DEFINE q(i) == (i - 1) \div B
             r(i) == (i - 1) % B
  <2>10. ASSUME NEW i \in Nat, i - 1 \in Nat
         PROVE  /\ q(i) \in Nat /\ r(i) \in Nat /\ r(i) < B /\ i - 1 = q(i) * B + r(i)
                /\ f[r(i) + 1] \in Nat /\ f[r(i) + 1] < B
                /\ DealtRow(e, i) = q(i) * B + f[r(i) + 1]
    <3>1. q(i) \in Nat /\ r(i) \in Nat /\ r(i) < B /\ i - 1 = q(i) * B + r(i)
      BY <2>5, <2>8, <2>10, DivMod
    <3>2. DealtRow(e, i) = q(i) * B + f[r(i) + 1] BY <2>4
    <3> HIDE DEF q, r
    <3>3. r(i) + 1 \in 1 .. Len(f) BY <2>5, <2>6, <3>1
    <3>4. f[r(i) + 1] \in 0 .. B - 1 BY <2>6, <3>3
    <3> QED BY <2>5, <3>1, <3>2, <3>4
  <2> HIDE DEF q, r
  <2> DEFINE u == f[r(x) + 1]
             v == f[r(y) + 1]
  <2>11. u \in Nat /\ u < B /\ v \in Nat /\ v < B /\ q(x) \in Nat /\ q(y) \in Nat
         /\ DealtRow(e, x) = q(x) * B + u /\ DealtRow(e, y) = q(y) * B + v
    BY <2>9, <2>10
  <2>12. r(x) + 1 \in 1 .. Len(f) /\ r(y) + 1 \in 1 .. Len(f)
    <3>1. r(x) \in Nat /\ r(x) < B /\ r(y) \in Nat /\ r(y) < B BY <2>9, <2>10
    <3> QED BY <2>5, <2>6, <3>1
  <2> HIDE DEF u, v
  <2>13. q(x) * B + u = q(y) * B + v BY <2>11
  <2>14. q(x) = q(y) /\ u = v BY <2>5, <2>8, <2>11, <2>13, PairUnique
  <2>15. r(x) + 1 = r(y) + 1 BY <1>1, <2>12, <2>14 DEF u, v
  <2>16. r(x) = r(y) BY <2>9, <2>10, <2>15
  <2>17. x - 1 = y - 1 BY <2>9, <2>10, <2>14, <2>16
  <2> QED BY <2>9, <2>17
<1>4. CASE args.loader # "SequenceParallelSampler" /\ ~InBuckets
  <2>1. Repeated = 0 /\ DealtRows = PermutedRows(args) BY <1>4 DEF Repeated, DealtRows
  <2>2. \A i : DealtRow(e, i) = f[i] BY <1>4 DEF DealtRow
  <2>3. Len(f) \in Nat BY <1>1, LenFacts
  <2> HIDE DEF f
  <2>4. x \in 1 .. Len(f) /\ y \in 1 .. Len(f) BY <1>1, <2>1, <2>3
  <2> QED BY <1>1, <2>2, <2>4
<1> QED BY <1>2, <1>3, <1>4

(* Rounds of b rounds of a.                                                *)
LEMMA RoundsCover ==
    ASSUME NEW a \in Nat \ {0}, NEW b \in Nat \ {0}, NEW G, G = a * b,
           NEW m \in Nat, NEW n \in Nat, NEW S \in Nat, S < (m + 1) * a, m < n * b + b
    PROVE  n * G \in Nat /\ S < n * G + G
<1>1. (n + 1) * b = n * b + b /\ n * b \in Nat OBVIOUS
<1> DEFINE c == (n + 1) * b
           d == (m + 1) * a
<1>2. c \in Nat /\ m + 1 <= c
  <2> DEFINE x == n * b
  <2>1. x \in Nat /\ c = x + b /\ m < x + b BY <1>1
  <2> HIDE DEF x, c
  <2> QED BY <2>1
<1> HIDE DEF c
<1>3. d <= c * a /\ d \in Nat /\ c * a \in Nat
  <2>1. m + 1 \in Nat OBVIOUS
  <2> QED BY <1>2, <2>1, TimesMonotone
<1>4. c * a = n * G + G /\ n * G \in Nat
  <2>1. ((n + 1) * b) * a = n * (a * b) + (a * b) /\ n * (a * b) \in Nat OBVIOUS
  <2> QED BY <2>1 DEF c
<1> DEFINE x == n * G
           y == c * a
<1>5. x \in Nat /\ y = x + G /\ S < d /\ d <= y /\ d \in Nat /\ y \in Nat BY <1>3, <1>4
<1>6. G \in Nat
  <2>1. a * b \in Nat OBVIOUS
  <2> QED BY <2>1
<1> HIDE DEF x, y, d
<1>7. x \in Nat /\ S < x + G BY <1>5, <1>6
<1> QED BY <1>7 DEF x

(* What the samplers leave out at the end is less than a global batch.     *)
LEMMA Enough ==
    ASSUME Orders, PassLength \in Nat
    PROVE  /\ DealtRows \in Nat /\ Repeated \in Nat /\ DealtRows - Repeated \in Nat
           /\ args.samples < (DealtRows - Repeated) + GlobalBatch
           /\ PassLength * GlobalBatch \in Nat
           /\ args.samples < PassLength * GlobalBatch + GlobalBatch
<1> DEFINE S == args.samples
           W == args.procs
           b == args.batch_size
           G == GlobalBatch
           P == PassLength
<1>1. /\ args \in Args /\ args.loader \in Loaders /\ args.drop_last \in BOOLEAN
      /\ S \in Nat /\ W \in Nat \ {0} /\ b \in Nat \ {0} /\ G \in Nat \ {0} /\ 0 \in Seeds
  BY ArgsFacts DEF Orders
<1>2. G = W * b /\ G = b * W BY <1>1 DEF GlobalBatch
<1>3. W <= G /\ b <= G
  <2>1. 1 <= b /\ 1 <= W /\ 1 \in Nat /\ b \in Nat /\ W \in Nat BY <1>1
  <2> HIDE DEF W, b, G
  <2>2. 1 * W <= b * W /\ 1 * b <= W * b BY <2>1, TimesMonotone
  <2>3. 1 * W = W /\ 1 * b = b BY <2>1
  <2> QED BY <1>2, <2>2, <2>3
<1>4. P \in Nat OBVIOUS
<1>5. CASE args.loader = "BatchSamplerShard"
  <2> DEFINE m == S \div W
             n == m * W
  <2>1. m \in Nat /\ n \in Nat /\ n <= S /\ S < (m + 1) * W BY <1>1, DivFacts
  <2>2. Repeated = 0 /\ DealtRows = IF args.group_by_length THEN S ELSE n
    BY <1>5 DEF Repeated, DealtRows, InBuckets, PermutedRows, ShardRows
  <2>3. P = IF args.drop_last THEN m \div b ELSE CeilDiv(m, b)
    BY <1>5 DEF PassLength, Transformers, Streaming, len_dataloader
  <2>4. (m + 1) * W = n + W BY <1>1, <2>1
  <2> HIDE DEF S, W, b, G, P, m
  <2>5. m < P * b + b
    <3>1. CASE args.drop_last
      <4>1. m \in Nat /\ b \in Nat \ {0} /\ P = m \div b BY <1>1, <2>1, <2>3, <3>1
      <4>2. m < (P + 1) * b BY <4>1, DivFacts
      <4>3. (P + 1) * b = P * b + b BY <1>4, <4>1
      <4> QED BY <4>2, <4>3
    <3>2. CASE ~args.drop_last
      <4>1. m <= P * b /\ P * b \in Nat BY <1>1, <2>1, <2>3, <3>2, CeilDivFacts
      <4> QED BY <1>1, <2>1, <4>1
    <3> QED BY <1>1, <3>1, <3>2
  <2>6. P * G \in Nat /\ S < P * G + G BY <1>1, <1>2, <1>4, <2>1, <2>5, RoundsCover
  <2> HIDE DEF n
  <2>7. S < n + G BY <1>1, <1>3, <2>1, <2>4
  <2>8. DealtRows \in Nat /\ Repeated \in Nat /\ DealtRows - Repeated \in Nat
        /\ S < (DealtRows - Repeated) + G
    BY <1>1, <2>1, <2>2, <2>7
  <2> QED BY <2>6, <2>8 DEF S, G, P
<1>6. CASE args.loader = "SequenceParallelSampler"
  <2> DEFINE m == CeilDiv(S, W)
             n == m * W
  <2>1. m \in Nat /\ n \in Nat /\ S <= n BY <1>1, CeilDivFacts
  <2>2. Repeated = n - S /\ DealtRows = n BY <1>6 DEF Repeated, DealtRows
  <2>3. P = IF args.drop_last THEN m \div b ELSE CeilDiv(m, b)
    BY <1>6 DEF PassLength, Transformers, Streaming, len_dataloader
  <2> HIDE DEF S, W, b, G, P, m
  <2>4. S < (m + 1) * W
    <3>1. (m + 1) * W = n + W BY <1>1, <2>1
    <3> HIDE DEF n
    <3> QED BY <1>1, <2>1, <3>1
  <2>5. m < P * b + b
    <3>1. CASE args.drop_last
      <4>1. m \in Nat /\ b \in Nat \ {0} /\ P = m \div b BY <1>1, <2>1, <2>3, <3>1
      <4>2. m < (P + 1) * b BY <4>1, DivFacts
      <4>3. (P + 1) * b = P * b + b BY <1>4, <4>1
      <4> QED BY <4>2, <4>3
    <3>2. CASE ~args.drop_last
      <4>1. m <= P * b /\ P * b \in Nat BY <1>1, <2>1, <2>3, <3>2, CeilDivFacts
      <4> QED BY <1>1, <2>1, <4>1
    <3> QED BY <1>1, <3>1, <3>2
  <2>6. P * G \in Nat /\ S < P * G + G BY <1>1, <1>2, <1>4, <2>1, <2>4, <2>5, RoundsCover
  <2> HIDE DEF n
  <2>7. DealtRows \in Nat /\ Repeated \in Nat /\ DealtRows - Repeated = S BY <1>1, <2>1, <2>2
  <2> QED BY <1>1, <2>6, <2>7 DEF S, G, P
<1>7. CASE args.loader = "MegatronPretrainingRandomSampler"
  <2> DEFINE N == S \div G
             B == BucketRows(args)
  <2>1. ~Streaming /\ ~Transformers BY <1>7 DEF Streaming, Transformers
  <2>2. P = N BY <1>1, <2>1, ActiveSamples DEF PassLength
  <2>3. /\ B \in Nat
        /\ Sharding(args) => W * B = N * G
        /\ ~Sharding(args) => B <= S /\ S < B + b
    BY <1>1, BucketFacts
  <2>4. N * G \in Nat /\ S = N * G + (S % G) /\ S % G \in Nat /\ S % G < G BY <1>1, DivMod
  <2>5. Repeated = 0 BY <1>7 DEF Repeated
  <2>6. /\ Sharding(args) => DealtRows = W * B
        /\ ~Sharding(args) => DealtRows = IF args.group_by_length THEN S ELSE B
    BY <1>7 DEF DealtRows, InBuckets, PermutedRows
  <2> DEFINE x == N * G
             r == S % G
             d == W * B
  <2>7. x \in Nat /\ S = x + r /\ r \in Nat /\ r < G /\ P * G = x BY <2>2, <2>4
  <2>8. Sharding(args) => DealtRows = x BY <2>3, <2>6
  <2> HIDE DEF S, W, b, G, B, x, r, d
  <2>9. S < x + G BY <1>1, <2>7
  <2>10. DealtRows \in Nat /\ S < DealtRows + G BY <1>1, <1>3, <2>3, <2>6, <2>7, <2>8, <2>9
  <2>11. DealtRows - Repeated = DealtRows BY <2>5, <2>10
  <2> QED BY <2>5, <2>7, <2>9, <2>10, <2>11 DEF S, G, P
<1>8. CASE Streaming
  <2> DEFINE m == CeilDiv(S, b)
             f == order[0]
             base == Batched(f, b, FALSE)
             n == Len(base) \div W
  <2>1. args.loader # "SequenceParallelSampler" /\ ~InBuckets
    BY <1>8 DEF Streaming, InBuckets
  <2>2. Repeated = 0 /\ DealtRows = PermutedRows(args) BY <2>1 DEF Repeated, DealtRows
  <2>3. PermutedRows(args) = S BY <1>8 DEF PermutedRows, Streaming
  <2>4. f \in Seq(0 .. PermutedRows(args) - 1) /\ Len(f) = S
    BY <1>1, <2>3 DEF Orders, OrderInv
  <2> HIDE DEF f
  <2>5. Len(base) = m
    <3> HIDE DEF b, S
    <3> QED BY <1>1, <2>4, BatchedShape DEF m
  <2>6. P = n
    <3>1. P = Len(dispatched_batches(0)) BY <1>8 DEF PassLength
    <3>2. dispatched_batches(0) = [k \in 1 .. n |-> base[(k - 1) * W + 0 + 1]]
      BY DEF dispatched_batches, f
    <3>3. m \in Nat BY <1>1, CeilDivFacts
    <3>4. n \in Nat BY <1>1, <2>5, <3>3, DivFacts
    <3> HIDE DEF n, base, P
    <3>5. Len(dispatched_batches(0)) = n BY <3>2, <3>4
    <3> QED BY <3>1, <3>5
  <2>7. P = m \div W BY <2>5, <2>6
  <2>8. m \in Nat /\ m * b \in Nat /\ S <= m * b BY <1>1, CeilDivFacts
  <2> HIDE DEF S, W, b, G, P, m
  <2>9. S < (m + 1) * b
    <3> DEFINE x == m * b
    <3>1. (m + 1) * b = x + b BY <1>1, <2>8
    <3>2. x \in Nat /\ S <= x BY <2>8
    <3> HIDE DEF x
    <3> QED BY <1>1, <3>1, <3>2
  <2>10. m < P * W + W
    <3>1. m < (P + 1) * W BY <1>1, <2>7, <2>8, DivFacts
    <3>2. (P + 1) * W = P * W + W BY <1>1, <1>4
    <3> QED BY <3>1, <3>2
  <2>11. P * G \in Nat /\ S < P * G + G BY <1>1, <1>2, <1>4, <2>8, <2>9, <2>10, RoundsCover
  <2>12. DealtRows \in Nat /\ Repeated \in Nat /\ DealtRows - Repeated = S BY <1>1, <2>2, <2>3
  <2> QED BY <1>1, <2>11, <2>12 DEF S, G, P
<1> QED BY <1>1, <1>5, <1>6, <1>7, <1>8 DEF Loaders, Streaming

(* Step i is the k-th of pass e, and process p got its batch of order f.   *)
StepDealt(i, k, p, e, f) ==
    /\ k \in 1 .. PassLength /\ i - 1 = e * PassLength + (k - 1)
    /\ Dealt(seen[i][p], k, p, f)

(* The rows of pass e as the loaders dealt them.                           *)
LEMMA RowsDealt ==
    ASSUME IInv, PassLength \in Nat \ {0}, ~UnevenPass, AsUninterrupted,
           NEW e \in Nat, NEW f \in Seeds, f = IF Streaming THEN 0 ELSE e,
           NEW i \in 1 .. Len(seen), (i - 1) \div PassLength = e, NEW p \in Procs,
           NEW k, k = ((i - 1) % PassLength) + 1
    PROVE  StepDealt(i, k, p, e, f)
<1> DEFINE P == PassLength
           n == i - 1
<1>1. Orders /\ Len(seen) = step /\ step \in Nat BY Known DEF IInv, Types
<1>2. n \in Nat BY <1>1
<1>3. k \in 1 .. P /\ n = e * P + (k - 1)
  <2> DEFINE r == n % P
  <2> HIDE DEF P, n
  <2>1. P \in Nat \ {0} /\ n \div P = e /\ k = r + 1 BY DEF P, n
  <2>2. r \in Nat /\ r < P /\ n = e * P + r BY <1>2, <2>1, DivMod
  <2> HIDE DEF r
  <2>3. k - 1 = r BY <2>1, <2>2
  <2> QED BY <2>1, <2>2, <2>3
<1>4. seen[i][p] = WholePass(p, e)[k] BY DEF AsUninterrupted
<1>5. WholePass(p, e) = WholePass(p, f)
  <2>1. CASE Streaming BY <2>1 DEF WholePass, Streaming
  <2>2. CASE ~Streaming BY <2>2
  <2> QED BY <2>1, <2>2
<1>6. Dealt(WholePass(p, f)[k], k, p, f)
  <2>1. Streaming => f = 0 OBVIOUS
  <2>2. k \in 1 .. PassLength BY <1>3 DEF P
  <2> QED BY <1>1, <2>1, <2>2, PassDealt
<1>7. k \in 1 .. PassLength /\ i - 1 = e * PassLength + (k - 1) BY <1>3 DEF P, n
<1>8. Dealt(seen[i][p], k, p, f) BY <1>4, <1>5, <1>6
<1> QED BY <1>7, <1>8, Zenon DEF StepDealt

(* The rows of a pass, the e-th, that an order was chosen for.             *)
LEMMA PassRows ==
    ASSUME IInv, PassLength \in Nat \ {0}, ~UnevenPass, AsUninterrupted,
           NEW e \in Nat, Streaming \/ e \in Seeds,
           NEW T, T = RowsOfPass(e),
           NEW R, R = {seen[t[1]][t[2]][t[3]] : t \in T}
    PROVE  /\ Cardinality(T) - Cardinality(R) <= Repeated
           /\ Len(seen) >= (e + 1) * PassLength => args.samples - Cardinality(R) < GlobalBatch
<1> DEFINE P == PassLength
           f == IF Streaming THEN 0 ELSE e
           X == DealtRows
           D == DealtRows - Repeated
           G == GlobalBatch
           at(t) == ((t[1] - 1) % P) + 1
           pl == [t \in T |-> Place(at(t), t[2], t[3])]
           d == [x \in 1 .. X |-> DealtRow(f, x)]
<1>1. Orders /\ args \in Args /\ G \in Nat \ {0} /\ 0 \in Seeds BY Known
<1>2. f \in Seeds BY <1>1
<1>3. /\ X \in Nat /\ Repeated \in Nat /\ D \in Nat /\ args.samples < D + G
      /\ P * G \in Nat /\ args.samples < P * G + G
  BY <1>1, Enough
<1>4. D <= X /\ X - D = Repeated BY <1>3
<1>5. ASSUME NEW t \in T
      PROVE  /\ t[1] \in 1 .. Len(seen) /\ t[2] \in Procs /\ t[3] \in 1 .. args.batch_size
             /\ (t[1] - 1) \div P = e /\ t[3] \in 1 .. Len(seen[t[1]][t[2]])
             /\ t = <<t[1], t[2], t[3]>>
             /\ at(t) \in 1 .. P /\ t[1] - 1 = e * P + (at(t) - 1)
             /\ Dealt(seen[t[1]][t[2]], at(t), t[2], f)
  <2>1. /\ t \in (1 .. Len(seen)) \X Procs \X (1 .. args.batch_size)
        /\ (t[1] - 1) \div P = e /\ t[3] <= Len(seen[t[1]][t[2]])
    BY DEF RowsOfPass
  <2>2. /\ t[1] \in 1 .. Len(seen) /\ t[2] \in Procs /\ t[3] \in 1 .. args.batch_size
        /\ t = <<t[1], t[2], t[3]>>
    BY <2>1
  <2> DEFINE i == t[1]
             p == t[2]
             k == at(t)
  <2>3. i \in 1 .. Len(seen) /\ p \in Procs /\ (i - 1) \div PassLength = e
        /\ k = ((i - 1) % PassLength) + 1
    BY <2>1, <2>2
  <2> HIDE DEF i, p, k, f
  <2>4. f = IF Streaming THEN 0 ELSE e BY DEF f
  <2>5. k \in 1 .. PassLength /\ i - 1 = e * PassLength + (k - 1) /\ Dealt(seen[i][p], k, p, f)
    <3>1. StepDealt(i, k, p, e, f) BY <1>2, <2>3, <2>4, RowsDealt
    <3> QED BY <3>1, Zenon DEF StepDealt
  <2>6. Len(seen[i][p]) \in Nat
    <3>1. seen \in Seq([Procs -> Seq(Rows)]) BY DEF IInv, Types
    <3>2. seen[i] \in [Procs -> Seq(Rows)] BY <2>3, <3>1, LenFacts
    <3>3. seen[i][p] \in Seq(Rows) BY <2>3, <3>2
    <3> QED BY <3>3, LenFacts
  <2>7. t[3] \in 1 .. Len(seen[i][p]) BY <1>1, <2>1, <2>2, <2>6, ArgsFacts DEF i, p
  <2> QED BY <2>1, <2>2, <2>5, <2>7 DEF i, p, k
<1>6. ASSUME NEW t \in T
      PROVE  Place(at(t), t[2], t[3]) \in 1 .. X
             /\ seen[t[1]][t[2]][t[3]] = DealtRow(f, Place(at(t), t[2], t[3]))
  <2>1. t[3] \in 1 .. Len(seen[t[1]][t[2]]) /\ Dealt(seen[t[1]][t[2]], at(t), t[2], f) BY <1>5
  <2> HIDE DEF at, f
  <2> QED BY <2>1 DEF Dealt
<1>7. ASSUME NEW t \in T, NEW u \in T, Place(at(t), t[2], t[3]) = Place(at(u), u[2], u[3])
      PROVE  t = u
  <2>1. /\ at(t) \in 1 .. P /\ t[2] \in Procs /\ t[3] \in 1 .. args.batch_size
        /\ t[1] - 1 = e * P + (at(t) - 1) /\ t = <<t[1], t[2], t[3]>> /\ t[1] \in 1 .. Len(seen)
    BY <1>5
  <2>2. /\ at(u) \in 1 .. P /\ u[2] \in Procs /\ u[3] \in 1 .. args.batch_size
        /\ u[1] - 1 = e * P + (at(u) - 1) /\ u = <<u[1], u[2], u[3]>> /\ u[1] \in 1 .. Len(seen)
    BY <1>5
  <2> HIDE DEF at
  <2>3. at(t) = at(u) /\ t[2] = u[2] /\ t[3] = u[3]
    <3> DEFINE k == at(t)
               l == at(u)
               p == t[2]
               q == u[2]
               j == t[3]
               i == u[3]
    <3>1. /\ args \in Args /\ PassLength \in Nat
          /\ k \in 1 .. PassLength /\ p \in Procs /\ j \in 1 .. args.batch_size
          /\ l \in 1 .. PassLength /\ q \in Procs /\ i \in 1 .. args.batch_size
      BY <1>1, <2>1, <2>2
    <3>2. Place(k, p, j) = Place(l, q, i) BY <1>7
    <3> HIDE DEF k, l, p, q, j, i
    <3>3. k = l /\ p = q /\ j = i BY ONLY <3>1, <3>2, PlacesDiffer
    <3> QED BY <3>3 DEF k, l, p, q, j, i
  <2>4. t[1] - 1 = u[1] - 1 BY <2>1, <2>2, <2>3
  <2>5. t[1] \in Int /\ u[1] \in Int BY <2>1, <2>2
  <2>6. t[1] = u[1] BY <2>4, <2>5
  <2> QED BY <2>1, <2>2, <2>3, <2>6
<1>8. pl \in [T -> 1 .. X] /\ \A t \in T : pl[t] = Place(at(t), t[2], t[3])
  <2> HIDE DEF at, X
  <2> QED BY <1>6
<1>9. \A t, u \in T : pl[t] = pl[u] => t = u
  <2> HIDE DEF at, pl
  <2> QED BY <1>7, <1>8
<1>10. R = {d[pl[t]] : t \in T}
  <2> HIDE DEF at, pl, f
  <2>1. ASSUME NEW t \in T PROVE seen[t[1]][t[2]][t[3]] = d[pl[t]]
    <3>1. pl[t] \in 1 .. X /\ pl[t] = Place(at(t), t[2], t[3]) BY <1>8
    <3>2. d[pl[t]] = DealtRow(f, pl[t])
      <4> HIDE DEF X
      <4> QED BY <3>1
    <3> HIDE DEF d
    <3> QED BY <1>6, <3>1, <3>2
  <2> HIDE DEF d
  <2> QED BY <2>1
<1>11. \A x, y \in 1 .. D : d[x] = d[y] => x = y
  <2> SUFFICES ASSUME NEW x \in 1 .. D, NEW y \in 1 .. D, d[x] = d[y] PROVE x = y OBVIOUS
  <2>1. x \in 1 .. X /\ y \in 1 .. X BY <1>3, <1>4
  <2>2. d[x] = DealtRow(f, x) /\ d[y] = DealtRow(f, y)
    <3> HIDE DEF X, f
    <3> QED BY <2>1
  <2> HIDE DEF f, d
  <2>3. DealtRow(f, x) = DealtRow(f, y) BY <2>2
  <2> QED BY <1>1, <1>2, <2>3, DealtDifferent
<1> HIDE DEF pl, d, at, X, D, f
<1>12. Counted(T, R, pl, X - D, D)
  <2>1. X \in Nat /\ D \in Nat /\ D <= X BY <1>3, <1>4
  <2>2. Numbered(T, R, pl, d, X, D) BY <1>8, <1>9, <1>10, <1>11, <2>1 DEF Numbered
  <2> QED BY <2>2, Counting
<1>13. ASSUME Len(seen) >= (e + 1) * P PROVE args.samples - Cardinality(R) < G
  <2> DEFINE m == Lesser(P * G, D)
  <2>1. m \in 0 .. D /\ m <= P * G BY <1>3 DEF Lesser, D, X
  <2>2. ASSUME NEW x \in 1 .. m PROVE \E t \in T : pl[t] = x
    <3>1. x \in 1 .. P * G /\ x <= X BY <1>3, <1>4, <2>1 DEF D, X
    <3>2. PICK k \in 1 .. P, p \in Procs, j \in 1 .. args.batch_size : Place(k, p, j) = x
      BY <1>1, <3>1, PlacesCover
    <3> DEFINE i == e * P + k
               t == <<i, p, j>>
    <3>3. i \in 1 .. Len(seen) /\ i - 1 = e * P + (k - 1) /\ k - 1 \in Nat /\ k - 1 < P
      <4> DEFINE y == e * P
      <4>1. y \in Nat /\ (e + 1) * P = y + P /\ P \in Nat OBVIOUS
      <4>2. Len(seen) \in Nat BY Known DEF IInv, Types
      <4> HIDE DEF y, P
      <4> QED BY <1>13, <4>1, <4>2 DEF y
    <3>4. (i - 1) \div P = e /\ (i - 1) % P = k - 1
      <4> HIDE DEF i, P
      <4>1. P \in Nat \ {0} BY DEF P
      <4> QED BY <3>3, <4>1, DivUnique
    <3> HIDE DEF i
    <3>5. k = ((i - 1) % P) + 1 BY <3>4
    <3>6. Dealt(seen[i][p], k, p, f)
      <4>1. f = IF Streaming THEN 0 ELSE e BY DEF f
      <4>2. (i - 1) \div PassLength = e /\ k = ((i - 1) % PassLength) + 1 BY <3>4, <3>5
      <4> HIDE DEF f
      <4>3. StepDealt(i, k, p, e, f) BY <1>2, <3>3, <4>1, <4>2, RowsDealt
      <4> QED BY <4>3, Zenon DEF StepDealt
    <3>7. j <= Len(seen[i][p]) BY <3>1, <3>2, <3>6 DEF Dealt, X
    <3>8. t \in T
      <4>1. t[1] = i /\ t[2] = p /\ t[3] = j OBVIOUS
      <4>2. t \in (1 .. Len(seen)) \X Procs \X (1 .. args.batch_size) BY <3>3
      <4> HIDE DEF t
      <4> QED BY <3>4, <3>7, <4>1, <4>2 DEF RowsOfPass
    <3>9. pl[t] = x
      <4>1. pl[t] = Place(at(t), t[2], t[3]) BY <1>8, <3>8
      <4>2. at(t) = k BY <3>5 DEF at
      <4> QED BY <3>2, <4>1, <4>2
    <3> QED BY <3>8, <3>9
  <2>3. args.samples < m + G BY <1>3 DEF Lesser, D, X
  <2> HIDE DEF m
  <2>4. m <= Cardinality(R) BY <1>12, <2>1, <2>2 DEF Counted
  <2>5. m \in Nat /\ args.samples \in Nat BY <1>1, <1>3, <2>1, ArgsFacts DEF D, X
  <2> QED BY <1>1, <1>12, <2>3, <2>4, <2>5 DEF Counted
<1> QED BY <1>4, <1>12, <1>13 DEF D, X, Counted

(* No step is in another pass.                                             *)
LEMMA NoOtherPass ==
    ASSUME IInv, PassLength \in Nat \ {0}, NEW e \in Nat, ~Streaming, e \notin Seeds
    PROVE  RowsOfPass(e) = {} /\ ~(Len(seen) >= (e + 1) * PassLength)
<1> DEFINE P == PassLength
<1>1. /\ args \in Args /\ Len(seen) = step /\ step \in Nat /\ TotalSteps(args) \in Nat
      /\ step <= TotalSteps(args)
  BY Known DEF IInv, Types
<1>2. ASSUME NEW n \in Nat, n < step PROVE n \div P # e
  <2>1. n < TotalSteps(args) BY <1>1, <1>2
  <2> QED BY <1>1, <2>1, StepInSeeds
<1>3. RowsOfPass(e) = {}
  <2> SUFFICES ASSUME NEW t \in RowsOfPass(e) PROVE FALSE OBVIOUS
  <2>1. t[1] \in 1 .. Len(seen) /\ (t[1] - 1) \div P = e BY DEF RowsOfPass
  <2>2. t[1] - 1 \in Nat /\ t[1] - 1 < step BY <1>1, <2>1
  <2> QED BY <1>2, <2>1, <2>2
<1>4. ~(Len(seen) >= (e + 1) * P)
  <2> SUFFICES ASSUME Len(seen) >= (e + 1) * P PROVE FALSE OBVIOUS
  <2> DEFINE n == e * P
  <2>1. n \in Nat /\ (e + 1) * P = n + P /\ P \in Nat \ {0} OBVIOUS
  <2>2. n \div P = e
    <3>1. 0 \in Nat /\ 0 < P BY <2>1
    <3>2. (e * P + 0) \div P = e BY <2>1, <3>1, DivUnique
    <3>3. e * P + 0 = n BY <2>1
    <3> QED BY <3>2, <3>3
  <2> HIDE DEF n, P
  <2>3. n < step BY <1>1, <2>1
  <2> QED BY <1>2, <2>1, <2>2, <2>3
<1> QED BY <1>3, <1>4

(* A pass over the data trains on no row twice, but for the rows with      *)
(* which sequence parallelism rounds up, and leaves out fewer rows than    *)
(* one global batch.                                                       *)
THEOREM RowsOncePerPass == Spec => []EachRowOnce
<1>1. IInv => EachRowOnce
  <2> SUFFICES ASSUME IInv, PassLength > 0, ~UnevenPass,
                      \A at \in ToSet(resumed) : ~KnownGap(at),
                      NEW e \in 0 .. Len(seen) \div PassLength
               PROVE  LET T == RowsOfPass(e)
                          R == {seen[t[1]][t[2]][t[3]] : t \in T}
                      IN  /\ Cardinality(T) - Cardinality(R) <= Repeated
                          /\ Len(seen) >= (e + 1) * PassLength =>
                               args.samples - Cardinality(R) < GlobalBatch
    BY DEF EachRowOnce, Repeated
  <2> DEFINE T == RowsOfPass(e)
             R == {seen[t[1]][t[2]][t[3]] : t \in T}
  <2>1. AsUninterrupted BY DEF IInv, ResumeGoesOn
  <2>2. PassLength \in Nat \ {0} BY Known
  <2>3. e \in Nat
    <3>1. Len(seen) \in Nat BY Known DEF IInv, Types
    <3> QED BY <2>2, <3>1, DivFacts
  <2>4. CASE Streaming \/ e \in Seeds
    <3> HIDE DEF T, R
    <3>1. T = RowsOfPass(e) /\ R = {seen[t[1]][t[2]][t[3]] : t \in T} BY DEF T, R
    <3>2. /\ Cardinality(T) - Cardinality(R) <= Repeated
          /\ Len(seen) >= (e + 1) * PassLength => args.samples - Cardinality(R) < GlobalBatch
      BY <2>1, <2>2, <2>3, <2>4, <3>1, PassRows
    <3> QED BY <3>2 DEF T, R
  <2>5. CASE ~(Streaming \/ e \in Seeds)
    <3>1. T = {} /\ ~(Len(seen) >= (e + 1) * PassLength) BY <2>2, <2>3, <2>5, NoOtherPass
    <3>2. R = {} BY <3>1
    <3>3. Cardinality(T) = 0 /\ Cardinality(R) = 0 BY <3>1, <3>2, FS_EmptySet
    <3>4. Repeated \in Nat
      <4>1. Orders /\ PassLength \in Nat BY Known
      <4> QED BY <4>1, Enough
    <3> HIDE DEF T, R
    <3>5. Cardinality(T) - Cardinality(R) <= Repeated BY <3>3, <3>4
    <3> QED BY <3>1, <3>5 DEF T, R
  <2> QED BY <2>4, <2>5
<1> QED BY <1>1, InductiveInvariant, PTL

====
