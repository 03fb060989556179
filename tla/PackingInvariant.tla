--------------------------- MODULE PackingInvariant ---------------------------
(***************************************************************************)
(* The inductive invariants of the two packed datasets (swift/dataset/     *)
(* packing.py), from which PackingProofs derives their properties.         *)
(*                                                                         *)
(* Streaming: the iterating process knows only how many results it has     *)
(* received; that every position then holds its own sample follows from    *)
(* what each queue and each process holds, counted and by position.        *)
(* Map-style: the master knows only how many end markers it has received;  *)
(* that nothing is missing then follows from the place of the marker in    *)
(* each worker's channel and from what a worker sent before it.            *)
(***************************************************************************)
EXTENDS Packing

-----------------------------------------------------------------------------
(* IterablePackingDataset.                                                 *)

(* The sample of a position of this interval, and its answer.              *)
SampleAt(i) == next - put + i
AnswerAt(i) == IF SampleAt(i) \in Encoded THEN SampleAt(i) ELSE 0

(* The processes that hold an item, or died with one.                      *)
Busy == {w \in Procs : worker[w] # Idle}
InFlight == Len(in_queue) + Len(out_queue) + Cardinality(Busy)

(* The counters of an interval: it is full unless the iterator is at its   *)
(* end, and it never reaches back before the first sample.                 *)
CountersInv ==
    /\ put < next
    /\ pc \in {"fetch", "pack", "yield"} => put = num_samples
    /\ (pc \in {"fetch", "pack", "yield"} /\ Finished) => next = NumSamples + 1
    /\ pc = "fetch" => fetched <= num_samples

(* Each sample that was put is at exactly one place until it is received.  *)
CountInv ==
    /\ pc = "put" => InFlight = put
    /\ pc = "fetch" => InFlight = num_samples - fetched
    /\ pc \notin {"put", "fetch"} => InFlight = 0

(* What is on its way belongs to this interval, with the position it got.  *)
FlightInv ==
    /\ \A k \in 1..Len(in_queue) :
          in_queue[k].i < put /\ in_queue[k].sample = SampleAt(in_queue[k].i)
    /\ \A w \in Procs : worker[w] \in Items =>
          worker[w].i < put /\ worker[w].sample = SampleAt(worker[w].i)
    /\ \A k \in 1..Len(out_queue) :
          out_queue[k].i < put /\ out_queue[k].sample = AnswerAt(out_queue[k].i)

Waits(i) ==
    \/ \E k \in 1..Len(in_queue) : in_queue[k].i = i
    \/ \E w \in Procs : worker[w].i = i
    \/ \E k \in 1..Len(out_queue) : out_queue[k].i = i

(* No position is lost, unless a process died.                             *)
CoverInv ==
    /\ pc = "put" => \A i \in 0..(put - 1) :
          Waits(i) \/ \E w \in Procs : worker[w] = Dead
    /\ pc = "fetch" => \A i \in 0..(put - 1) :
          Waits(i) \/ res[i] = AnswerAt(i) \/ \E w \in Procs : worker[w] = Dead
    /\ pc = "pack" => \A i \in 0..(put - 1) : res[i] = AnswerAt(i)

Given == yielded \cup packs

(* The packs and the bin held back partition the samples packed so far.    *)
PartitionInv ==
    /\ \A p, q \in Given : p # q => p \cap q = {}
    /\ \A p \in Given : p \cap data = {}
    /\ pc \in {"put", "fetch", "pack"} =>
          /\ packs = {}
          /\ (UNION yielded) \cup data = Encoded \cap 1..(next - put - 1)
    /\ pc = "yield" =>
          /\ (UNION Given) \cup data = Encoded \cap 1..(next - 1)
          /\ Finished => data = {}
    /\ (pc = "end" /\ iters > 0 /\ ~stopped) => UNION yielded = Encoded

StreamInv ==
    /\ TypeOK /\ CountersInv /\ CountInv /\ FlightInv /\ CoverInv /\ PartitionInv

-----------------------------------------------------------------------------
(* PackingDataset.                                                         *)

Marker(m) == m.len = -1

(* The packs a channel still holds, and the indices a worker has read.     *)
PacksIn(q) == UNION {q[k].packs : k \in 1..Len(q)}
Read(r) == Bound(r)..(Bound(r) + taken[r] - 1)
PacksOf(r) == packed_idx[r] \cup PacksIn(channel[r])

(* The end markers the master has counted.                                 *)
Ended == {r \in Ranks : sending[r] = "exit" /\ channel[r] = <<>>}

(* A marker is the last message of a worker that has exited, and a worker  *)
(* whose channel is empty after its exit has had its marker counted.       *)
MarkerInv ==
    /\ \A r \in Ranks : \A k \in 1..Len(channel[r]) :
          /\ Marker(channel[r][k]) <=> (sending[r] = "exit" /\ k = Len(channel[r]))
          /\ Marker(channel[r][k]) => channel[r][k].packs = {}
    /\ finished_workers = Cardinality(Ended)
    /\ master = "done" => finished_workers = NumWorkers

(* What a worker has read is in its packs or in the bin it holds back.     *)
ReadAt(r) ==
    /\ taken[r] <= ChunkSize(r)
    /\ (UNION PacksOf(r)) \cup input_data[r] = Read(r)
    /\ \A p, q \in PacksOf(r) : p # q => p \cap q = {}
    /\ \A p \in PacksOf(r) : p \cap input_data[r] = {}
    /\ sending[r] = "exit" => taken[r] = ChunkSize(r) /\ input_data[r] = {}

ReadInv == \A r \in Ranks : ReadAt(r)

(* The types of MapTypeOK, without the bounds that follow from the rest.   *)
MapType ==
    /\ lengths \in [Indices -> 1..MaxRowLength]
    /\ master \in {"drain", "done"}
    /\ finished_workers \in Nat /\ progress \in Nat
    /\ packed_idx \in [Ranks -> SUBSET SUBSET Indices]
    /\ taken \in [Ranks -> Nat]
    /\ input_data \in [Ranks -> SUBSET Indices]
    /\ sending \in [Ranks -> {"run", "exit"}]
    /\ channel \in [Ranks -> Seq([packs : SUBSET SUBSET Indices, len : -1..BatchSize])]

(* The batches in a channel: the marker is none.                           *)
NumData(r) ==
    IF sending[r] = "exit" /\ channel[r] # <<>> THEN Len(channel[r]) - 1 ELSE Len(channel[r])

(* The rows of the batches in a channel: all batches but the last of a     *)
(* worker are full.                                                        *)
Pending(r) ==
    IF NumData(r) = 0 THEN 0
    ELSE (NumData(r) - 1) * BatchSize + channel[r][NumData(r)].len

(* The rows the master has received from a worker.                         *)
Received(r) == Bound(r)..(Bound(r) + taken[r] - Pending(r) - 1)
Counted == UNION {Received(r) : r \in Ranks}

PendingAt(r) ==
    /\ \A k \in 1..(NumData(r) - 1) : channel[r][k].len = BatchSize
    /\ (NumData(r) > 0 /\ taken[r] < ChunkSize(r)) => channel[r][NumData(r)].len = BatchSize
    /\ taken[r] = ChunkSize(r) => input_data[r] = {}
    /\ Pending(r) <= taken[r]

(* The progress bar counts the rows received.                              *)
ProgressInv ==
    /\ \A r \in Ranks : PendingAt(r)
    /\ progress = Cardinality(Counted)

MapInv == MapType /\ MarkerInv /\ ReadInv /\ ProgressInv
=============================================================================
