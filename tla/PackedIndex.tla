------------------------------ MODULE PackedIndex ------------------------------
(***************************************************************************)
(* Map-style packing: PackingDataset in swift/dataset/packing.py.  The     *)
(* lengths are split in contiguous chunks, one per worker process; each    *)
(* worker packs its chunk PACKING_BATCH_SIZE samples at a time and sends   *)
(* the packs over one shared queue, which the master drains until every    *)
(* worker has sent its end marker.                                         *)
(*                                                                         *)
(* The queue keeps the order of each sender and interleaves the senders    *)
(* in any way: it is modelled as one channel per worker.                   *)
(***************************************************************************)
EXTENDS Integers, Sequences, FiniteSets, FiniteSetsExt, BinPacking

CONSTANTS
    NumRows,         \* len(dataset)
    PackingNumProc,  \* packing_num_proc
    BatchSize,       \* PACKING_BATCH_SIZE
    MapPackingLength,   \* packing_length
    MaxRowLength     \* bound: tokens of a row

ASSUME PackedIndexAssumption ==
    /\ NumRows \in Nat /\ PackingNumProc \in Nat \ {0}
    /\ BatchSize \in Nat \ {0} /\ MapPackingLength \in Nat \ {0}
    /\ MaxRowLength \in Nat \ {0}

VARIABLES
    lengths,   \* per index, its tokens
    master,    \* the master: "drain" or "done"
    finished_workers,
    packed_idx,   \* per worker, the packs the master has received
    progress,     \* the count of the progress bar
    taken,     \* per worker, the samples of its chunk already read
    input_data,   \* per worker, the bin held back
    sending,   \* per worker: "run" or "exit"
    channel    \* per worker, its messages in the queue

mapVars == <<lengths, master, finished_workers, packed_idx, progress, taken,
            input_data, sending, channel>>

(* min(packing_num_proc, ceil(len(dataset) / PACKING_BATCH_SIZE)).         *)
NumWorkers == Min({PackingNumProc, (NumRows + BatchSize - 1) \div BatchSize})

Ranks   == 0..(NumWorkers - 1)
Indices == 0..(NumRows - 1)

(* np.linspace(0, len, num_shards + 1) as integers.                        *)
Bound(r) == (r * NumRows) \div NumWorkers

ChunkSize(r) == Bound(r + 1) - Bound(r)

MapInit ==
    /\ lengths \in [Indices -> 1..MaxRowLength]
    /\ master = "drain" /\ finished_workers = 0 /\ progress = 0
    /\ packed_idx = [r \in Ranks |-> {}]
    /\ taken = [r \in Ranks |-> 0]
    /\ input_data = [r \in Ranks |-> {}]
    /\ sending = [r \in Ranks |-> "run"]
    /\ channel = [r \in Ranks |-> <<>>]

-----------------------------------------------------------------------------
(* A worker: create_packed_idx.                                            *)

Send(r, packs, n) ==
    channel' = [channel EXCEPT ![r] = Append(@, [packs |-> packs, len |-> n])]

(* Variant: the bin held back is forgotten.                                *)
PackBatchForgets(r) ==
    LET size  == Min({BatchSize, ChunkSize(r) - taken[r]})
        first == Bound(r) + taken[r]
        input == first..(first + size - 1)
        is_finished == taken[r] + BatchSize >= ChunkSize(r)
    IN  /\ sending[r] = "run" /\ input # {}
        /\ taken' = [taken EXCEPT ![r] = @ + size]
        /\ \E bins \in BinPackings(input, lengths, MapPackingLength) :
              \/ is_finished /\ Send(r, bins, size) /\ UNCHANGED input_data
              \/ ~is_finished /\ \E last \in bins :
                   Send(r, bins \ {last}, size) /\ UNCHANGED input_data
        /\ UNCHANGED <<lengths, master, finished_workers, packed_idx, progress,
                       sending>>

(* One turn of the loop: read a batch, pack it with the bin held back, and *)
(* send all bins, or all but the last if there is more to read.            *)
PackBatch(r) ==
    LET size  == Min({BatchSize, ChunkSize(r) - taken[r]})
        first == Bound(r) + taken[r]
        input == input_data[r] \cup first..(first + size - 1)
        is_finished == taken[r] + BatchSize >= ChunkSize(r)
    IN  /\ sending[r] = "run" /\ input # {}
        /\ taken' = [taken EXCEPT ![r] = @ + size]
        /\ \E bins \in BinPackings(input, lengths, MapPackingLength) :
              \/ /\ is_finished
                 /\ Send(r, bins, size)
                 /\ input_data' = [input_data EXCEPT ![r] = {}]
              \/ /\ ~is_finished
                 /\ \E last \in bins :
                      /\ Send(r, bins \ {last}, size)
                      /\ input_data' = [input_data EXCEPT ![r] = last]
        /\ UNCHANGED <<lengths, master, finished_workers, packed_idx, progress,
                       sending>>

(* Variant: a worker that held nothing back exits without its marker.      *)
SendEndSilent(r) ==
    /\ sending[r] = "run"
    /\ taken[r] = ChunkSize(r) /\ input_data[r] = {}
    /\ sending' = [sending EXCEPT ![r] = "exit"]
    /\ UNCHANGED <<lengths, master, finished_workers, packed_idx, progress, taken,
                   input_data, channel>>

(* Nothing left: the end marker, a message of lengths -1.                   *)
SendEnd(r) ==
    /\ sending[r] = "run"
    /\ taken[r] = ChunkSize(r) /\ input_data[r] = {}
    /\ Send(r, {}, -1)
    /\ sending' = [sending EXCEPT ![r] = "exit"]
    /\ UNCHANGED <<lengths, master, finished_workers, packed_idx, progress, taken,
                   input_data>>

-----------------------------------------------------------------------------
(* The master.                                                             *)

(* self._out_queue.get(): count an end marker, or keep the packs.          *)
GetMessage(r) ==
    LET m == Head(channel[r])
    IN  /\ master = "drain" /\ finished_workers < NumWorkers /\ channel[r] # <<>>
        /\ channel' = [channel EXCEPT ![r] = Tail(@)]
        /\ \/ /\ m.len = -1
              /\ finished_workers' = finished_workers + 1
              /\ UNCHANGED <<packed_idx, progress>>
           \/ /\ m.len # -1
              /\ progress' = progress + m.len
              /\ packed_idx' = [packed_idx EXCEPT ![r] = @ \cup m.packs]
              /\ UNCHANGED finished_workers
        /\ UNCHANGED <<lengths, master, taken, input_data, sending>>

DrainEnd ==
    /\ master = "drain" /\ finished_workers = NumWorkers
    /\ master' = "done"
    /\ UNCHANGED <<lengths, finished_workers, packed_idx, progress, taken,
                   input_data, sending, channel>>

-----------------------------------------------------------------------------
Worker(r) == PackBatch(r) \/ SendEnd(r)
Master == DrainEnd \/ \E r \in Ranks : GetMessage(r)
MapNext == Master \/ \E r \in Ranks : Worker(r)
MapSpec == MapInit /\ [][MapNext]_mapVars

-----------------------------------------------------------------------------
(* Properties.                                                             *)

Packs == UNION {packed_idx[r] : r \in Ranks}

(* Every variable keeps its type; the progress bar never passes its total. *)
MapTypeOK ==
    /\ lengths \in [Indices -> 1..MaxRowLength]
    /\ master \in {"drain", "done"}
    /\ finished_workers \in 0..NumWorkers
    /\ progress \in 0..NumRows
    /\ packed_idx \in [Ranks -> SUBSET SUBSET Indices]
    /\ taken \in [Ranks -> 0..NumRows]
    /\ input_data \in [Ranks -> SUBSET Indices]
    /\ sending \in [Ranks -> {"run", "exit"}]
    /\ \A r \in Ranks : channel[r] \in
          Seq([packs : SUBSET SUBSET Indices, len : -1..BatchSize])

(* When the master goes on, every index of the dataset is in exactly one   *)
(* pack, nothing is left in the queue and the progress is complete, however*)
(* the messages of the workers were interleaved.                           *)
EachIndexOnce ==
    master = "done" =>
        /\ UNION Packs = Indices
        /\ \A p, q \in Packs : p # q => p \cap q = {}
        /\ progress = NumRows
        /\ \A r \in Ranks : channel[r] = <<>>
=============================================================================
