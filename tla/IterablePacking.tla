---------------------------- MODULE IterablePacking ----------------------------
(***************************************************************************)
(* Streaming packing: IterablePackingDataset in swift/dataset/packing.py.  *)
(* The iterating process puts up to packing_interval samples in a queue,   *)
(* num_proc worker processes encode them, and the results come back over   *)
(* another queue in any order; they are sorted by their position, packed   *)
(* together with what the previous interval left over, and yielded.        *)
(*                                                                         *)
(* A sample is its number in the dataset.  Its length and what its         *)
(* encoding does are chosen once, in the initial state.  The order of the  *)
(* packs of one interval is left open: the set of them is kept.            *)
(***************************************************************************)
EXTENDS Integers, Sequences, FiniteSets, FiniteSetsExt, BinPacking

CONSTANTS
    NumSamples,       \* samples of the dataset
    PackingInterval,  \* packing_interval
    PackingLength,    \* packing_length
    NumProc,          \* num_proc
    MaxLength,        \* bound: tokens of an encoded sample
    Strict,           \* strict
    MaxIters          \* bound: calls of __iter__, one after the other

ASSUME PackingAssumption ==
    /\ NumSamples \in Nat
    /\ PackingInterval \in Nat \ {0} /\ PackingLength \in Nat \ {0}
    /\ NumProc \in Nat \ {0} /\ MaxLength \in Nat \ {0}
    /\ Strict \in BOOLEAN /\ MaxIters \in Nat \ {0}

VARIABLES
    length,    \* per sample, its tokens
    encoding,  \* per sample: "ok", "too_long" (MaxLengthError), "error"
    pc,        \* "init", "put", "fetch", "pack", "yield", "end"
    iters,     \* calls of __iter__ so far
    next,      \* the next sample of the iterator
    put,       \* samples put in this interval
    num_samples,  \* result of _put_data_in_queue
    fetched,   \* results received in this interval
    res,       \* per position of the interval, its encoded sample or 0
    data,      \* what the previous interval left over
    packs,     \* packs of this interval still to be yielded
    yielded,   \* packs yielded by this iteration
    stopped,   \* the consumer gave the iteration up
    in_queue, out_queue,
    worker     \* per process: the item it encodes, Idle or Dead

mainVars == <<pc, iters, next, put, num_samples, fetched, res, data, packs,
              yielded, stopped>>
vars == <<length, encoding, mainVars, in_queue, out_queue, worker>>

Samples   == 1..NumSamples
Positions == 0..(PackingInterval - 1)
Procs     == 1..NumProc
Items     == [i : Positions, sample : Samples]
Results   == [i : Positions, sample : Samples \cup {0}]
Idle == [i |-> -1, sample |-> 0]
Dead == [i |-> -2, sample |-> 0]
NoResult == [i \in Positions |-> 0]

Init ==
    /\ length \in [Samples -> 1..MaxLength]
    /\ encoding \in [Samples -> {"ok", "too_long", "error"}]
    /\ pc = "init" /\ iters = 0
    /\ next = 1 /\ put = 0 /\ num_samples = 0 /\ fetched = 0
    /\ res = NoResult /\ data = {} /\ packs = {} /\ yielded = {}
    /\ stopped = FALSE
    /\ in_queue = <<>> /\ out_queue = <<>>
    /\ worker = [w \in Procs |-> Idle]

-----------------------------------------------------------------------------
(* The iterating process.                                                  *)

(* A call of __iter__; an empty dataset ends it at once.                   *)
Iter ==
    /\ pc \in {"init", "end"} /\ iters < MaxIters
    /\ iters' = iters + 1
    /\ next' = 1 /\ put' = 0 /\ data' = {} /\ packs' = {} /\ yielded' = {}
    /\ stopped' = FALSE
    /\ pc' = IF NumSamples = 0 THEN "end" ELSE "put"
    /\ UNCHANGED <<length, encoding, num_samples, fetched, res, in_queue,
                   out_queue, worker>>

(* One turn of the loop of _put_data_in_queue.                             *)
PutData ==
    /\ pc = "put" /\ put < PackingInterval /\ next <= NumSamples
    /\ in_queue' = Append(in_queue, [i |-> put, sample |-> next])
    /\ put' = put + 1 /\ next' = next + 1
    /\ UNCHANGED <<length, encoding, pc, iters, num_samples, fetched, res, data,
                   packs, yielded, stopped, out_queue, worker>>

(* Its end: the interval is full, or the iterator raised StopIteration.    *)
PutEnd ==
    /\ pc = "put" /\ (put = PackingInterval \/ next > NumSamples)
    /\ num_samples' = put /\ fetched' = 0 /\ res' = NoResult
    /\ pc' = "fetch"
    /\ UNCHANGED <<length, encoding, iters, next, put, data, packs, yielded,
                   stopped, in_queue, out_queue, worker>>

(* Variant: the results are kept in the order of their arrival.            *)
FetchDataArrival ==
    /\ pc = "fetch" /\ fetched < num_samples /\ out_queue # <<>>
    /\ res' = [res EXCEPT ![fetched] = Head(out_queue).sample]
    /\ out_queue' = Tail(out_queue)
    /\ fetched' = fetched + 1
    /\ UNCHANGED <<length, encoding, pc, iters, next, put, num_samples, data,
                   packs, yielded, stopped, in_queue, worker>>

(* One turn of the loop of _fetch_data_out_queue: the result goes to its   *)
(* position; an empty one leaves it None.                                  *)
FetchData ==
    /\ pc = "fetch" /\ fetched < num_samples /\ out_queue # <<>>
    /\ res' = [res EXCEPT ![Head(out_queue).i] = Head(out_queue).sample]
    /\ out_queue' = Tail(out_queue)
    /\ fetched' = fetched + 1
    /\ UNCHANGED <<length, encoding, pc, iters, next, put, num_samples, data,
                   packs, yielded, stopped, in_queue, worker>>

(* Variant: the loop ends when the queue is empty.                         *)
FetchEndEarly ==
    /\ pc = "fetch" /\ (fetched = num_samples \/ out_queue = <<>>)
    /\ pc' = "pack"
    /\ UNCHANGED <<length, encoding, iters, next, put, num_samples, fetched, res,
                   data, packs, yielded, stopped, in_queue, out_queue, worker>>

FetchEnd ==
    /\ pc = "fetch" /\ fetched = num_samples
    /\ pc' = "pack"
    /\ UNCHANGED <<length, encoding, iters, next, put, num_samples, fetched, res,
                   data, packs, yielded, stopped, in_queue, out_queue, worker>>

Finished == num_samples # PackingInterval

(* Variant: the last bin is held back in the last interval too.            *)
CalculateMatchedGroupHolds ==
    LET samples == data \cup ({res[i] : i \in 0..(num_samples - 1)} \ {0})
    IN  /\ pc = "pack"
        /\ \E bins \in BinPackings(samples, length, PackingLength) :
              \/ bins = {} /\ packs' = {} /\ data' = {}
              \/ \E last \in bins : packs' = bins \ {last} /\ data' = last
        /\ pc' = "yield"
        /\ UNCHANGED <<length, encoding, iters, next, put, num_samples, fetched,
                       res, yielded, stopped, in_queue, out_queue, worker>>

(* calculate_matched_group: the last bin is held back for the next         *)
(* interval, unless there is none.                                         *)
CalculateMatchedGroup ==
    LET samples == data \cup ({res[i] : i \in 0..(num_samples - 1)} \ {0})
    IN  /\ pc = "pack"
        /\ \E bins \in BinPackings(samples, length, PackingLength) :
              \/ (bins = {} \/ Finished) /\ packs' = bins /\ data' = {}
              \/ ~Finished /\ \E last \in bins : packs' = bins \ {last} /\ data' = last
        /\ pc' = "yield"
        /\ UNCHANGED <<length, encoding, iters, next, put, num_samples, fetched,
                       res, yielded, stopped, in_queue, out_queue, worker>>

(* The consumer takes a pack and comes back ...                            *)
Yield ==
    /\ pc = "yield"
    /\ \E pack \in packs : packs' = packs \ {pack} /\ yielded' = yielded \cup {pack}
    /\ UNCHANGED <<length, encoding, pc, iters, next, put, num_samples, fetched,
                   res, data, stopped, in_queue, out_queue, worker>>

(* ... or takes it, and drops the generator, which is suspended there.     *)
Abandon ==
    /\ pc = "yield"
    /\ \E pack \in packs : packs' = packs \ {pack} /\ yielded' = yielded \cup {pack}
    /\ stopped' = TRUE
    /\ pc' = "end"
    /\ UNCHANGED <<length, encoding, iters, next, put, num_samples, fetched, res,
                   data, in_queue, out_queue, worker>>

(* After the packs: the next interval, or the end of the iteration.        *)
YieldEnd ==
    /\ pc = "yield" /\ packs = {}
    /\ pc' = IF Finished THEN "end" ELSE "put"
    /\ put' = 0
    /\ UNCHANGED <<length, encoding, iters, next, num_samples, fetched, res, data,
                   packs, yielded, stopped, in_queue, out_queue, worker>>

-----------------------------------------------------------------------------
(* The worker processes: _processor.                                       *)

ProcessorGet(w) ==
    /\ worker[w] = Idle /\ in_queue # <<>>
    /\ worker' = [worker EXCEPT ![w] = Head(in_queue)]
    /\ in_queue' = Tail(in_queue)
    /\ UNCHANGED <<length, encoding, mainVars, out_queue>>

(* strict re-raises what is not a MaxLengthError.                          *)
EncodeRaises(w) == Strict /\ encoding[worker[w].sample] = "error"

(* Variant: a sample that did not encode is not answered.                  *)
ProcessorPutSkips(w) ==
    /\ worker[w] \in Items /\ ~EncodeRaises(w)
    /\ out_queue' = IF encoding[worker[w].sample] = "ok"
                    THEN Append(out_queue, worker[w]) ELSE out_queue
    /\ worker' = [worker EXCEPT ![w] = Idle]
    /\ UNCHANGED <<length, encoding, mainVars, in_queue>>

(* The encoded sample, or an empty dict.                                   *)
ProcessorPut(w) ==
    /\ worker[w] \in Items /\ ~EncodeRaises(w)
    /\ out_queue' = Append(out_queue,
                           IF encoding[worker[w].sample] = "ok" THEN worker[w]
                           ELSE [worker[w] EXCEPT !.sample = 0])
    /\ worker' = [worker EXCEPT ![w] = Idle]
    /\ UNCHANGED <<length, encoding, mainVars, in_queue>>

(* strict: the exception ends the process.                                 *)
ProcessorRaises(w) ==
    /\ worker[w] \in Items /\ EncodeRaises(w)
    /\ worker' = [worker EXCEPT ![w] = Dead]
    /\ UNCHANGED <<length, encoding, mainVars, in_queue, out_queue>>

-----------------------------------------------------------------------------
Main ==
    \/ PutData \/ PutEnd \/ FetchData \/ FetchEnd \/ CalculateMatchedGroup
    \/ Yield \/ YieldEnd

Processor(w) == ProcessorGet(w) \/ ProcessorPut(w) \/ ProcessorRaises(w)

Next == Iter \/ Main \/ Abandon \/ \E w \in Procs : Processor(w)

Spec == Init /\ [][Next]_vars

-----------------------------------------------------------------------------
(* Properties.                                                             *)

(* Every variable keeps its type: results fit the interval, and no sample  *)
(* number leaves the dataset.                                              *)
TypeOK ==
    /\ length \in [Samples -> 1..MaxLength]
    /\ encoding \in [Samples -> {"ok", "too_long", "error"}]
    /\ pc \in {"init", "put", "fetch", "pack", "yield", "end"}
    /\ iters \in 0..MaxIters
    /\ next \in 1..(NumSamples + 1)
    /\ put \in 0..PackingInterval /\ num_samples \in 0..PackingInterval
    /\ fetched \in 0..PackingInterval
    /\ res \in [Positions -> Samples \cup {0}]
    /\ data \subseteq Samples
    /\ packs \subseteq SUBSET Samples /\ yielded \subseteq SUBSET Samples
    /\ stopped \in BOOLEAN
    /\ in_queue \in Seq(Items) /\ out_queue \in Seq(Results)
    /\ worker \in [Procs -> Items \cup {Idle, Dead}]

Encoded == {s \in Samples : encoding[s] = "ok"}

(* What is packed does not depend on the workers: whatever order the       *)
(* results come back in, and after any number of complete or abandoned     *)
(* iterations, position i holds the i-th sample of this interval, or       *)
(* nothing if that sample did not encode.                                  *)
PackedInDatasetOrder ==
    pc = "pack" =>
        \A i \in 0..(num_samples - 1) :
            res[i] = IF next - num_samples + i \in Encoded
                     THEN next - num_samples + i ELSE 0

(* No sample is yielded twice in an iteration, and one that runs to its    *)
(* end has yielded every sample that encodes, also when the dataset is a   *)
(* multiple of the interval and the last interval is empty.                *)
EachSampleOnce ==
    /\ \A p, q \in yielded \cup packs \cup {data} : p # q => p \cap q = {}
    /\ (pc = "end" /\ iters > 0 /\ ~stopped) => UNION yielded = Encoded

(* Nothing is on its way while a pack is handed out, so an iteration that  *)
(* is dropped leaves no result for the next one to take for its own.       *)
QuietYield ==
    pc \in {"yield", "end"} =>
        /\ in_queue = <<>> /\ out_queue = <<>>
        /\ \A w \in Procs : worker[w] = Idle

(* Every iteration ends, unless a strict worker process has died: a sample *)
(* that is too long, or does not encode, is answered too.                  *)
IterationEndsOrDead == pc = "put" ~> (pc = "end" \/ \E w \in Procs : worker[w] = Dead)
=============================================================================
