-------------------------- MODULE TransformersEngine --------------------------
(***************************************************************************)
(* The request queue of swift/infer_engine/transformers_engine.py, behind  *)
(* `swift deploy --infer_backend transformers`: coroutines put requests in *)
(* a queue, one worker thread groups them by request_config into batches   *)
(* of at most max_batch_size, runs _infer, and puts the results on the     *)
(* asyncio queue of each request.                                          *)
(*                                                                         *)
(* Requests are numbered in the order of their _queue.put.  A response is  *)
(* abstracted to what it was computed from: the prompt of which request,   *)
(* with which request_config and which adapter, and for a stream the       *)
(* number of the chunk.                                                    *)
(***************************************************************************)
EXTENDS Integers, Sequences, FiniteSets, SequencesExt, Masking

CONSTANTS
    NumRequests,   \* bound: requests submitted
    Configs,       \* request_config values
    Streams,       \* the request_configs with stream=True
    Adapters,      \* adapter_request values, "base" for None
    BatchSizes,    \* values of max_batch_size; <= 0 is no limit
    StrictModes,   \* values of engine.strict: an encoding error raises
    MaxBad,        \* bound: requests whose encoding raises
    MaxNamed,      \* bound: requests that name an adapter
    MaxChunks,     \* bound: rounds of a stream before its last
    MaxRaises      \* bound: generations that raise

ASSUME EngineAssumption ==
    /\ NumRequests \in Nat \ {0}
    /\ Streams \subseteq Configs
    /\ "base" \in Adapters
    /\ BatchSizes \subseteq Int /\ StrictModes \subseteq BOOLEAN
    /\ MaxBad \in Nat /\ MaxNamed \in Nat /\ MaxChunks \in Nat /\ MaxRaises \in Nat

VARIABLES
    max_batch_size, strict,  \* attributes of the engine, fixed when it starts
    client,   \* per request: "new", "put", "waiting", "done"
    request,  \* the requests submitted, in order
    inbox,    \* self._queue
    pool,     \* self._task_pool, a dict in insertion order
    thread,   \* self._task_thread: "none", "fetch", "infer", "stream", "stop", "dead"
    batch,    \* the requests of the running batch
    kwargs,   \* its request_config and adapter_request
    adapters_pool,  \* self._adapters_pool
    chunks,   \* rounds of the running stream
    outbox,   \* per request, its asyncio queue
    got,      \* per request, what infer_async has handed to its caller
    sent,     \* history: per request, the chunks generated for it
    raises

engineVars == <<max_batch_size, strict>>
clientVars == <<client, request, got>>
batchVars  == <<pool, batch, kwargs>>
vars == <<engineVars, clientVars, inbox, batchVars, thread, adapters_pool, chunks, outbox,
          sent, raises>>

Ids == 1..NumRequests
None == [kind |-> "none"]
NoKwargs == [config |-> "none", adapter |-> "none"]
Item(kind, r, n) == [kind |-> kind, of |-> r, n |-> n,
                     config |-> kwargs.config, adapter |-> kwargs.adapter]

Init ==
    /\ max_batch_size \in BatchSizes /\ strict \in StrictModes
    /\ client = [r \in Ids |-> "new"]
    /\ request = <<>> /\ inbox = <<>> /\ pool = <<>>
    /\ thread = "none"
    /\ batch = <<>> /\ kwargs = NoKwargs
    /\ adapters_pool = {}
    /\ chunks = 0
    /\ outbox = [r \in Ids |-> <<>>] /\ got = [r \in Ids |-> <<>>]
    /\ sent = [r \in Ids |-> <<>>]
    /\ raises = 0

-----------------------------------------------------------------------------
(* The coroutines: infer_async.                                            *)

(* self._queue.put, up to the first await.  With an adapter only one       *)
(* request at a time: PEFT refuses an adapter_names list shorter than the  *)
(* batch.                                                                  *)
InferAsync ==
    /\ Len(request) < NumRequests
    /\ \E c \in Configs, a \in Adapters, bad \in BOOLEAN :
          /\ a # "base" =>
                /\ max_batch_size = 1
                /\ Cardinality({i \in 1..Len(request) : request[i].adapter # "base"}) < MaxNamed
          /\ bad => Cardinality({i \in 1..Len(request) : request[i].bad}) < MaxBad
          /\ request' = Append(request, [config |-> c, adapter |-> a, bad |-> bad])
    /\ inbox' = Append(inbox, Len(request) + 1)
    /\ client' = [client EXCEPT ![Len(request) + 1] = "put"]
    /\ UNCHANGED <<engineVars, got, batchVars, thread, adapters_pool, chunks, outbox, sent,
                   raises>>

(* After `await asyncio.sleep(0)`: start the worker if there is none.      *)
StartInferWorker(r) ==
    /\ client[r] = "put"
    /\ client' = [client EXCEPT ![r] = "waiting"]
    /\ thread' = IF thread = "none" THEN "fetch" ELSE thread
    /\ UNCHANGED <<engineVars, request, got, inbox, batchVars, adapters_pool, chunks,
                   outbox, sent, raises>>

(* `await queue.get()`: the response of a request without streaming, or    *)
(* the next item of _gen_wrapper, which ends at the first None.            *)
Receive(r) ==
    LET item == Head(outbox[r])
    IN  /\ client[r] = "waiting" /\ outbox[r] # <<>>
        /\ outbox' = [outbox EXCEPT ![r] = Tail(@)]
        /\ IF request[r].config \in Streams /\ item = None
           THEN client' = [client EXCEPT ![r] = "done"] /\ UNCHANGED got
           ELSE /\ got' = [got EXCEPT ![r] = Append(@, item)]
                /\ client' = IF request[r].config \in Streams THEN client
                             ELSE [client EXCEPT ![r] = "done"]
        /\ UNCHANGED <<engineVars, request, inbox, batchVars, thread, adapters_pool, chunks,
                       sent, raises>>

-----------------------------------------------------------------------------
(* The worker thread: _fetch_infer_requests.                               *)

(* Variant: the pool key ignores the request_config.                       *)
PoolKeyConstant(r) == 0

(* sha256 of the pickled request_config; the adapter is not part of it.    *)
PoolKey(r) == request[r].config

(* One turn of `while not self._queue.empty()`.  A new entry of the pool   *)
(* keeps the kwargs of the request that created it.                        *)
PoolRequest ==
    LET r == Head(inbox)
        known == {i \in 1..Len(pool) : pool[i].key = PoolKey(r)}
    IN  /\ thread = "fetch" /\ inbox # <<>>
        /\ inbox' = Tail(inbox)
        /\ pool' = IF known = {}
                   THEN Append(pool, [key |-> PoolKey(r),
                                      kwargs |-> [config |-> request[r].config,
                                                  adapter |-> request[r].adapter],
                                      data |-> <<r>>])
                   ELSE [i \in 1..Len(pool) |->
                           IF i \in known
                           THEN [pool[i] EXCEPT !.data = Append(@, r)] ELSE pool[i]]
        /\ UNCHANGED <<engineVars, clientVars, batch, kwargs, thread, adapters_pool,
                       chunks, outbox, sent, raises>>

(* The rest: a batch from the first entry of the pool.                     *)
FetchBatch ==
    LET entry == Head(pool)
        limit == IF max_batch_size <= 0 THEN Len(entry.data) ELSE max_batch_size
        size  == IF limit < Len(entry.data) THEN limit ELSE Len(entry.data)
    IN  /\ thread = "fetch" /\ inbox = <<>> /\ pool # <<>>
        /\ batch' = SubSeq(entry.data, 1, size)
        /\ pool' = IF size < Len(entry.data)
                   THEN [pool EXCEPT ![1].data = SubSeq(@, size + 1, Len(@))]
                   ELSE Tail(pool)
        /\ kwargs' = entry.kwargs
        /\ thread' = "infer"
        /\ UNCHANGED <<engineVars, clientVars, inbox, adapters_pool, chunks, outbox, sent, raises>>

-----------------------------------------------------------------------------
(* _infer and the delivery of its results.                                 *)

(* Which requests of the batch encode, and which do not.                   *)
Encodes == [i \in 1..Len(batch) |-> IF request[batch[i]].bad THEN 0 ELSE 1]
Fails   == [i \in 1..Len(batch) |-> IF request[batch[i]].bad THEN 1 ELSE 0]

(* The requests of the batch that encode.                                  *)
Good == Masked(batch, Encodes)

(* Positions and errors of the requests that did not encode.               *)
ErrorList ==
    Masked([i \in 1..Len(batch) |-> [at |-> i, error |-> Item("error", batch[i], 0)]], Fails)

(* Variant: the errors go to the end.                                      *)
AddErrorListAtEnd(outputs, errors) ==
    outputs \o [j \in 1..Len(errors) |-> errors[j].error]

(* outputs.insert(i, error) for the errors in the order of the batch.      *)
AddErrorList(outputs, errors) ==
    LET after[k \in 0..Len(errors)] ==
          IF k = 0 THEN outputs ELSE InsertAt(after[k - 1], errors[k].at, errors[k].error)
    IN  after[Len(errors)]

(* queue.put(res) for every request of the batch and its result.           *)
Deliver(results) ==
    outbox' = [r \in Ids |->
                 LET at == {i \in 1..Len(batch) : batch[i] = r}
                 IN  IF at = {} THEN outbox[r]
                     ELSE Append(outbox[r], results[CHOOSE i \in at : TRUE])]

(* History: the text generated for the requests rs in this round.          *)
Generated(rs) ==
    sent' = [r \in Ids |-> IF r \in rs THEN Append(sent[r], Item("chunk", r, Len(sent[r]) + 1))
                           ELSE sent[r]]

(* The output for the requests that encoded: a chunk, or None if there is  *)
(* no printable text for it in this round.                                 *)
Outputs(rs) ==
    AddErrorList([i \in 1..Len(Good) |->
                    IF Good[i] \in rs THEN Item("chunk", Good[i], Len(sent[Good[i]]) + 1)
                    ELSE None], ErrorList)

(* _get_adapter_names loads an adapter at its first use.                   *)
UseAdapter ==
    adapters_pool' = IF Good = <<>> \/ kwargs.adapter = "base" THEN adapters_pool
                     ELSE adapters_pool \cup {kwargs.adapter}

(* strict re-raises the error of an encoding.                              *)
EncodeRaises == strict /\ Len(Good) # Len(batch)

(* Without streaming: one result for each request.                         *)
InferFull ==
    /\ thread = "infer" /\ ~EncodeRaises
    /\ kwargs.config \notin Streams
    /\ UseAdapter
    /\ Deliver(Outputs(Range(Good)))
    /\ Generated(Range(Good))
    /\ thread' = "fetch" /\ batch' = <<>> /\ kwargs' = NoKwargs
    /\ UNCHANGED <<engineVars, clientVars, inbox, pool, chunks, raises>>

(* With streaming _infer returns a generator ...                           *)
InferStream ==
    /\ thread = "infer" /\ ~EncodeRaises
    /\ kwargs.config \in Streams
    /\ UseAdapter
    /\ chunks' = 0
    /\ thread' = "stream"
    /\ UNCHANGED <<engineVars, clientVars, inbox, batchVars, outbox, sent, raises>>

(* Variant: rounds without any text are yielded too.                       *)
StreamRoundEmpty ==
    /\ thread = "stream" /\ chunks < MaxChunks
    /\ \E rs \in SUBSET Range(Good) : Deliver(Outputs(rs)) /\ Generated(rs)
    /\ chunks' = chunks + 1
    /\ UNCHANGED <<engineVars, clientVars, inbox, batchVars, thread, adapters_pool, raises>>

(* ... that yields a round as soon as one request has printable text, and  *)
(* None for the others.                                                    *)
StreamRound ==
    /\ thread = "stream" /\ chunks < MaxChunks
    /\ \E rs \in (SUBSET Range(Good)) \ {{}} : Deliver(Outputs(rs)) /\ Generated(rs)
    /\ chunks' = chunks + 1
    /\ UNCHANGED <<engineVars, clientVars, inbox, batchVars, thread, adapters_pool, raises>>

(* The streamer is exhausted: the last round, with the rest of every text. *)
StreamLast ==
    /\ thread = "stream"
    /\ Deliver(Outputs(Range(Good))) /\ Generated(Range(Good))
    /\ thread' = "stop"
    /\ UNCHANGED <<engineVars, clientVars, inbox, batchVars, adapters_pool, chunks, raises>>

(* Variant: no end marker.                                                 *)
StreamStopSilent ==
    /\ thread = "stop"
    /\ thread' = "fetch" /\ batch' = <<>> /\ kwargs' = NoKwargs
    /\ UNCHANGED <<engineVars, clientVars, inbox, pool, adapters_pool, chunks, outbox,
                   sent, raises>>

(* StopIteration: None to every request.                                   *)
StreamStop ==
    /\ thread = "stop"
    /\ Deliver([i \in 1..Len(batch) |-> None])
    /\ thread' = "fetch" /\ batch' = <<>> /\ kwargs' = NoKwargs
    /\ UNCHANGED <<engineVars, clientVars, inbox, pool, adapters_pool, chunks, sent, raises>>

(* An exception in _infer ends the thread; nothing starts another.         *)
InferRaises ==
    /\ \/ thread = "infer" /\ EncodeRaises /\ UNCHANGED raises
       \/ /\ thread \in {"infer", "stream"} /\ Good # <<>>
          /\ raises < MaxRaises
          /\ raises' = raises + 1
    /\ thread' = "dead"
    /\ UNCHANGED <<engineVars, clientVars, inbox, batchVars, adapters_pool, chunks, outbox, sent>>

-----------------------------------------------------------------------------
Coroutines == \E r \in Ids : StartInferWorker(r) \/ Receive(r)

InferWorker ==
    \/ PoolRequest \/ FetchBatch \/ InferFull \/ InferStream
    \/ StreamRound \/ StreamLast \/ StreamStop

Next == InferAsync \/ Coroutines \/ InferWorker \/ InferRaises

Spec == Init /\ [][Next]_vars

(* The event loop and the worker thread keep running; nobody has to submit *)
(* a request.                                                              *)
FairSpec == Spec /\ WF_vars(Coroutines) /\ WF_vars(InferWorker \/ InferRaises)

-----------------------------------------------------------------------------
(* Properties.                                                             *)

(* What a caller can receive.                                              *)
Items == [kind : {"chunk", "error"}, of : Ids, n : 0..(MaxChunks + 1),
          config : Configs, adapter : Adapters]

(* Every variable keeps its type, and no batch exceeds max_batch_size.     *)
TypeOK ==
    /\ max_batch_size \in BatchSizes /\ strict \in StrictModes
    /\ client \in [Ids -> {"new", "put", "waiting", "done"}]
    /\ request \in Seq([config : Configs, adapter : Adapters, bad : BOOLEAN])
    /\ inbox \in Seq(Ids)
    /\ \A i \in 1..Len(pool) : pool[i].data \in Seq(Ids) /\ pool[i].data # <<>>
    /\ thread \in {"none", "fetch", "infer", "stream", "stop", "dead"}
    /\ batch \in Seq(Ids)
    /\ max_batch_size > 0 => Len(batch) <= max_batch_size
    /\ kwargs \in [config : Configs, adapter : Adapters] \cup {NoKwargs}
    /\ adapters_pool \subseteq Adapters \ {"base"}
    /\ chunks \in 0..MaxChunks
    /\ outbox \in [Ids -> Seq(Items \cup {None})]
    /\ got \in [Ids -> Seq(Items)]
    /\ sent \in [Ids -> Seq(Items)]
    /\ raises \in 0..MaxRaises

(* The request_configs of the requests, and the adapters named with them.  *)
NamedWith == {<<request[s].config, request[s].adapter>> : s \in 1..Len(request)}

(* Whatever was pooled and batched with it, and whichever requests of the  *)
(* batch did not encode, a caller receives only what was computed from its *)
(* own prompt with its own request_config, and an error only for its own   *)
(* encoding.  As a pool entry keeps the kwargs of the request that created *)
(* it, the adapter is one that some request with this request_config       *)
(* named: its own, if these requests name one adapter only.                *)
OwnAnswer ==
    \A r \in Ids : \A i \in 1..Len(got[r]) :
        /\ got[r][i].of = r
        /\ got[r][i].config = request[r].config
        /\ <<request[r].config, got[r][i].adapter>> \in NamedWith
        /\ (got[r][i].kind = "error") <=> request[r].bad

(* A caller receives the chunks generated for it in order, without a gap,  *)
(* and all of them if max_batch_size is 1, as a stream shares its rounds   *)
(* with no other.                                                          *)
StreamInOrder ==
    \A r \in Ids : (client[r] \in {"waiting", "done"} /\ ~request[r].bad) =>
        /\ IsPrefix(got[r], sent[r])
        /\ (client[r] = "done" /\ max_batch_size = 1) => got[r] = sent[r]

(* A stream read to its end contains every chunk generated for it (the     *)
(* chunks a caller may skip are None items, not text), in any batch.       *)
StreamIsComplete ==
    \A r \in Ids : (client[r] = "done" /\ ~request[r].bad) => got[r] = sent[r]

(* A request is answered by the adapter it names.                          *)
OwnAdapter ==
    \A r \in Ids : \A i \in 1..Len(got[r]) : got[r][i].adapter = request[r].adapter

(* Every request is answered: neither the start of the worker nor the      *)
(* sharing of batches loses one.  The only way for a request not to be     *)
(* answered is the death of the worker thread in a generation, or a strict *)
(* encoding, that raises.                                                  *)
AnsweredOrDead ==
    \A r \in Ids : client[r] = "put" ~> (client[r] = "done" \/ thread = "dead")
=============================================================================
