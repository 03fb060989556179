---------------------- MODULE TransformersEngineInvariant ----------------------
(***************************************************************************)
(* The inductive invariant of TransformersEngine.  A request is at every   *)
(* moment in at most one place of the engine (its queue, an entry of the   *)
(* pool, the batch), the entries and the batch hold requests of one        *)
(* request_config, and what a caller has received followed by what lies    *)
(* for it on its asyncio queue is what was generated for it.               *)
(***************************************************************************)
EXTENDS TransformersEngine

Request == [config : Configs, adapter : Adapters, bad : BOOLEAN]
Kwargs == [config : Configs, adapter : Adapters]
Entry == [key : Configs, kwargs : Kwargs, data : Seq(Ids)]

(* The variables of the workers and of the callers, with their types.      *)
Types ==
    /\ max_batch_size \in BatchSizes /\ strict \in StrictModes
    /\ client \in [Ids -> {"new", "put", "waiting", "done"}]
    /\ request \in Seq(Request) /\ Len(request) <= NumRequests
    /\ inbox \in Seq(Ids)
    /\ pool \in Seq(Entry)
    /\ thread \in {"none", "fetch", "infer", "stream", "stop", "dead"}
    /\ batch \in Seq(Ids)
    /\ kwargs \in Kwargs \cup {NoKwargs}
    /\ adapters_pool \subseteq Adapters \ {"base"}
    /\ chunks \in 0..MaxChunks
    /\ outbox \in [Ids -> Seq(Items \cup {None})]
    /\ got \in [Ids -> Seq(Items)]
    /\ sent \in [Ids -> Seq(Items)]
    /\ raises \in 0..MaxRaises

-----------------------------------------------------------------------------
(* Where a request can be.                                                 *)
InInbox(r) == \E i \in 1..Len(inbox) : inbox[i] = r
InPool(r)  == \E k \in 1..Len(pool) : \E i \in 1..Len(pool[k].data) : pool[k].data[i] = r
InBatch(r) == \E i \in 1..Len(batch) : batch[i] = r
Pending(r) == InInbox(r) \/ InPool(r) \/ InBatch(r)

(* In no place twice, and in one place only.                               *)
Once ==
    /\ \A i, j \in 1..Len(inbox) : inbox[i] = inbox[j] => i = j
    /\ \A k, l \in 1..Len(pool) : \A i \in 1..Len(pool[k].data), j \in 1..Len(pool[l].data) :
          pool[k].data[i] = pool[l].data[j] => k = l /\ i = j
    /\ \A i, j \in 1..Len(batch) : batch[i] = batch[j] => i = j
    /\ \A r \in Ids : /\ ~(InInbox(r) /\ InPool(r))
                      /\ ~(InInbox(r) /\ InBatch(r))
                      /\ ~(InPool(r) /\ InBatch(r))

(* The entries of the pool have different keys, and each holds the         *)
(* requests of its request_config, and the adapter of one of these.        *)
PoolOfKeys ==
    /\ \A k, l \in 1..Len(pool) : pool[k].key = pool[l].key => k = l
    /\ \A k \in 1..Len(pool) :
          /\ pool[k].data # <<>> /\ pool[k].kwargs.config = pool[k].key
          /\ <<pool[k].key, pool[k].kwargs.adapter>> \in NamedWith
          /\ \A i \in 1..Len(pool[k].data) : request[pool[k].data[i]].config = pool[k].key

(* So does the batch, and it is of a size that is allowed.                 *)
BatchOfConfig ==
    /\ thread \in {"infer", "stream", "stop"} =>
          /\ batch # <<>> /\ kwargs \in Kwargs
          /\ <<kwargs.config, kwargs.adapter>> \in NamedWith
          /\ \A i \in 1..Len(batch) : request[batch[i]].config = kwargs.config
    /\ thread \in {"stream", "stop"} => kwargs.config \in Streams
    /\ thread \in {"none", "fetch"} => batch = <<>>
    /\ max_batch_size > 0 => Len(batch) <= max_batch_size

(* Only requests that were submitted are pending or have anything.         *)
Submitted ==
    \A r \in Ids :
        IF r <= Len(request) THEN client[r] # "new"
        ELSE /\ client[r] = "new" /\ ~Pending(r)
             /\ got[r] = <<>> /\ outbox[r] = <<>> /\ sent[r] = <<>>

-----------------------------------------------------------------------------
(* An item that is right for request r.                                    *)
Fits(r, x) ==
    /\ x.of = r /\ x.config = request[r].config
    /\ <<request[r].config, x.adapter>> \in NamedWith
    /\ (x.kind = "error") <=> request[r].bad

(* What lies on the asyncio queues; None ends or pauses streams only.      *)
OwnOutbox ==
    \A r \in Ids : \A i \in 1..Len(outbox[r]) :
        IF outbox[r][i] = None THEN request[r].config \in Streams ELSE Fits(r, outbox[r][i])

(* The items of an asyncio queue that carry text.                          *)
Text(q) == Masked(q, [i \in 1..Len(q) |-> IF q[i] = None THEN 0 ELSE 1])

(* Nothing that was generated is lost, repeated or out of order.           *)
NothingLost ==
    \A r \in 1..Len(request) : ~request[r].bad => got[r] \o Text(outbox[r]) = sent[r]

(* Nothing was generated for a request before its batch runs.              *)
NotYet ==
    /\ \A r \in Ids : (InInbox(r) \/ InPool(r)) => sent[r] = <<>>
    /\ thread = "infer" => \A i \in 1..Len(batch) : sent[batch[i]] = <<>>
    /\ thread = "stream" => \A i \in 1..Len(batch) : Len(sent[batch[i]]) <= chunks

(* The item with which a caller is done.                                   *)
Ends(r, x) == request[r].config \in Streams => x = None

(* In batches of one, the item that ends a request is the last it gets.    *)
EndsOnce ==
    max_batch_size = 1 =>
        \A r \in 1..Len(request) :
            /\ \A i \in 1..Len(outbox[r]) :
                  Ends(r, outbox[r][i]) => i = Len(outbox[r]) /\ ~Pending(r)
            /\ client[r] = "done" => outbox[r] = <<>> /\ ~Pending(r)

IInv ==
    /\ Types /\ Once /\ PoolOfKeys /\ BatchOfConfig /\ Submitted
    /\ OwnAnswer /\ OwnOutbox /\ NothingLost /\ NotYet /\ EndsOnce
=============================================================================
