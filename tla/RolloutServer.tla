---------------------------- MODULE RolloutServer ----------------------------
(***************************************************************************)
(* `swift rollout` and its client: the trainer's VLLMClient talks HTTP to  *)
(* one or more servers; each server forwards to its data-parallel worker   *)
(* processes over one pipe per worker.                                     *)
(*                                                                         *)
(* Modelled: swift/pipelines/infer/rollout.py (handlers, worker loop,      *)
(* WeightSyncWorkerExtension) and swift/rlhf_trainers/vllm_client.py.      *)
(*                                                                         *)
(* Communicator set-up and weight updates are "fire_and_forget": the       *)
(* handler answers as soon as the command is in the pipes, the data travel *)
(* in a collective between the client's thread and all workers, and a      *)
(* worker loads them after the barrier, when the client has already gone   *)
(* on.  Inference and cache resets are "call": the handler blocks the      *)
(* server's event loop until every worker has replied.                     *)
(*                                                                         *)
(* A client sets up its communicators, then repeats what one generation of *)
(* the trainer does: send every bucket of the new weights, reset the       *)
(* prefix cache, infer.  When it exits it closes the communicators; the    *)
(* next trainer may then use the same servers.  A worker may raise during  *)
(* inference (it then replies None) or die.                                *)
(***************************************************************************)
EXTENDS Integers, Sequences

CONSTANTS
    NumServers,   \* the base_urls of the client
    NumWorkers,   \* connections of each server
    NumBuckets,   \* update requests of one weight synchronisation
    Rounds,       \* bound: synchronisations of one client
    NumClients,   \* bound: trainers using the servers, one after the other
    MaxRaises,    \* bound: inference calls that raise in a worker
    MaxDeaths,    \* bound: worker processes that die
    MaxCalls      \* bound: calls after which a client does not call again

ASSUME ServerAssumption ==
    /\ NumServers \in Nat \ {0} /\ NumWorkers \in Nat \ {0}
    /\ NumBuckets \in Nat \ {0} /\ Rounds \in Nat \ {0}
    /\ NumClients \in Nat \ {0} /\ MaxCalls \in Nat
    /\ MaxRaises \in Nat /\ MaxDeaths \in Nat

VARIABLES
    op,        \* the client's call: a method, or "exited"
    client,    \* which trainer is running
    version,   \* the policy version being sent or used
    bucket,    \* the bucket being sent
    id,        \* number of the client call, to pair replies with requests
    thread,    \* the client's thread per server: "post", "bcast", "wait", "ok", "error"
    handler,   \* per server, the replies the running handler has received
    pipe,      \* per worker, commands sent and not yet taken
    reply,     \* per worker, replies sent and not yet received
    worker,    \* "idle", "join" (in a collective), "load" (past it), "dead"
    current,   \* per worker, the command being executed
    communicator,  \* per worker, the client its communicator belongs to, or 0
    weights,   \* per worker and bucket, the version loaded
    cache,     \* per worker, weight versions with blocks in the prefix cache
    raises, deaths,
    results    \* per server, the outputs of its last successful call

clientVars == <<op, client, version, bucket, id>>
workerVars == <<worker, current, communicator, weights, cache>>
faultVars  == <<raises, deaths>>
vars == <<clientVars, thread, handler, pipe, reply, workerVars, faultVars, results>>

Servers  == 1..NumServers
Workers  == 1..NumWorkers
Buckets  == 1..NumBuckets
Cells    == Servers \X Workers
Methods  == {"init", "update", "reset", "infer", "close"}
Versions == 0..(Rounds * NumClients)

Commands == [method : Methods, id : Nat, client : 1..NumClients,
             version : Versions, bucket : Buckets]

(* Replies: what the pipe carries back, tagged with the call it answers;   *)
(* seen = {} stands for the None of a method that raised.                  *)
Replies == [id : Nat, seen : SUBSET Versions]

NoCommand == [method |-> "none"]

(* What inference in a worker depends on.                                  *)
SampledFrom(c) == {weights[c][b] : b \in Buckets} \cup cache[c]

Init ==
    /\ op = "init" /\ client = 1 /\ version = 0 /\ bucket = 1 /\ id = 1
    /\ thread = [s \in Servers |-> "post"]
    /\ handler = [s \in Servers |-> <<>>]
    /\ pipe = [c \in Cells |-> <<>>] /\ reply = [c \in Cells |-> <<>>]
    /\ worker = [c \in Cells |-> "idle"]
    /\ current = [c \in Cells |-> NoCommand]
    /\ communicator = [c \in Cells |-> 0]
    /\ weights = [c \in Cells |-> [b \in Buckets |-> 0]]
    /\ cache = [c \in Cells |-> {}]
    /\ raises = 0 /\ deaths = 0
    /\ results = [s \in Servers |-> <<>>]

-----------------------------------------------------------------------------
(* The server's request handlers.                                          *)

(* Connections the handler sends to: it walks them in order and raises     *)
(* BrokenPipeError at the first dead worker.                               *)
Reached(s) == {w \in Workers : \A v \in 1..w : worker[<<s, v>>] # "dead"}

(* Where the client's thread waits after a successful POST: in the         *)
(* collective, for the reply of a 'call', or not at all.                   *)
AfterPost(method) ==
    CASE method \in {"init", "update"} -> "bcast"
      [] method \in {"reset", "infer"} -> "wait"
      [] method = "close"              -> "ok"

(* A handler has no await: it forwards to its connections in one go, and   *)
(* answers at once if the command is fire_and_forget.  The client opens    *)
(* and closes its communicators server by server; opening stops at the     *)
(* first failure.                                                          *)
Handle(s) ==
    LET command == [method |-> op, id |-> id, client |-> client,
                    version |-> version, bucket |-> bucket]
    IN  /\ thread[s] = "post"
        /\ \A r \in 1..(s - 1) : /\ op = "init" => thread[r] = "ok"
                                 /\ op = "close" => thread[r] \in {"ok", "error"}
        /\ pipe' = [c \in Cells |->
                      IF c[1] = s /\ c[2] \in Reached(s)
                      THEN Append(pipe[c], command) ELSE pipe[c]]
        /\ thread' = [thread EXCEPT ![s] = IF Reached(s) # Workers THEN "error"
                                           ELSE AfterPost(op)]
        /\ handler' = [handler EXCEPT ![s] = <<>>]
        /\ UNCHANGED <<clientVars, reply, workerVars, faultVars, results>>

(* Variant: the handler stops receiving at the first None.                 *)
RecvFailFast(s) ==
    LET c == <<s, Len(handler[s]) + 1>>
    IN  /\ thread[s] = "wait"
        /\ Len(handler[s]) < NumWorkers
        /\ reply[c] # <<>>
        /\ handler' = [handler EXCEPT ![s] = Append(@, Head(reply[c]))]
        /\ thread' = [thread EXCEPT ![s] = IF Head(reply[c]).seen = {} THEN "error" ELSE @]
        /\ reply' = [reply EXCEPT ![c] = Tail(@)]
        /\ UNCHANGED <<clientVars, pipe, workerVars, faultVars, results>>

(* all_outputs = [connection.recv() for connection in self.connections]    *)
Recv(s) ==
    LET c == <<s, Len(handler[s]) + 1>>
    IN  /\ thread[s] = "wait"
        /\ Len(handler[s]) < NumWorkers
        /\ reply[c] # <<>>
        /\ handler' = [handler EXCEPT ![s] = Append(@, Head(reply[c]))]
        /\ reply' = [reply EXCEPT ![c] = Tail(@)]
        /\ UNCHANGED <<clientVars, thread, pipe, workerVars, faultVars, results>>

(* recv from a dead worker raises EOFError: the server answers 500.        *)
RecvEOF(s) ==
    LET c == <<s, Len(handler[s]) + 1>>
    IN  /\ thread[s] = "wait"
        /\ Len(handler[s]) < NumWorkers
        /\ reply[c] = <<>> /\ worker[c] = "dead"
        /\ thread' = [thread EXCEPT ![s] = "error"]
        /\ UNCHANGED <<clientVars, handler, pipe, reply, workerVars, faultVars, results>>

(* The handler answers.  infer flattens the outputs and fails on a None;   *)
(* a reset that raised is only reported in the message.                    *)
Respond(s) ==
    LET failed == op = "infer" /\ \E w \in Workers : handler[s][w].seen = {}
    IN  /\ thread[s] = "wait"
        /\ Len(handler[s]) = NumWorkers
        /\ thread' = [thread EXCEPT ![s] = IF failed THEN "error" ELSE "ok"]
        /\ results' = IF failed THEN results ELSE [results EXCEPT ![s] = handler[s]]
        /\ UNCHANGED <<clientVars, handler, pipe, reply, workerVars, faultVars>>

-----------------------------------------------------------------------------
(* The worker process: one command at a time, in the order of the pipe.    *)

(* conn.recv() of a command with this method.                              *)
Take(c, method) ==
    /\ worker[c] = "idle"
    /\ pipe[c] # <<>> /\ Head(pipe[c]).method = method
    /\ pipe' = [pipe EXCEPT ![c] = Tail(@)]

(* conn.send(result) of a command of type "call".                          *)
Answer(c, seen) ==
    reply' = [reply EXCEPT ![c] = Append(@, [id |-> Head(pipe[c]).id, seen |-> seen])]

(* Enter a collective.                                                     *)
Join(c) ==
    /\ worker' = [worker EXCEPT ![c] = "join"]
    /\ current' = [current EXCEPT ![c] = Head(pipe[c])]
    /\ UNCHANGED <<communicator, weights, cache>>

(* init_communicator returns at once if there is a communicator already,   *)
(* and otherwise enters the process group.                                 *)
InitCommunicator(c) ==
    /\ Take(c, "init")
    /\ IF communicator[c] # 0 THEN UNCHANGED workerVars ELSE Join(c)
    /\ UNCHANGED <<clientVars, thread, handler, reply, faultVars, results>>

(* update_* raises without a communicator, and otherwise enters the        *)
(* broadcast and the barrier.                                              *)
UpdateParams(c) ==
    /\ Take(c, "update")
    /\ IF communicator[c] = 0 THEN UNCHANGED workerVars ELSE Join(c)
    /\ UNCHANGED <<clientVars, thread, handler, reply, faultVars, results>>

(* The collective: the client's thread and every worker of its server, all *)
(* in the same group, leave together.                                      *)
Barrier(s) ==
    /\ thread[s] = "bcast"
    /\ \A w \in Workers :
          /\ worker[<<s, w>>] = "join"
          /\ op = "update" => communicator[<<s, w>>] = client
    /\ thread' = [thread EXCEPT ![s] = "ok"]
    /\ worker' = [c \in Cells |-> IF c[1] = s THEN "load" ELSE worker[c]]
    /\ UNCHANGED <<clientVars, handler, pipe, reply, current, communicator,
                   weights, cache, faultVars, results>>

(* After the collective: keep the communicator, or model.load_weights.     *)
LoadWeights(c) ==
    /\ worker[c] = "load"
    /\ IF current[c].method = "init"
       THEN /\ communicator' = [communicator EXCEPT ![c] = current[c].client]
            /\ UNCHANGED weights
       ELSE /\ weights' = [weights EXCEPT ![c][current[c].bucket] = current[c].version]
            /\ UNCHANGED communicator
    /\ worker' = [worker EXCEPT ![c] = "idle"]
    /\ current' = [current EXCEPT ![c] = NoCommand]
    /\ UNCHANGED <<clientVars, thread, handler, pipe, reply, cache, faultVars, results>>

(* Variant: the blocks survive the reset.                                  *)
ResetPrefixCacheKeeps(c) ==
    /\ Take(c, "reset")
    /\ Answer(c, {version})
    /\ UNCHANGED <<clientVars, thread, handler, workerVars, faultVars, results>>

(* engine.reset_prefix_cache: no block of an older policy is left.         *)
ResetPrefixCache(c) ==
    /\ Take(c, "reset")
    /\ cache' = [cache EXCEPT ![c] = {}]
    /\ Answer(c, {version})
    /\ UNCHANGED <<clientVars, thread, handler, worker, current, communicator,
                   weights, faultVars, results>>

(* engine.infer: the completions depend on the weights loaded and on the   *)
(* blocks in the cache, and leave blocks of their own.                     *)
Infer(c) ==
    /\ Take(c, "infer")
    /\ cache' = [cache EXCEPT ![c] = SampledFrom(c)]
    /\ Answer(c, SampledFrom(c))
    /\ UNCHANGED <<clientVars, thread, handler, worker, current, communicator,
                   weights, faultVars, results>>

(* The method raises: the worker logs and replies None.                    *)
InferRaises(c) ==
    /\ Take(c, "infer")
    /\ raises < MaxRaises
    /\ raises' = raises + 1
    /\ Answer(c, {})
    /\ UNCHANGED <<clientVars, thread, handler, workerVars, deaths, results>>

(* Variant: the communicator is not reset to None.                         *)
CloseCommunicatorKeeps(c) ==
    /\ Take(c, "close")
    /\ UNCHANGED <<clientVars, thread, handler, reply, workerVars, faultVars, results>>

(* close_communicator: the worker forgets its group.                       *)
CloseCommunicator(c) ==
    /\ Take(c, "close")
    /\ communicator' = [communicator EXCEPT ![c] = 0]
    /\ UNCHANGED <<clientVars, thread, handler, reply, worker, current, weights,
                   cache, faultVars, results>>

(* The process dies; a reply it has already sent can still be received.    *)
WorkerDies(c) ==
    /\ worker[c] # "dead"
    /\ deaths < MaxDeaths
    /\ deaths' = deaths + 1
    /\ worker' = [worker EXCEPT ![c] = "dead"]
    /\ pipe' = [pipe EXCEPT ![c] = <<>>]
    /\ UNCHANGED <<clientVars, thread, handler, reply, current, communicator,
                   weights, cache, raises, results>>

-----------------------------------------------------------------------------
(* The client's main thread.                                               *)

(* thread.join() of every server; none of them failed.                     *)
Joined == \A s \in Servers : thread[s] \in {"ok", "error"}
AllOK  == \A s \in Servers : thread[s] = "ok"

(* Start the next call: a thread per server.                               *)
Call(nextOp, nextVersion, nextBucket) ==
    /\ op' = nextOp /\ version' = nextVersion /\ bucket' = nextBucket
    /\ id' = id + 1
    /\ thread' = [s \in Servers |-> "post"]
    /\ UNCHANGED <<handler, pipe, reply, workerVars, faultVars, results>>

(* A weight synchronisation starts: the first bucket of the next version.  *)
NextRound ==
    /\ op \in {"init", "infer"} /\ AllOK
    /\ version < Rounds * client
    /\ Call("update", version + 1, 1)
    /\ UNCHANGED client

(* The next bucket, once every server has taken the last one.              *)
NextBucket ==
    /\ op = "update" /\ AllOK /\ bucket < NumBuckets
    /\ Call("update", version, bucket + 1)
    /\ UNCHANGED client

(* Variant: the client infers without resetting the cache first.           *)
CallResetSkipped ==
    /\ op = "update" /\ AllOK /\ bucket = NumBuckets
    /\ Call("infer", version, bucket)
    /\ UNCHANGED client

(* All buckets sent: reset_prefix_cache on every server.                   *)
CallReset ==
    /\ op = "update" /\ AllOK /\ bucket = NumBuckets
    /\ Call("reset", version, bucket)
    /\ UNCHANGED client

(* The cache is reset: infer on every server.                              *)
CallInfer ==
    /\ op = "reset" /\ AllOK
    /\ Call("infer", version, bucket)
    /\ UNCHANGED client

(* The trainer retries nothing, but after an inference that raised it may  *)
(* call again (async_generate only logs the exception).                    *)
InferAgain ==
    /\ op = "infer" /\ Joined /\ ~AllOK
    /\ id < MaxCalls
    /\ Call("infer", version, bucket)
    /\ UNCHANGED client

(* The trainer ends, with its work done or with the RuntimeError of a call *)
(* that failed, and the atexit hook closes the communicators.              *)
ClientExits ==
    /\ op \notin {"init", "close", "exited"} /\ Joined
    /\ ~AllOK \/ (op = "infer" /\ version = Rounds * client)
    /\ Call("close", version, bucket)
    /\ UNCHANGED client

(* init_communicator raises before the atexit hook is registered: the      *)
(* client goes without closing anything.                                   *)
InitFails ==
    /\ op = "init" /\ \E s \in Servers : thread[s] = "error"
    /\ op' = "exited"
    /\ thread' = [s \in Servers |-> "error"]
    /\ UNCHANGED <<client, version, bucket, id, handler, pipe, reply, workerVars,
                   faultVars, results>>

ClientGone ==
    /\ op = "close" /\ Joined
    /\ op' = "exited"
    /\ UNCHANGED <<client, version, bucket, id, thread, handler, pipe, reply,
                   workerVars, faultVars, results>>

(* Another trainer connects to the same servers.                           *)
NextClient ==
    /\ op = "exited" /\ client < NumClients
    /\ client' = client + 1
    /\ Call("init", Rounds * client, 1)

-----------------------------------------------------------------------------
ServerStep == \E s \in Servers : Handle(s) \/ Recv(s) \/ RecvEOF(s) \/ Respond(s)

WorkerStep ==
    \/ \E s \in Servers : Barrier(s)
    \/ \E c \in Cells :
          \/ InitCommunicator(c) \/ UpdateParams(c) \/ LoadWeights(c)
          \/ ResetPrefixCache(c) \/ Infer(c) \/ CloseCommunicator(c)

Fault == \E c \in Cells : InferRaises(c) \/ WorkerDies(c)

ClientStep ==
    \/ NextRound \/ NextBucket \/ CallReset \/ CallInfer \/ InferAgain
    \/ ClientExits \/ InitFails \/ ClientGone \/ NextClient

Next == ServerStep \/ WorkerStep \/ Fault \/ ClientStep

Spec == Init /\ [][Next]_vars

(* The server, the workers and the client keep running.                    *)
FairSpec == Spec /\ WF_vars(ServerStep) /\ WF_vars(WorkerStep) /\ WF_vars(ClientStep)

-----------------------------------------------------------------------------
(* Properties.                                                             *)

(* Every variable keeps its type; in particular a handler never receives   *)
(* more replies than it has connections.                                   *)
TypeOK ==
    /\ op \in Methods \cup {"exited"}
    /\ client \in 1..NumClients
    /\ version \in Versions /\ bucket \in Buckets /\ id \in Nat
    /\ thread \in [Servers -> {"post", "bcast", "wait", "ok", "error"}]
    /\ handler \in [Servers -> Seq(Replies)]
    /\ \A s \in Servers : Len(handler[s]) <= NumWorkers
    /\ pipe \in [Cells -> Seq(Commands)]
    /\ reply \in [Cells -> Seq(Replies)]
    /\ worker \in [Cells -> {"idle", "join", "load", "dead"}]
    /\ current \in [Cells -> Commands \cup {NoCommand}]
    /\ communicator \in [Cells -> 0..NumClients]
    /\ weights \in [Cells -> [Buckets -> Versions]]
    /\ cache \in [Cells -> SUBSET Versions]
    /\ raises \in 0..MaxRaises /\ deaths \in 0..MaxDeaths
    /\ results \in [Servers -> Seq(Replies)]

(* A call that succeeds is answered with the replies to that very call, one*)
(* per worker: after calls that raised or workers that died, no handler    *)
(* hands out a reply that an earlier call left in a pipe.                  *)
PairedReplies ==
    \A s \in Servers : (op \in {"reset", "infer"} /\ thread[s] = "ok") =>
        /\ Len(results[s]) = NumWorkers
        /\ \A w \in Workers : results[s][w].id = id

(* All completions of an inference, on every worker of every server, were  *)
(* sampled from the version synchronised last, although the updates were   *)
(* never acknowledged.                                                     *)
UniformPolicy ==
    \A s \in Servers : (op = "infer" /\ thread[s] = "ok") =>
        \A w \in Workers : results[s][w].seen = {version}

(* When the client starts to infer, no update is still on its way: the     *)
(* reset call, behind the updates in every pipe, has flushed them.         *)
SyncReachesEveryWorker ==
    op = "infer" => \A c \in Cells : worker[c] # "dead" =>
        worker[c] = "idle" /\ \A b \in Buckets : weights[c][b] = version

(* As long as no call raises and no worker dies, every round of every      *)
(* client completes: neither the rendezvous of client and workers nor the  *)
(* blocking handlers wait for each other, and a client finds the           *)
(* communicators its predecessor closed.                                   *)
RoundsComplete ==
    <>(raises + deaths > 0 \/ (op = "exited" /\ version = Rounds * NumClients))
=============================================================================
