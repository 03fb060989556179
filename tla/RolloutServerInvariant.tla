------------------------ MODULE RolloutServerInvariant ------------------------
(***************************************************************************)
(* The inductive invariant behind PairedReplies, UniformPolicy and         *)
(* SyncReachesEveryWorker of RolloutServer.  It follows one command on its *)
(* way through the pipes.  Two observations carry it: a call is the last   *)
(* command in its pipe, since the client waits for the answer; and a       *)
(* server with a dead worker never again brings a thread to wait for       *)
(* replies, so whatever is left in its pipes is never read.                *)
(***************************************************************************)
EXTENDS RolloutServer

Live(c)  == worker[c] # "dead"
Alive(s) == \A w \in Workers : Live(<<s, w>>)

(* What the handlers forward for the client's current call.                *)
Command == [method |-> op, id |-> id, client |-> client,
            version |-> version, bucket |-> bucket]

(* What TypeOK needs to be inductive: the command a worker executes is     *)
(* known, and a client that is gone has no thread at work.                 *)
TypeInv ==
    /\ TypeOK
    /\ \A c \in Cells : worker[c] \in {"join", "load"} => current[c] \in Commands
    /\ op = "exited" => Joined
    /\ version <= Rounds * client

(* A thread waits only for what the client's call has it wait for; and     *)
(* communicators are opened server by server.                              *)
ThreadInv ==
    /\ \A s \in Servers : thread[s] = "bcast" => op \in {"init", "update"}
    /\ \A s \in Servers : thread[s] = "wait" => op \in {"reset", "infer"}
    /\ op = "init" => \A s \in Servers : thread[s] # "post" =>
                          \A r \in 1..(s - 1) : thread[r] = "ok"

(* A server whose workers all live and whose thread waits for nothing has  *)
(* no worker in a collective, no reply under way, and nothing but closing  *)
(* of communicators in its pipes.                                          *)
QuietServer(s) ==
    (Alive(s) /\ thread[s] \notin {"bcast", "wait"}) =>
        \A w \in Workers :
            /\ worker[<<s, w>>] # "join"
            /\ reply[<<s, w>>] = <<>>
            /\ \A i \in 1..Len(pipe[<<s, w>>]) : pipe[<<s, w>>][i].method = "close"

(* While a thread is in a collective: the command is the last one in the   *)
(* pipe of a worker, or the worker has entered the collective with it, or  *)
(* has refused to.                                                         *)
InBroadcast(s) ==
    thread[s] = "bcast" =>
        \A w \in Workers :
            /\ reply[<<s, w>>] = <<>>
            /\ worker[<<s, w>>] = "join" =>
                 pipe[<<s, w>>] = <<>> /\ current[<<s, w>>] = Command
            /\ Live(<<s, w>>) => \A i \in 1..Len(pipe[<<s, w>>]) :
                 IF i = Len(pipe[<<s, w>>]) THEN pipe[<<s, w>>][i] = Command
                 ELSE pipe[<<s, w>>][i].method = "close" /\ op = "init"

(* While a handler receives: the reply of a connection is received, or it  *)
(* is the only thing on its way back, or the command is the only thing on  *)
(* its way to the worker.                                                  *)
InCall(s) ==
    thread[s] = "wait" =>
        \A w \in Workers :
            IF w <= Len(handler[s])
            THEN /\ reply[<<s, w>>] = <<>> /\ (Live(<<s, w>>) => pipe[<<s, w>>] = <<>>)
                 /\ handler[s][w].id = id
                 /\ op = "infer" => handler[s][w].seen \subseteq {version}
            ELSE \/ /\ reply[<<s, w>>] = <<>>
                    /\ Live(<<s, w>>) => /\ Len(pipe[<<s, w>>]) = 1
                                         /\ pipe[<<s, w>>][1] = Command
                 \/ /\ Len(reply[<<s, w>>]) = 1 /\ reply[<<s, w>>][1].id = id
                    /\ op = "infer" => reply[<<s, w>>][1].seen \subseteq {version}
                    /\ Live(<<s, w>>) => pipe[<<s, w>>] = <<>>

(* The buckets up to n of the version being sent are loaded by the worker, *)
(* but for one that it may be loading.                                     *)
Loaded(c, n) ==
    /\ worker[c] \in {"idle", "load"}
    /\ worker[c] = "load" =>
         \/ current[c].method = "init"
         \/ current[c].method = "update" /\ current[c].version = version
    /\ \A b \in 1..n :
         \/ weights[c][b] = version
         \/ worker[c] = "load" /\ current[c].method = "update" /\ current[c].bucket = b

(* ... and nothing else is on its way to it.                               *)
Settled(c, n) == Loaded(c, n) /\ pipe[c] = <<>>

Synced(c) == worker[c] = "idle" /\ \A b \in Buckets : weights[c][b] = version

(* How far the synchronisation has come, by the client's call and the      *)
(* state of the thread.                                                    *)
SyncInit(s, c) ==
    (op = "init" /\ thread[s] = "ok") =>
        /\ Settled(c, 0)
        /\ worker[c] = "load" => current[c].method = "init"

SyncUpdate(s, c) ==
    op = "update" =>
        /\ thread[s] = "post" => Settled(c, bucket - 1)
        /\ thread[s] = "ok" => Settled(c, bucket)
        /\ thread[s] = "bcast" =>
             IF worker[c] = "join"
             THEN \A b \in 1..(bucket - 1) : weights[c][b] = version
             ELSE Loaded(c, bucket - 1)

SyncReset(s, c) ==
    op = "reset" =>
        /\ thread[s] = "post" => Settled(c, NumBuckets)
        /\ thread[s] = "ok" => Synced(c) /\ cache[c] = {} /\ pipe[c] = <<>>
        /\ thread[s] = "wait" =>
             IF c[2] <= Len(handler[s]) \/ reply[c] # <<>>
             THEN Synced(c) /\ cache[c] = {}
             ELSE Loaded(c, NumBuckets)

SyncInfer(s, c) ==
    op = "infer" =>
        /\ Synced(c) /\ cache[c] \subseteq {version}
        /\ \A i \in 1..Len(pipe[c]) : pipe[c][i].method = "infer"
        /\ thread[s] = "ok" => pipe[c] = <<>>

SyncInv ==
    \A s \in Servers, w \in Workers : Live(<<s, w>>) =>
        /\ SyncInit(s, <<s, w>>) /\ SyncUpdate(s, <<s, w>>)
        /\ SyncReset(s, <<s, w>>) /\ SyncInfer(s, <<s, w>>)

PipeInv == \A s \in Servers : QuietServer(s) /\ InBroadcast(s) /\ InCall(s)

(* The whole inductive invariant.                                          *)
IInv == TypeInv /\ ThreadInv /\ PipeInv /\ SyncInv /\ PairedReplies /\ UniformPolicy
=============================================================================
