------------------------- MODULE RolloutServerProofs -------------------------
(***************************************************************************)
(* Machine-checked proofs about RolloutServer, for every number of         *)
(* servers, workers, buckets, rounds and clients, and every number of      *)
(* calls that raise and workers that die.                                  *)
(***************************************************************************)
EXTENDS RolloutServerInvariant, BasicFacts, TLAPS

(* The last version of a client is a version, and clients come in order.   *)
LEMMA VersionBound ==
    ASSUME NEW k \in 1..NumClients
    PROVE  /\ Rounds * k \in Nat /\ Rounds * k <= Rounds * NumClients
           /\ Rounds * NumClients \in Nat
           /\ Rounds * (k + 1) = Rounds * k + Rounds
BY ServerAssumption

(* What a worker samples from is a non-empty set of versions.              *)
LEMMA SampledFromType ==
    ASSUME TypeOK, NEW c \in Cells
    PROVE  SampledFrom(c) \in SUBSET Versions
BY DEF TypeOK, SampledFrom

(* The handlers forward well-formed commands.                              *)
LEMMA CommandType ==
    ASSUME TypeOK, op # "exited"
    PROVE  Command \in Commands
BY DEF TypeOK, Command, Commands

(* The inductive strengthening of type correctness.                        *)
LEMMA TypeInvariance == Spec => []TypeInv
<1>1. Init => TypeInv
  <2> SUFFICES ASSUME Init PROVE TypeInv
    OBVIOUS
  <2> USE DEF Init
  <2>0. 0 \in Versions /\ Rounds * 1 \in Nat /\ 1 \in 1..NumClients
    <3>1. 1 \in 1..NumClients BY ServerAssumption
    <3> QED BY <3>1, VersionBound DEF Versions
  <2>1. op \in Methods /\ client \in 1..NumClients /\ version \in Versions
        /\ bucket \in Buckets /\ id \in Nat
    BY <2>0, ServerAssumption DEF Methods, Buckets
  <2>2. thread \in [Servers -> {"post", "bcast", "wait", "ok", "error"}]
        /\ handler \in [Servers -> Seq(Replies)] /\ results \in [Servers -> Seq(Replies)]
        /\ \A s \in Servers : Len(handler[s]) <= NumWorkers
    BY ServerAssumption
  <2>3. pipe \in [Cells -> Seq(Commands)] /\ reply \in [Cells -> Seq(Replies)]
        /\ worker \in [Cells -> {"idle", "join", "load", "dead"}]
        /\ current \in [Cells -> Commands \cup {NoCommand}]
    OBVIOUS
  <2>4. communicator \in [Cells -> 0..NumClients] /\ weights \in [Cells -> [Buckets -> Versions]]
        /\ cache \in [Cells -> SUBSET Versions] /\ raises \in 0..MaxRaises /\ deaths \in 0..MaxDeaths
    BY <2>0, ServerAssumption
  <2>5. \A c \in Cells : worker[c] \notin {"join", "load"} OBVIOUS
  <2>6. version <= Rounds * client BY <2>0
  <2> QED BY <2>1, <2>2, <2>3, <2>4, <2>5, <2>6 DEF TypeInv, TypeOK
<1>2. TypeInv /\ [Next]_vars => TypeInv'
  <2> SUFFICES ASSUME TypeInv, [Next]_vars PROVE TypeInv'
    OBVIOUS
  <2> USE DEF TypeInv, TypeOK, clientVars, workerVars, faultVars
  <2>1. ASSUME NEW s \in Servers, Handle(s) PROVE TypeInv'
    <3>1. op # "exited" BY <2>1 DEF Handle, Joined
    <3>2. Command \in Commands BY <3>1, CommandType
    <3>3. pipe' = [c \in Cells |-> IF c[1] = s /\ c[2] \in Reached(s)
                                   THEN Append(pipe[c], Command) ELSE pipe[c]]
      BY <2>1 DEF Handle, Command
    <3>4. pipe' \in [Cells -> Seq(Commands)]
      <4>1. \A c \in Cells : Append(pipe[c], Command) \in Seq(Commands) BY <3>2
      <4> QED BY <3>3, <4>1
    <3>5. AfterPost(op) \in {"bcast", "wait", "ok"} BY <3>1 DEF AfterPost, Methods
    <3>6. thread' \in [Servers -> {"post", "bcast", "wait", "ok", "error"}]
      BY <2>1, <3>5 DEF Handle
    <3>7. handler' \in [Servers -> Seq(Replies)] /\ \A r \in Servers : Len(handler'[r]) <= NumWorkers
      BY <2>1, ServerAssumption DEF Handle
    <3> QED BY <2>1, <3>1, <3>4, <3>6, <3>7 DEF Handle, Joined
  <2>2. ASSUME NEW s \in Servers, Recv(s) PROVE TypeInv'
    <3> DEFINE n == Len(handler[s]) + 1
               c == <<s, n>>
    <3>1. n \in Workers /\ c \in Cells
      <4>1. Len(handler[s]) \in Nat BY LenFacts
      <4> QED BY <2>2, <4>1, ServerAssumption DEF Recv, Workers, Cells
    <3> HIDE DEF n
    <3>2. /\ reply[c] # <<>> /\ reply' = [reply EXCEPT ![c] = Tail(@)]
          /\ handler' = [handler EXCEPT ![s] = Append(@, Head(reply[c]))]
      BY <2>2 DEF Recv, n
    <3>3. reply[c] \in Seq(Replies) /\ Head(reply[c]) \in Replies /\ Tail(reply[c]) \in Seq(Replies)
      BY <3>1, <3>2
    <3>4. reply' \in [Cells -> Seq(Replies)] BY <3>1, <3>2, <3>3
    <3>5. handler' \in [Servers -> Seq(Replies)] BY <3>2, <3>3
    <3>6. \A r \in Servers : Len(handler'[r]) <= NumWorkers
      BY <2>2, <3>2, <3>3, ServerAssumption, AppendFacts DEF Recv
    <3> QED BY <2>2, <3>4, <3>5, <3>6 DEF Recv, Joined
  <2>3. ASSUME NEW s \in Servers, RecvEOF(s) PROVE TypeInv'
    BY <2>3 DEF RecvEOF, Joined
  <2>4. ASSUME NEW s \in Servers, Respond(s) PROVE TypeInv'
    BY <2>4 DEF Respond, Joined
  <2>5. ASSUME NEW s \in Servers, Barrier(s) PROVE TypeInv'
    <3>1. \A w \in Workers : <<s, w>> \in Cells /\ current[<<s, w>>] \in Commands
      BY <2>5 DEF Barrier, Cells
    <3>2. \A c \in Cells : worker'[c] \in {"join", "load"} => current'[c] \in Commands
      BY <2>5, <3>1 DEF Barrier, Cells
    <3> QED BY <2>5, <3>2 DEF Barrier, Joined
  <2>6. ASSUME NEW c \in Cells, NEW m, Take(c, m)
        PROVE  /\ pipe' \in [Cells -> Seq(Commands)] /\ Head(pipe[c]) \in Commands
               /\ Head(pipe[c]).id \in Nat
    <3>1. Tail(pipe[c]) \in Seq(Commands) /\ Head(pipe[c]) \in Commands
      BY <2>6 DEF Take
    <3> QED BY <2>6, <3>1 DEF Take, Commands
  <2>7. ASSUME NEW c \in Cells, NEW seen \in SUBSET Versions, Head(pipe[c]).id \in Nat, Answer(c, seen)
        PROVE  reply' \in [Cells -> Seq(Replies)]
    <3>1. [id |-> Head(pipe[c]).id, seen |-> seen] \in Replies BY <2>7 DEF Replies
    <3> QED BY <2>7, <3>1 DEF Answer
  <2>8. ASSUME NEW c \in Cells, InitCommunicator(c) PROVE TypeInv'
    <3>1. pipe' \in [Cells -> Seq(Commands)] /\ Head(pipe[c]) \in Commands
      BY <2>6, <2>8 DEF InitCommunicator
    <3> QED BY <2>8, <3>1 DEF InitCommunicator, Join, Joined
  <2>9. ASSUME NEW c \in Cells, UpdateParams(c) PROVE TypeInv'
    <3>1. pipe' \in [Cells -> Seq(Commands)] /\ Head(pipe[c]) \in Commands
      BY <2>6, <2>9 DEF UpdateParams
    <3> QED BY <2>9, <3>1 DEF UpdateParams, Join, Joined
  <2>10. ASSUME NEW c \in Cells, LoadWeights(c) PROVE TypeInv'
    <3>1. current[c].client \in 1..NumClients /\ current[c].bucket \in Buckets
          /\ current[c].version \in Versions
      BY <2>10 DEF LoadWeights, Commands
    <3>2. communicator' \in [Cells -> 0..NumClients]
      <4>1. current[c].client \in 0..NumClients BY <3>1
      <4> QED BY <2>10, <4>1 DEF LoadWeights
    <3>3. weights' \in [Cells -> [Buckets -> Versions]]
      <4>1. [weights[c] EXCEPT ![current[c].bucket] = current[c].version] \in [Buckets -> Versions]
        BY <3>1
      <4> QED BY <2>10, <4>1 DEF LoadWeights
    <3> QED BY <2>10, <3>2, <3>3 DEF LoadWeights, Joined
  <2>11. ASSUME NEW c \in Cells, ResetPrefixCache(c) PROVE TypeInv'
    <3>1. pipe' \in [Cells -> Seq(Commands)] /\ Head(pipe[c]).id \in Nat
      BY <2>6, <2>11 DEF ResetPrefixCache
    <3>2. reply' \in [Cells -> Seq(Replies)] BY <2>7, <2>11, <3>1 DEF ResetPrefixCache
    <3> QED BY <2>11, <3>1, <3>2 DEF ResetPrefixCache, Joined
  <2>12. ASSUME NEW c \in Cells, Infer(c) PROVE TypeInv'
    <3>1. pipe' \in [Cells -> Seq(Commands)] /\ Head(pipe[c]).id \in Nat
      BY <2>6, <2>12 DEF Infer
    <3>2. SampledFrom(c) \in SUBSET Versions BY SampledFromType
    <3>3. reply' \in [Cells -> Seq(Replies)] BY <2>7, <2>12, <3>1, <3>2 DEF Infer
    <3>4. cache' \in [Cells -> SUBSET Versions] BY <2>12, <3>2 DEF Infer
    <3> QED BY <2>12, <3>1, <3>3, <3>4 DEF Infer, Joined
  <2>13. ASSUME NEW c \in Cells, InferRaises(c) PROVE TypeInv'
    <3>1. pipe' \in [Cells -> Seq(Commands)] /\ Head(pipe[c]).id \in Nat
      BY <2>6, <2>13 DEF InferRaises
    <3>2. reply' \in [Cells -> Seq(Replies)] BY <2>7, <2>13, <3>1 DEF InferRaises
    <3>3. raises' \in 0..MaxRaises BY <2>13, ServerAssumption DEF InferRaises
    <3> QED BY <2>13, <3>1, <3>2, <3>3 DEF InferRaises, Joined
  <2>14. ASSUME NEW c \in Cells, CloseCommunicator(c) PROVE TypeInv'
    <3>1. pipe' \in [Cells -> Seq(Commands)] BY <2>6, <2>14 DEF CloseCommunicator
    <3>2. 0 \in 0..NumClients BY ServerAssumption
    <3>3. communicator' \in [Cells -> 0..NumClients] BY <2>14, <3>2 DEF CloseCommunicator
    <3> QED BY <2>14, <3>1, <3>3 DEF CloseCommunicator, Joined
  <2>15. ASSUME NEW c \in Cells, WorkerDies(c) PROVE TypeInv'
    <3>1. pipe' \in [Cells -> Seq(Commands)] BY <2>15 DEF WorkerDies
    <3>2. deaths' \in 0..MaxDeaths BY <2>15, ServerAssumption DEF WorkerDies
    <3> QED BY <2>15, <3>1, <3>2 DEF WorkerDies, Joined
  <2>16. ASSUME NEW o \in Methods, NEW v \in Versions, NEW b \in Buckets,
                Call(o, v, b), client' \in 1..NumClients, v <= Rounds * client'
         PROVE  TypeInv'
    <3>1. thread' \in [Servers -> {"post", "bcast", "wait", "ok", "error"}] BY <2>16 DEF Call
    <3>2. op' # "exited" /\ op' \in Methods BY <2>16 DEF Call, Methods
    <3> QED BY <2>16, <3>1, <3>2 DEF Call
  <2>17. CASE NextRound
    <3>1. version + 1 \in Versions /\ version + 1 <= Rounds * client
      BY <2>17, VersionBound DEF NextRound, Versions
    <3> QED BY <2>16, <2>17, <3>1, ServerAssumption DEF NextRound, Methods, Buckets
  <2>18. CASE NextBucket
    <3>1. bucket + 1 \in Buckets BY <2>18, ServerAssumption DEF NextBucket, Buckets
    <3> QED BY <2>16, <2>18, <3>1 DEF NextBucket, Methods
  <2>19. CASE CallReset BY <2>16, <2>19 DEF CallReset, Methods
  <2>20. CASE CallInfer BY <2>16, <2>20 DEF CallInfer, Methods
  <2>21. CASE InferAgain BY <2>16, <2>21 DEF InferAgain, Methods
  <2>22. CASE ClientExits BY <2>16, <2>22 DEF ClientExits, Methods
  <2>23. CASE InitFails BY <2>23 DEF InitFails, Joined
  <2>24. CASE ClientGone BY <2>24 DEF ClientGone, Joined
  <2>25. CASE NextClient
    <3>1. client + 1 \in 1..NumClients BY <2>25, ServerAssumption DEF NextClient
    <3>2. Rounds * client \in Versions /\ Rounds * client <= Rounds * (client + 1)
      BY VersionBound, ServerAssumption DEF Versions
    <3> QED BY <2>16, <2>25, <3>1, <3>2, ServerAssumption DEF NextClient, Methods, Buckets
  <2>26. CASE UNCHANGED vars BY <2>26 DEF vars, Joined
  <2> QED BY <2>1, <2>2, <2>3, <2>4, <2>5, <2>8, <2>9, <2>10, <2>11, <2>12, <2>13,
             <2>14, <2>15, <2>17, <2>18, <2>19, <2>20, <2>21, <2>22, <2>23, <2>24,
             <2>25, <2>26 DEF Next, ServerStep, WorkerStep, Fault, ClientStep
<1> QED BY <1>1, <1>2, PTL DEF Spec

(* Type correctness: whatever raises or dies, a handler never receives more*)
(* replies than it has connections, and commands and replies stay whole.   *)
THEOREM ServerTypeCorrect == Spec => []TypeOK
BY TypeInvariance, PTL DEF TypeInv

(* A thread only waits for what its call has it wait for.                  *)
LEMMA ThreadStep ==
    ASSUME TypeInv, ThreadInv, [Next]_vars
    PROVE  ThreadInv'
<1> USE DEF TypeInv, TypeOK, clientVars, workerVars, faultVars
<1>0. \A s \in Servers : \A r \in 1..(s - 1) : r \in Servers /\ r # s
  BY ServerAssumption DEF Servers
<1>1. ASSUME NEW s \in Servers, Handle(s) PROVE ThreadInv'
  <2>1. op # "exited" BY <1>1 DEF Handle, Joined
  <2>2. op \in Methods /\ op' = op BY <1>1, <2>1 DEF Handle
  <2>3. /\ thread'[s] = "bcast" => op \in {"init", "update"}
        /\ thread'[s] = "wait" => op \in {"reset", "infer"}
        /\ \A r \in Servers : r # s => thread'[r] = thread[r]
    BY <1>1, <2>2 DEF Handle, AfterPost, Methods
  <2>4. ASSUME op = "init", NEW q \in Servers, thread'[q] # "post", NEW r \in 1..(q - 1)
        PROVE  thread'[r] = "ok"
    <3>1. r \in Servers /\ r # q BY <1>0
    <3>2. CASE q = s BY <1>1, <2>3, <2>4, <3>1, <3>2 DEF Handle
    <3>3. CASE q # s
      <4>1. thread[r] = "ok" BY <2>3, <2>4, <3>3 DEF ThreadInv
      <4>2. r # s BY <1>1, <4>1 DEF Handle
      <4> QED BY <2>3, <3>1, <4>1, <4>2
    <3> QED BY <3>2, <3>3
  <2> QED BY <2>2, <2>3, <2>4 DEF ThreadInv
<1>2. ASSUME NEW s \in Servers, Recv(s) PROVE ThreadInv' BY <1>2 DEF Recv, ThreadInv
<1>3. ASSUME NEW s \in Servers, RecvEOF(s) PROVE ThreadInv' BY <1>3 DEF RecvEOF, ThreadInv
<1>4. ASSUME NEW s \in Servers, Respond(s) PROVE ThreadInv' BY <1>4 DEF Respond, ThreadInv
<1>5. ASSUME NEW s \in Servers, Barrier(s) PROVE ThreadInv'
  <2>1. op' = op /\ thread' = [thread EXCEPT ![s] = "ok"] /\ thread[s] = "bcast" BY <1>5 DEF Barrier
  <2> QED BY <1>0, <2>1 DEF ThreadInv
<1>6. ASSUME NEW c \in Cells,
             \/ InitCommunicator(c) \/ UpdateParams(c) \/ LoadWeights(c) \/ ResetPrefixCache(c)
             \/ Infer(c) \/ InferRaises(c) \/ CloseCommunicator(c) \/ WorkerDies(c)
      PROVE  ThreadInv'
  <2>1. op' = op /\ thread' = thread
    BY <1>6 DEF InitCommunicator, UpdateParams, LoadWeights, ResetPrefixCache, Infer,
                InferRaises, CloseCommunicator, WorkerDies
  <2> QED BY <2>1 DEF ThreadInv
<1>7. ASSUME NEW o, NEW v, NEW b, Call(o, v, b) PROVE ThreadInv'
  BY <1>7 DEF Call, ThreadInv
<1>8. CASE NextRound BY <1>7, <1>8 DEF NextRound
<1>9. CASE NextBucket BY <1>7, <1>9 DEF NextBucket
<1>10. CASE CallReset BY <1>7, <1>10 DEF CallReset
<1>11. CASE CallInfer BY <1>7, <1>11 DEF CallInfer
<1>12. CASE InferAgain BY <1>7, <1>12 DEF InferAgain
<1>13. CASE ClientExits BY <1>7, <1>13 DEF ClientExits
<1>14. CASE InitFails BY <1>14 DEF InitFails, ThreadInv
<1>15. CASE ClientGone BY <1>15 DEF ClientGone, ThreadInv, Joined
<1>16. CASE NextClient BY <1>7, <1>16 DEF NextClient
<1>17. CASE UNCHANGED vars BY <1>17 DEF vars, ThreadInv
<1> QED BY <1>1, <1>2, <1>3, <1>4, <1>5, <1>6, <1>7, <1>8, <1>9, <1>10, <1>11, <1>12,
           <1>13, <1>14, <1>15, <1>16, <1>17
        DEF Next, ServerStep, WorkerStep, Fault, ClientStep

(* What the first command in the pipe of a live worker can be, by what the *)
(* thread of its server waits for.                                         *)
LEMMA HeadOfPipe ==
    ASSUME TypeInv, ThreadInv, PipeInv, NEW s \in Servers, NEW w \in Workers,
           Live(<<s, w>>), pipe[<<s, w>>] # <<>>
    PROVE  /\ (Alive(s) /\ thread[s] \notin {"bcast", "wait"}) => pipe[<<s, w>>][1].method = "close"
           /\ thread[s] = "bcast" =>
                IF Len(pipe[<<s, w>>]) = 1 THEN pipe[<<s, w>>][1] = Command
                ELSE pipe[<<s, w>>][1].method = "close" /\ op = "init"
           /\ thread[s] = "wait" =>
                /\ w > Len(handler[s]) /\ reply[<<s, w>>] = <<>>
                /\ Len(pipe[<<s, w>>]) = 1 /\ pipe[<<s, w>>][1] = Command
<1>1. <<s, w>> \in Cells /\ w \in Nat BY ServerAssumption DEF Cells, Workers
<1>2. Len(pipe[<<s, w>>]) \in Nat /\ Len(pipe[<<s, w>>]) >= 1
  BY <1>1, TailFacts DEF TypeInv, TypeOK
<1>3. 1 \in 1..Len(pipe[<<s, w>>]) BY <1>2
<1>4. Len(handler[s]) \in Nat BY LenFacts DEF TypeInv, TypeOK
<1>5. (Alive(s) /\ thread[s] \notin {"bcast", "wait"}) => pipe[<<s, w>>][1].method = "close"
  BY <1>3 DEF PipeInv, QuietServer
<1>6. thread[s] = "bcast" =>
        IF Len(pipe[<<s, w>>]) = 1 THEN pipe[<<s, w>>][1] = Command
        ELSE pipe[<<s, w>>][1].method = "close" /\ op = "init"
  BY <1>2, <1>3 DEF PipeInv, InBroadcast
<1>7. thread[s] = "wait" =>
        /\ w > Len(handler[s]) /\ reply[<<s, w>>] = <<>>
        /\ Len(pipe[<<s, w>>]) = 1 /\ pipe[<<s, w>>][1] = Command
  BY <1>1, <1>4 DEF PipeInv, InCall
<1> QED BY <1>5, <1>6, <1>7

(* What a step leaves alone at a server keeps the server's invariant.      *)
LEMMA PipeFrame ==
    ASSUME NEW s \in Servers, QuietServer(s), InBroadcast(s), InCall(s), UNCHANGED clientVars,
           thread'[s] = thread[s], handler'[s] = handler[s],
           \A w \in Workers : /\ pipe'[<<s, w>>] = pipe[<<s, w>>]
                              /\ reply'[<<s, w>>] = reply[<<s, w>>]
                              /\ worker'[<<s, w>>] = worker[<<s, w>>]
                              /\ current'[<<s, w>>] = current[<<s, w>>]
    PROVE  QuietServer(s)' /\ InBroadcast(s)' /\ InCall(s)'
<1>1. Command' = Command BY DEF Command, clientVars
<1>2. QuietServer(s)' BY DEF QuietServer, Alive, Live
<1>3. InBroadcast(s)' BY <1>1 DEF InBroadcast, Live, clientVars
<1>4. InCall(s)' BY <1>1 DEF InCall, Live, clientVars
<1> QED BY <1>2, <1>3, <1>4

(* A worker takes a command of a kind its server's thread does not wait    *)
(* for only where nobody will ever read its pipe: at a server with a dead  *)
(* worker.  Otherwise the command is the client's.                         *)
LEMMA TakeFacts ==
    ASSUME TypeInv, ThreadInv, PipeInv, NEW s \in Servers, NEW w \in Workers, NEW m \in Methods,
           Take(<<s, w>>, m)
    PROVE  /\ worker[<<s, w>>] = "idle"
           /\ pipe[<<s, w>>] # <<>> /\ Head(pipe[<<s, w>>]) = pipe[<<s, w>>][1]
           /\ pipe[<<s, w>>][1].method = m
           /\ pipe'[<<s, w>>] = Tail(pipe[<<s, w>>])
           /\ \A r \in Servers, v \in Workers :
                 <<r, v>> # <<s, w>> => pipe'[<<r, v>>] = pipe[<<r, v>>]
           /\ m # "close" => /\ Alive(s) => thread[s] \in {"bcast", "wait"}
                             /\ thread[s] \in {"bcast", "wait"} =>
                                  /\ Head(pipe[<<s, w>>]) = Command /\ m = op
                                  /\ Len(pipe[<<s, w>>]) = 1
                                  /\ pipe'[<<s, w>>] = <<>>
           /\ m = "close" => /\ thread[s] # "wait"
                             /\ thread[s] = "bcast" =>
                                  Len(pipe[<<s, w>>]) # 1 /\ op = "init"
<1>1. <<s, w>> \in Cells /\ \A r \in Servers, v \in Workers : <<r, v>> \in Cells BY DEF Cells
<1>2. worker[<<s, w>>] = "idle" /\ pipe[<<s, w>>] # <<>> /\ Head(pipe[<<s, w>>]).method = m
      /\ pipe' = [pipe EXCEPT ![<<s, w>>] = Tail(@)]
  BY DEF Take
<1>3. pipe[<<s, w>>] \in Seq(Commands) /\ pipe \in [Cells -> Seq(Commands)]
  BY <1>1 DEF TypeInv, TypeOK
<1>4. Head(pipe[<<s, w>>]) = pipe[<<s, w>>][1]
      /\ (Len(pipe[<<s, w>>]) = 1 => Tail(pipe[<<s, w>>]) = <<>>)
  BY <1>2, <1>3, TailFacts
<1>5. pipe'[<<s, w>>] = Tail(pipe[<<s, w>>]) BY <1>1, <1>2, <1>3
<1>6. \A r \in Servers, v \in Workers :
         <<r, v>> # <<s, w>> => pipe'[<<r, v>>] = pipe[<<r, v>>]
  BY <1>1, <1>2, <1>3
<1>7. Live(<<s, w>>) BY <1>2 DEF Live
<1>8. Command.method = op BY DEF Command
<1> HIDE DEF Take
<1>9. m # "close" => /\ Alive(s) => thread[s] \in {"bcast", "wait"}
                     /\ thread[s] \in {"bcast", "wait"} =>
                          /\ Head(pipe[<<s, w>>]) = Command /\ m = op
                          /\ Len(pipe[<<s, w>>]) = 1
                          /\ pipe'[<<s, w>>] = <<>>
  BY <1>2, <1>4, <1>5, <1>7, <1>8, HeadOfPipe
<1>10. m = "close" => /\ thread[s] # "wait"
                      /\ thread[s] = "bcast" => Len(pipe[<<s, w>>]) # 1 /\ op = "init"
  BY <1>2, <1>4, <1>7, <1>8, HeadOfPipe DEF ThreadInv
<1> QED BY <1>2, <1>4, <1>5, <1>6, <1>9, <1>10

(* Every action keeps the commands and replies in the pipes in order.      *)
LEMMA PipeStep ==
    ASSUME TypeInv, ThreadInv, PipeInv, SyncInv, [Next]_vars
    PROVE  PipeInv'
<1> USE DEF clientVars, workerVars, faultVars
<1>a. /\ thread \in [Servers -> {"post", "bcast", "wait", "ok", "error"}]
      /\ handler \in [Servers -> Seq(Replies)] /\ pipe \in [Cells -> Seq(Commands)]
      /\ reply \in [Cells -> Seq(Replies)]
      /\ worker \in [Cells -> {"idle", "join", "load", "dead"}]
      /\ current \in [Cells -> Commands \cup {NoCommand}]
  BY DEF TypeInv, TypeOK
<1>b. \A s \in Servers, w \in Workers : <<s, w>> \in Cells BY DEF Cells
<1>c. \A s \in Servers : QuietServer(s) /\ InBroadcast(s) /\ InCall(s) BY DEF PipeInv
<1>d. \A w \in Workers : w \in Nat /\ w >= 1 /\ w <= NumWorkers BY ServerAssumption DEF Workers
<1>e. /\ \A s \in Servers, w \in Workers :
           pipe[<<s, w>>] \in Seq(Commands) /\ Len(pipe[<<s, w>>]) \in Nat
           /\ (pipe[<<s, w>>] = <<>> <=> Len(pipe[<<s, w>>]) = 0)
           /\ reply[<<s, w>>] \in Seq(Replies) /\ Len(reply[<<s, w>>]) \in Nat
           /\ (reply[<<s, w>>] = <<>> <=> Len(reply[<<s, w>>]) = 0)
      /\ \A s \in Servers : Len(handler[s]) \in Nat
  BY <1>a, <1>b, LenFacts
<1>1. ASSUME NEW t \in Servers, Handle(t) PROVE PipeInv'
  <2>0. op # "exited" /\ op \in Methods BY <1>1 DEF Handle, Joined, TypeInv, TypeOK
  <2>1. Command \in Commands BY <2>0, CommandType DEF TypeInv
  <2>2. pipe' = [c \in Cells |-> IF c[1] = t /\ c[2] \in Reached(t)
                                 THEN Append(pipe[c], Command) ELSE pipe[c]]
    BY <1>1 DEF Handle, Command
  <2>3. \A s \in Servers, w \in Workers :
          pipe'[<<s, w>>] = IF s = t /\ w \in Reached(t) THEN Append(pipe[<<s, w>>], Command)
                            ELSE pipe[<<s, w>>]
    BY <2>2, <1>b
  <2>4. /\ reply' = reply /\ worker' = worker /\ current' = current /\ UNCHANGED clientVars
        /\ Command' = Command /\ thread[t] = "post"
        /\ \A s \in Servers : s # t => thread'[s] = thread[s] /\ handler'[s] = handler[s]
        /\ handler'[t] = <<>>
        /\ thread'[t] = IF Reached(t) # Workers THEN "error" ELSE AfterPost(op)
    BY <1>1, <1>a DEF Handle, Command
  <2>5. ASSUME NEW s \in Servers, s # t PROVE QuietServer(s)' /\ InBroadcast(s)' /\ InCall(s)'
    BY <1>c, <2>3, <2>4, <2>5, PipeFrame
  <2>6. CASE Reached(t) # Workers
    <3>1. ~Alive(t)'
      <4>1. PICK w \in Workers : w \notin Reached(t) BY <2>6 DEF Reached
      <4>2. PICK v \in 1..w : worker[<<t, v>>] = "dead" BY <4>1 DEF Reached
      <4>3. v \in Workers BY ServerAssumption DEF Workers
      <4> QED BY <2>4, <4>2, <4>3 DEF Alive, Live
    <3> QED BY <2>4, <2>5, <2>6, <3>1 DEF PipeInv, QuietServer, InBroadcast, InCall
  <2>7. CASE Reached(t) = Workers
    <3>1. Alive(t)
      <4>1. ASSUME NEW w \in Workers PROVE Live(<<t, w>>)
        <5>1. w \in 1..w /\ w \in Reached(t) BY <1>d, <2>7
        <5> QED BY <5>1 DEF Reached, Live
      <4> QED BY <4>1 DEF Alive
    <3>2. \A w \in Workers : /\ Live(<<t, w>>) /\ worker[<<t, w>>] # "join" /\ reply[<<t, w>>] = <<>>
                             /\ \A i \in 1..Len(pipe[<<t, w>>]) : pipe[<<t, w>>][i].method = "close"
      BY <1>c, <2>4, <3>1 DEF QuietServer, Alive
    <3>3. \A w \in Workers :
             /\ pipe'[<<t, w>>] = Append(pipe[<<t, w>>], Command)
             /\ Len(pipe'[<<t, w>>]) = Len(pipe[<<t, w>>]) + 1
             /\ pipe'[<<t, w>>][Len(pipe[<<t, w>>]) + 1] = Command
             /\ \A i \in 1..Len(pipe[<<t, w>>]) : pipe'[<<t, w>>][i] = pipe[<<t, w>>][i]
      <4> TAKE w \in Workers
      <4>1. pipe'[<<t, w>>] = Append(pipe[<<t, w>>], Command) BY <2>3, <2>7
      <4>2. pipe[<<t, w>>] \in Seq(Commands) BY <1>e
      <4> QED BY <2>1, <4>1, <4>2, AppendFacts
    <3>4. ASSUME op \in {"update", "reset", "infer"}, NEW w \in Workers PROVE Len(pipe[<<t, w>>]) = 0
      <4>1. CASE op \in {"update", "reset"}
        <5>1. pipe[<<t, w>>] = <<>>
          BY <2>4, <3>2, <4>1 DEF SyncInv, SyncUpdate, SyncReset, Settled
        <5> QED BY <5>1, <1>e
      <4>2. CASE op = "infer"
        <5>1. \A i \in 1..Len(pipe[<<t, w>>]) : pipe[<<t, w>>][i].method = "infer"
          BY <3>2, <4>2 DEF SyncInv, SyncInfer
        <5> QED BY <5>1, <3>2, <1>e
      <4> QED BY <3>4, <4>1, <4>2
    <3>5. CASE op \in {"init", "update"}
      <4>1. thread'[t] = "bcast" BY <2>4, <2>7, <3>5 DEF AfterPost
      <4>2. ASSUME NEW w \in Workers, NEW i \in 1..Len(pipe'[<<t, w>>])
            PROVE  IF i = Len(pipe'[<<t, w>>]) THEN pipe'[<<t, w>>][i] = Command
                   ELSE pipe'[<<t, w>>][i].method = "close" /\ op = "init"
        <5>1. CASE i = Len(pipe[<<t, w>>]) + 1 BY <1>e, <3>3, <5>1
        <5>2. CASE i # Len(pipe[<<t, w>>]) + 1
          <6>1. i \in 1..Len(pipe[<<t, w>>]) BY <1>e, <3>3, <5>2
          <6>2. i # Len(pipe'[<<t, w>>]) BY <3>3, <5>2
          <6>3. Len(pipe[<<t, w>>]) # 0 BY <6>1
          <6>4. op = "init" BY <3>4, <3>5, <6>3
          <6>5. pipe'[<<t, w>>][i].method = "close" BY <3>2, <3>3, <6>1
          <6> QED BY <6>2, <6>4, <6>5
        <5> QED BY <5>1, <5>2
      <4>3. InBroadcast(t)' BY <2>4, <3>2, <4>2 DEF InBroadcast
      <4>4. QuietServer(t)' /\ InCall(t)' BY <4>1 DEF QuietServer, InCall
      <4> QED BY <2>5, <4>3, <4>4 DEF PipeInv
    <3>6. CASE op \in {"reset", "infer"}
      <4>1. thread'[t] = "wait" BY <2>4, <2>7, <3>6 DEF AfterPost
      <4>2. ASSUME NEW w \in Workers
            PROVE  /\ ~(w <= Len(handler'[t])) /\ reply'[<<t, w>>] = <<>>
                   /\ Len(pipe'[<<t, w>>]) = 1 /\ pipe'[<<t, w>>][1] = Command
        <5>1. Len(pipe[<<t, w>>]) = 0 BY <3>4, <3>6
        <5>2. Len(handler'[t]) = 0 BY <2>4
        <5>3. Len(pipe'[<<t, w>>]) = 1 /\ pipe'[<<t, w>>][1] = Command
          <6>1. Len(pipe[<<t, w>>]) + 1 = 1 BY <5>1
          <6>2. /\ Len(pipe'[<<t, w>>]) = Len(pipe[<<t, w>>]) + 1
                /\ pipe'[<<t, w>>][Len(pipe[<<t, w>>]) + 1] = Command
            BY <3>3
          <6> QED BY <6>1, <6>2
        <5>4. ~(w <= Len(handler'[t])) BY <1>d, <5>2
        <5> QED BY <2>4, <3>2, <5>3, <5>4
      <4>3. InCall(t)' BY <2>4, <4>2 DEF InCall
      <4>4. QuietServer(t)' /\ InBroadcast(t)' BY <4>1 DEF QuietServer, InBroadcast
      <4> QED BY <2>5, <4>3, <4>4 DEF PipeInv
    <3>7. CASE op = "close"
      <4>1. thread'[t] = "ok" BY <2>4, <2>7, <3>7 DEF AfterPost
      <4>2. ASSUME NEW w \in Workers, NEW i \in 1..Len(pipe'[<<t, w>>])
            PROVE  pipe'[<<t, w>>][i].method = "close"
        <5>1. CASE i = Len(pipe[<<t, w>>]) + 1 BY <3>3, <3>7, <5>1 DEF Command
        <5>2. CASE i # Len(pipe[<<t, w>>]) + 1
          <6>1. i \in 1..Len(pipe[<<t, w>>]) BY <1>e, <3>3, <5>2
          <6> QED BY <3>2, <3>3, <6>1
        <5> QED BY <5>1, <5>2
      <4>3. QuietServer(t)' BY <2>4, <3>2, <4>2 DEF QuietServer
      <4>4. InBroadcast(t)' /\ InCall(t)' BY <4>1 DEF InBroadcast, InCall
      <4> QED BY <2>5, <4>3, <4>4 DEF PipeInv
    <3> QED BY <2>0, <3>5, <3>6, <3>7 DEF Methods
  <2> QED BY <2>6, <2>7
<1>2. ASSUME NEW t \in Servers, Recv(t) PROVE PipeInv'
  <2> DEFINE n == Len(handler[t]) + 1
             c == <<t, n>>
  <2>0. n \in Workers /\ n \in Nat BY <1>2, <1>e, ServerAssumption DEF Recv, Workers
  <2> HIDE DEF n
  <2>1. c \in Cells /\ reply[c] \in Seq(Replies) BY <1>a, <1>b, <2>0
  <2>2. /\ thread[t] = "wait" /\ thread' = thread /\ pipe' = pipe /\ worker' = worker
        /\ current' = current /\ UNCHANGED clientVars /\ Command' = Command
        /\ reply[c] # <<>> /\ reply' = [reply EXCEPT ![c] = Tail(@)]
        /\ handler' = [handler EXCEPT ![t] = Append(@, Head(reply[c]))]
    BY <1>2 DEF Recv, n, Command
  <2>3. \A s \in Servers, w \in Workers :
          <<s, w>> # c => reply'[<<s, w>>] = reply[<<s, w>>]
    BY <1>a, <1>b, <2>2
  <2>4. ASSUME NEW s \in Servers, s # t PROVE QuietServer(s)' /\ InBroadcast(s)' /\ InCall(s)'
    <3>1. handler'[s] = handler[s] BY <1>a, <2>2, <2>4
    <3>2. \A w \in Workers : reply'[<<s, w>>] = reply[<<s, w>>] BY <2>3, <2>4
    <3> QED BY <1>c, <2>2, <3>1, <3>2, PipeFrame
  <2>5. /\ Len(reply[c]) = 1 /\ reply[c][1].id = id
        /\ op = "infer" => reply[c][1].seen \subseteq {version}
        /\ Live(c) => pipe[c] = <<>>
    <3>1. ~(n <= Len(handler[t])) BY <1>e, <2>0 DEF n
    <3> QED BY <1>c, <2>0, <2>2, <3>1 DEF InCall
  <2>6. reply'[c] = <<>> /\ Head(reply[c]) = reply[c][1] /\ Head(reply[c]) \in Replies
    <3> DEFINE a == reply[c]
    <3>1. a \in Seq(Replies) /\ a # <<>> /\ Len(a) = 1 BY <2>1, <2>2, <2>5
    <3>2. reply'[c] = Tail(a) BY <1>a, <2>1, <2>2
    <3> HIDE DEF a, Replies
    <3>3. Tail(a) = <<>> /\ Head(a) = a[1] /\ a[1] \in Replies BY <3>1, TailFacts
    <3> QED BY <3>2, <3>3 DEF a
  <2>7. /\ Len(handler'[t]) = n /\ handler'[t][n] = reply[c][1]
        /\ \A w \in 1..Len(handler[t]) : handler'[t][w] = handler[t][w]
    BY <1>a, <2>2, <2>6, AppendFacts DEF n
  <2>8. ASSUME NEW w \in Workers
        PROVE  IF w <= Len(handler'[t])
               THEN /\ reply'[<<t, w>>] = <<>> /\ (Live(<<t, w>>) => pipe[<<t, w>>] = <<>>)
                    /\ handler'[t][w].id = id
                    /\ op = "infer" => handler'[t][w].seen \subseteq {version}
               ELSE \/ /\ reply'[<<t, w>>] = <<>>
                       /\ Live(<<t, w>>) => Len(pipe[<<t, w>>]) = 1 /\ pipe[<<t, w>>][1] = Command
                    \/ /\ Len(reply'[<<t, w>>]) = 1 /\ reply'[<<t, w>>][1].id = id
                       /\ op = "infer" => reply'[<<t, w>>][1].seen \subseteq {version}
                       /\ Live(<<t, w>>) => pipe[<<t, w>>] = <<>>
    <3>1. CASE w = n BY <2>5, <2>6, <2>7, <2>0, <3>1
    <3>2. CASE w # n
      <4>1. w <= Len(handler'[t]) <=> w <= Len(handler[t])
        BY <1>d, <1>e, <2>7, <3>2 DEF n
      <4>2. reply'[<<t, w>>] = reply[<<t, w>>] BY <2>3, <3>2
      <4>3. w <= Len(handler[t]) => handler'[t][w] = handler[t][w] BY <1>d, <1>e, <2>7
      <4> QED BY <1>c, <2>2, <4>1, <4>2, <4>3 DEF InCall
    <3> QED BY <3>1, <3>2
  <2>9. InCall(t)' BY <2>2, <2>8 DEF InCall, Live
  <2>10. QuietServer(t)' /\ InBroadcast(t)' BY <2>2 DEF QuietServer, InBroadcast
  <2> QED BY <2>4, <2>9, <2>10 DEF PipeInv
<1>3. ASSUME NEW t \in Servers, RecvEOF(t) PROVE PipeInv'
  <2>0. Len(handler[t]) + 1 \in Workers
    BY <1>3, <1>e, ServerAssumption DEF RecvEOF, Workers
  <2>1. /\ handler' = handler /\ pipe' = pipe /\ worker' = worker /\ reply' = reply
        /\ current' = current /\ UNCHANGED clientVars
        /\ thread'[t] = "error" /\ \A s \in Servers : s # t => thread'[s] = thread[s]
    BY <1>3, <1>a DEF RecvEOF
  <2>2. ~Alive(t)' BY <1>3, <2>0, <2>1 DEF RecvEOF, Alive, Live
  <2>3. ASSUME NEW s \in Servers, s # t PROVE QuietServer(s)' /\ InBroadcast(s)' /\ InCall(s)'
    BY <1>c, <2>1, <2>3, PipeFrame
  <2>4. QuietServer(t)' /\ InBroadcast(t)' /\ InCall(t)'
    BY <2>1, <2>2 DEF QuietServer, InBroadcast, InCall
  <2> QED BY <2>3, <2>4 DEF PipeInv
<1>4. ASSUME NEW t \in Servers, Respond(t) PROVE PipeInv'
  <2>1. /\ thread[t] = "wait" /\ Len(handler[t]) = NumWorkers
        /\ handler' = handler /\ pipe' = pipe /\ worker' = worker /\ reply' = reply
        /\ current' = current /\ UNCHANGED clientVars
        /\ thread'[t] \in {"ok", "error"} /\ \A s \in Servers : s # t => thread'[s] = thread[s]
    BY <1>4, <1>a DEF Respond
  <2>2. ASSUME NEW s \in Servers, s # t PROVE QuietServer(s)' /\ InBroadcast(s)' /\ InCall(s)'
    BY <1>c, <2>1, <2>2, PipeFrame
  <2>3. \A w \in Workers : /\ reply[<<t, w>>] = <<>>
                           /\ Live(<<t, w>>) => Len(pipe[<<t, w>>]) = 0
    BY <1>c, <1>d, <1>e, <2>1 DEF InCall
  <2>4. op \in {"reset", "infer"} BY <2>1 DEF ThreadInv
  <2>5. \A w \in Workers : Live(<<t, w>>) => worker[<<t, w>>] # "join"
    BY <2>1, <2>4 DEF SyncInv, SyncReset, SyncInfer, Synced, Loaded
  <2>6. QuietServer(t)' BY <2>1, <2>3, <2>5 DEF QuietServer, Alive, Live
  <2>7. InBroadcast(t)' /\ InCall(t)' BY <2>1 DEF InBroadcast, InCall
  <2> QED BY <2>2, <2>6, <2>7 DEF PipeInv
<1>5. ASSUME NEW t \in Servers, Barrier(t) PROVE PipeInv'
  <2>1. /\ thread[t] = "bcast" /\ thread'[t] = "ok" /\ UNCHANGED clientVars
        /\ handler' = handler /\ pipe' = pipe /\ reply' = reply /\ current' = current
        /\ \A s \in Servers : s # t => thread'[s] = thread[s]
        /\ \A w \in Workers : worker[<<t, w>>] = "join"
        /\ worker' = [c \in Cells |-> IF c[1] = t THEN "load" ELSE worker[c]]
    BY <1>5, <1>a DEF Barrier
  <2>2. \A s \in Servers, w \in Workers :
          worker'[<<s, w>>] = IF s = t THEN "load" ELSE worker[<<s, w>>]
    BY <1>b, <2>1
  <2>3. ASSUME NEW s \in Servers, s # t PROVE QuietServer(s)' /\ InBroadcast(s)' /\ InCall(s)'
    BY <1>c, <2>1, <2>2, <2>3, PipeFrame
  <2>4. \A w \in Workers : reply[<<t, w>>] = <<>> /\ Len(pipe[<<t, w>>]) = 0
    BY <1>c, <1>e, <2>1 DEF InBroadcast
  <2>5. QuietServer(t)' BY <2>1, <2>2, <2>4 DEF QuietServer
  <2>6. InBroadcast(t)' /\ InCall(t)' BY <2>1 DEF InBroadcast, InCall
  <2> QED BY <2>3, <2>5, <2>6 DEF PipeInv
<1>6. ASSUME NEW t \in Servers, NEW x \in Workers, NEW m \in {"init", "update"},
             Take(<<t, x>>, m), UNCHANGED <<clientVars, thread, handler, reply>>,
             UNCHANGED workerVars \/ Join(<<t, x>>)
      PROVE  PipeInv'
  <2>1. /\ pipe'[<<t, x>>] = Tail(pipe[<<t, x>>]) /\ worker[<<t, x>>] = "idle"
        /\ \A r \in Servers, v \in Workers :
              <<r, v>> # <<t, x>> => pipe'[<<r, v>>] = pipe[<<r, v>>]
        /\ Alive(t) => thread[t] \in {"bcast", "wait"}
        /\ thread[t] \in {"bcast", "wait"} =>
             Head(pipe[<<t, x>>]) = Command /\ m = op /\ pipe'[<<t, x>>] = <<>>
    BY <1>6, TakeFacts DEF Methods
  <2>2. /\ \A r \in Servers, v \in Workers : <<r, v>> # <<t, x>> =>
             worker'[<<r, v>>] = worker[<<r, v>>] /\ current'[<<r, v>>] = current[<<r, v>>]
        /\ worker'[<<t, x>>] = "idle"
           \/ (worker'[<<t, x>>] = "join" /\ current'[<<t, x>>] = Head(pipe[<<t, x>>]))
    BY <1>6, <1>a, <1>b, <2>1 DEF Join
  <2>3. Command' = Command BY <1>6 DEF Command
  <2>4. ASSUME NEW s \in Servers, s # t PROVE QuietServer(s)' /\ InBroadcast(s)' /\ InCall(s)'
    BY <1>6, <1>c, <2>1, <2>2, <2>4, PipeFrame
  <2>5. \A s \in Servers, w \in Workers : Live(<<s, w>>)' <=> Live(<<s, w>>)
    BY <2>1, <2>2 DEF Live
  <2>6. QuietServer(t)' BY <1>6, <2>1, <2>5 DEF QuietServer, Alive
  <2>7. thread[t] # "wait" BY <1>6, <2>1 DEF ThreadInv
  <2>8. InCall(t)' BY <1>6, <2>7 DEF InCall
  <2>9. InBroadcast(t)'
    <3> SUFFICES ASSUME thread[t] = "bcast" PROVE InBroadcast(t)'
      BY <1>6 DEF InBroadcast
    <3>1. ASSUME NEW w \in Workers, w # x
          PROVE  /\ reply'[<<t, w>>] = <<>>
                 /\ worker'[<<t, w>>] = "join" =>
                      pipe'[<<t, w>>] = <<>> /\ current'[<<t, w>>] = Command
                 /\ Live(<<t, w>>) => \A i \in 1..Len(pipe'[<<t, w>>]) :
                      IF i = Len(pipe'[<<t, w>>]) THEN pipe'[<<t, w>>][i] = Command
                      ELSE pipe'[<<t, w>>][i].method = "close" /\ op = "init"
      <4>1. <<t, w>> # <<t, x>> BY <3>1
      <4> QED BY <1>6, <1>c, <2>1, <2>2, <4>1 DEF InBroadcast
    <3>2. /\ reply'[<<t, x>>] = <<>> /\ pipe'[<<t, x>>] = <<>> /\ Len(pipe'[<<t, x>>]) = 0
          /\ worker'[<<t, x>>] = "join" => current'[<<t, x>>] = Command
      <4>1. pipe'[<<t, x>>] = <<>> BY <2>1
      <4>2. Len(pipe'[<<t, x>>]) = 0 BY <4>1
      <4> QED BY <1>6, <1>c, <2>1, <2>2, <4>1, <4>2 DEF InBroadcast
    <3>3. thread'[t] = "bcast" /\ op' = op BY <1>6
    <3> QED BY <2>3, <2>5, <3>1, <3>2, <3>3 DEF InBroadcast
  <2> QED BY <2>4, <2>6, <2>8, <2>9 DEF PipeInv
<1>7. ASSUME NEW t \in Servers, NEW x \in Workers, LoadWeights(<<t, x>>) PROVE PipeInv'
  <2>1. /\ \A r \in Servers, v \in Workers : <<r, v>> # <<t, x>> =>
             worker'[<<r, v>>] = worker[<<r, v>>] /\ current'[<<r, v>>] = current[<<r, v>>]
        /\ worker[<<t, x>>] = "load" /\ worker'[<<t, x>>] = "idle"
        /\ UNCHANGED <<clientVars, thread, handler, pipe, reply>>
    BY <1>7, <1>a, <1>b DEF LoadWeights
  <2>2. Command' = Command BY <2>1 DEF Command
  <2>3. ASSUME NEW s \in Servers, s # t PROVE QuietServer(s)' /\ InBroadcast(s)' /\ InCall(s)'
    BY <1>c, <2>1, <2>3, PipeFrame
  <2>4. \A s \in Servers, w \in Workers : Live(<<s, w>>)' <=> Live(<<s, w>>)
    BY <2>1 DEF Live
  <2>5. \A w \in Workers : worker'[<<t, w>>] = "join" =>
          worker[<<t, w>>] = "join" /\ current'[<<t, w>>] = current[<<t, w>>]
    BY <2>1
  <2>6. QuietServer(t)' BY <1>c, <2>1, <2>4, <2>5 DEF QuietServer, Alive
  <2>7. InCall(t)' BY <1>c, <2>1, <2>2, <2>4 DEF InCall
  <2>8. InBroadcast(t)' BY <1>c, <2>1, <2>2, <2>4, <2>5 DEF InBroadcast
  <2> QED BY <2>3, <2>6, <2>7, <2>8 DEF PipeInv
<1>8. ASSUME NEW t \in Servers, NEW x \in Workers, NEW m \in {"reset", "infer"}, NEW seen \in SUBSET Versions,
             Take(<<t, x>>, m), Answer(<<t, x>>, seen), op = "infer" => seen \subseteq {version},
             UNCHANGED <<clientVars, thread, handler, worker, current>>
      PROVE  PipeInv'
  <2>1. /\ pipe'[<<t, x>>] = Tail(pipe[<<t, x>>]) /\ worker[<<t, x>>] = "idle"
        /\ pipe[<<t, x>>] # <<>>
        /\ \A r \in Servers, v \in Workers :
              <<r, v>> # <<t, x>> => pipe'[<<r, v>>] = pipe[<<r, v>>]
        /\ Alive(t) => thread[t] \in {"bcast", "wait"}
        /\ thread[t] \in {"bcast", "wait"} =>
             Head(pipe[<<t, x>>]) = Command /\ m = op /\ pipe'[<<t, x>>] = <<>>
    BY <1>8, TakeFacts DEF Methods
  <2>2. \A r \in Servers, v \in Workers :
          <<r, v>> # <<t, x>> => reply'[<<r, v>>] = reply[<<r, v>>]
    BY <1>8, <1>a, <1>b DEF Answer
  <2>3. Command' = Command /\ Command.id = id BY <1>8 DEF Command
  <2>4. ASSUME NEW s \in Servers, s # t PROVE QuietServer(s)' /\ InBroadcast(s)' /\ InCall(s)'
    BY <1>8, <1>c, <2>1, <2>2, <2>4, PipeFrame
  <2>5. QuietServer(t)' BY <1>8, <2>1 DEF QuietServer, Alive, Live
  <2>6. thread[t] # "bcast" BY <1>8, <2>1 DEF ThreadInv
  <2>7. InBroadcast(t)' BY <1>8, <2>6 DEF InBroadcast
  <2>8. InCall(t)'
    <3> SUFFICES ASSUME thread[t] = "wait" PROVE InCall(t)'
      BY <1>8 DEF InCall
    <3>1. Live(<<t, x>>) BY <2>1 DEF Live
    <3>2. ~(x <= Len(handler[t])) /\ reply[<<t, x>>] = <<>>
      <4>1. x > Len(handler[t]) /\ reply[<<t, x>>] = <<>> BY <2>1, <3>1, HeadOfPipe
      <4> QED BY <1>d, <1>e, <4>1
    <3>3. Len(reply'[<<t, x>>]) = 1 /\ reply'[<<t, x>>][1].id = id
          /\ (op = "infer" => reply'[<<t, x>>][1].seen \subseteq {version})
      <4> DEFINE answer == [id |-> id, seen |-> seen]
      <4>1. reply'[<<t, x>>] = Append(reply[<<t, x>>], answer)
        BY <1>8, <1>a, <1>b, <2>1, <2>3 DEF Answer
      <4>2. answer \in Replies /\ answer.id = id /\ answer.seen = seen
        BY <1>8 DEF Replies, TypeInv, TypeOK
      <4> HIDE DEF answer
      <4>3. Len(reply[<<t, x>>]) = 0 BY <1>e, <3>2
      <4>4. Len(reply[<<t, x>>]) + 1 = 1 BY <4>3
      <4>5. Len(reply'[<<t, x>>]) = Len(reply[<<t, x>>]) + 1
            /\ reply'[<<t, x>>][Len(reply[<<t, x>>]) + 1] = answer
        BY <1>e, <4>1, <4>2, AppendFacts
      <4>6. Len(reply'[<<t, x>>]) = 1 /\ reply'[<<t, x>>][1] = answer BY <4>4, <4>5
      <4>7. m = op BY <2>1
      <4> QED BY <1>8, <4>2, <4>6, <4>7
    <3>4. pipe'[<<t, x>>] = <<>> BY <2>1
    <3>5. ASSUME NEW w \in Workers
          PROVE  IF w <= Len(handler[t])
                 THEN /\ reply'[<<t, w>>] = <<>> /\ (Live(<<t, w>>) => pipe'[<<t, w>>] = <<>>)
                      /\ handler[t][w].id = id
                      /\ op = "infer" => handler[t][w].seen \subseteq {version}
                 ELSE \/ /\ reply'[<<t, w>>] = <<>>
                         /\ Live(<<t, w>>) => Len(pipe'[<<t, w>>]) = 1 /\ pipe'[<<t, w>>][1] = Command
                      \/ /\ Len(reply'[<<t, w>>]) = 1 /\ reply'[<<t, w>>][1].id = id
                         /\ op = "infer" => reply'[<<t, w>>][1].seen \subseteq {version}
                         /\ Live(<<t, w>>) => pipe'[<<t, w>>] = <<>>
      <4>1. CASE w = x BY <3>2, <3>3, <3>4, <4>1
      <4>2. CASE w # x
        <5>1. reply'[<<t, w>>] = reply[<<t, w>>] /\ pipe'[<<t, w>>] = pipe[<<t, w>>]
          BY <2>1, <2>2, <4>2
        <5> QED BY <1>c, <5>1 DEF InCall
      <4> QED BY <4>1, <4>2
    <3>6. thread'[t] = "wait" /\ handler' = handler /\ id' = id /\ version' = version /\ op' = op
          /\ worker' = worker
      BY <1>8
    <3> QED BY <2>3, <3>5, <3>6 DEF InCall, Live
  <2> QED BY <2>4, <2>5, <2>7, <2>8 DEF PipeInv
<1>9. ASSUME NEW t \in Servers, NEW x \in Workers, CloseCommunicator(<<t, x>>) PROVE PipeInv'
  <2>0. /\ Take(<<t, x>>, "close")
        /\ UNCHANGED <<clientVars, thread, handler, reply, worker, current>>
    BY <1>9 DEF CloseCommunicator
  <2>1. /\ pipe'[<<t, x>>] = Tail(pipe[<<t, x>>]) /\ worker[<<t, x>>] = "idle"
        /\ pipe[<<t, x>>] # <<>>
        /\ \A r \in Servers, v \in Workers :
              <<r, v>> # <<t, x>> => pipe'[<<r, v>>] = pipe[<<r, v>>]
        /\ thread[t] # "wait"
        /\ thread[t] = "bcast" => Len(pipe[<<t, x>>]) # 1
    BY <2>0, TakeFacts DEF Methods
  <2>2. /\ Len(pipe'[<<t, x>>]) = Len(pipe[<<t, x>>]) - 1
        /\ \A i \in 1..Len(pipe'[<<t, x>>]) : /\ pipe'[<<t, x>>][i] = pipe[<<t, x>>][i + 1]
                                             /\ i + 1 \in 1..Len(pipe[<<t, x>>])
    BY <1>e, <2>1, TailFacts
  <2>3. Command' = Command BY <2>0 DEF Command
  <2>4. ASSUME NEW s \in Servers, s # t PROVE QuietServer(s)' /\ InBroadcast(s)' /\ InCall(s)'
    BY <1>c, <2>0, <2>1, <2>4, PipeFrame
  <2>5. InCall(t)' BY <2>0, <2>1 DEF InCall
  <2>6. QuietServer(t)'
    <3> SUFFICES ASSUME Alive(t), thread[t] \notin {"bcast", "wait"}, NEW w \in Workers
                 PROVE  /\ worker[<<t, w>>] # "join" /\ reply[<<t, w>>] = <<>>
                        /\ \A i \in 1..Len(pipe'[<<t, w>>]) : pipe'[<<t, w>>][i].method = "close"
      BY <2>0 DEF QuietServer, Alive, Live
    <3>1. /\ worker[<<t, w>>] # "join" /\ reply[<<t, w>>] = <<>>
          /\ \A i \in 1..Len(pipe[<<t, w>>]) : pipe[<<t, w>>][i].method = "close"
      BY <1>c DEF QuietServer
    <3>2. CASE w = x BY <2>2, <3>1, <3>2
    <3>3. CASE w # x BY <2>1, <3>1, <3>3
    <3> QED BY <3>2, <3>3
  <2>7. InBroadcast(t)'
    <3> SUFFICES ASSUME thread[t] = "bcast", NEW w \in Workers
                 PROVE  /\ reply[<<t, w>>] = <<>>
                        /\ worker[<<t, w>>] = "join" =>
                             pipe'[<<t, w>>] = <<>> /\ current[<<t, w>>] = Command
                        /\ Live(<<t, w>>) => \A i \in 1..Len(pipe'[<<t, w>>]) :
                             IF i = Len(pipe'[<<t, w>>]) THEN pipe'[<<t, w>>][i] = Command
                             ELSE pipe'[<<t, w>>][i].method = "close" /\ op = "init"
      BY <2>0, <2>3 DEF InBroadcast, Live
    <3>1. /\ reply[<<t, w>>] = <<>>
          /\ worker[<<t, w>>] = "join" => pipe[<<t, w>>] = <<>> /\ current[<<t, w>>] = Command
          /\ Live(<<t, w>>) => \A i \in 1..Len(pipe[<<t, w>>]) :
               IF i = Len(pipe[<<t, w>>]) THEN pipe[<<t, w>>][i] = Command
               ELSE pipe[<<t, w>>][i].method = "close" /\ op = "init"
      BY <1>c DEF InBroadcast
    <3>2. CASE w # x
      <4>1. pipe'[<<t, w>>] = pipe[<<t, w>>] BY <2>1, <3>2
      <4> QED BY <3>1, <4>1
    <3>3. CASE w = x
      <4>1. worker[<<t, w>>] # "join" BY <2>1, <3>3
      <4>2. ASSUME Live(<<t, w>>), NEW i \in 1..Len(pipe'[<<t, w>>])
            PROVE  IF i = Len(pipe'[<<t, w>>]) THEN pipe'[<<t, w>>][i] = Command
                   ELSE pipe'[<<t, w>>][i].method = "close" /\ op = "init"
        <5>1. pipe'[<<t, w>>][i] = pipe[<<t, w>>][i + 1] /\ i + 1 \in 1..Len(pipe[<<t, w>>])
          BY <2>2, <3>3, <4>2
        <5>2. i = Len(pipe'[<<t, w>>]) <=> i + 1 = Len(pipe[<<t, w>>])
          BY <1>e, <2>2, <3>3
        <5>3. IF i + 1 = Len(pipe[<<t, w>>]) THEN pipe[<<t, w>>][i + 1] = Command
              ELSE pipe[<<t, w>>][i + 1].method = "close" /\ op = "init"
          BY <3>1, <4>2, <5>1
        <5> QED BY <5>1, <5>2, <5>3
      <4> QED BY <3>1, <4>1, <4>2
    <3> QED BY <3>2, <3>3
  <2> QED BY <2>4, <2>5, <2>6, <2>7 DEF PipeInv
<1>10. ASSUME NEW t \in Servers, NEW x \in Workers, WorkerDies(<<t, x>>) PROVE PipeInv'
  <2>1. /\ \A r \in Servers, v \in Workers : <<r, v>> # <<t, x>> =>
             worker'[<<r, v>>] = worker[<<r, v>>] /\ pipe'[<<r, v>>] = pipe[<<r, v>>]
        /\ worker'[<<t, x>>] = "dead"
        /\ UNCHANGED <<clientVars, thread, handler, reply, current>>
    BY <1>10, <1>a, <1>b DEF WorkerDies
  <2>2. Command' = Command BY <2>1 DEF Command
  <2>3. ASSUME NEW s \in Servers, s # t PROVE QuietServer(s)' /\ InBroadcast(s)' /\ InCall(s)'
    BY <1>c, <2>1, <2>3, PipeFrame
  <2>4. QuietServer(t)' BY <2>1 DEF QuietServer, Alive, Live
  <2>5. \A w \in Workers : Live(<<t, w>>)' => Live(<<t, w>>) /\ pipe'[<<t, w>>] = pipe[<<t, w>>]
    BY <2>1 DEF Live
  <2>6. InCall(t)' BY <1>c, <2>1, <2>2, <2>5 DEF InCall
  <2>7. \A w \in Workers : worker'[<<t, w>>] = "join" => worker[<<t, w>>] = "join" /\ Live(<<t, w>>)'
    BY <2>1 DEF Live
  <2>8. InBroadcast(t)' BY <1>c, <2>1, <2>2, <2>5, <2>7 DEF InBroadcast
  <2> QED BY <2>3, <2>4, <2>6, <2>8 DEF PipeInv
<1>11. ASSUME NEW o, NEW v, NEW b, Call(o, v, b), Joined PROVE PipeInv'
  BY <1>11, <1>c DEF Call, Joined, PipeInv, QuietServer, InBroadcast, InCall, Alive, Live
<1>12. AllOK => Joined BY DEF AllOK, Joined
<1>13. CASE InitFails
  <2>1. \A s \in Servers : thread[s] \notin {"bcast", "wait"}
    <3>1. PICK e \in Servers : thread[e] = "error" BY <1>13 DEF InitFails
    <3> TAKE s \in Servers
    <3>2. s \in Int /\ e \in Int BY ServerAssumption DEF Servers
    <3>3. CASE s < e
      <4>1. s \in 1..(e - 1) BY <3>2, <3>3, ServerAssumption DEF Servers
      <4> QED BY <1>13, <3>1, <4>1 DEF InitFails, ThreadInv
    <3>4. CASE e < s
      <4>1. e \in 1..(s - 1) BY <3>2, <3>4, ServerAssumption DEF Servers
      <4> QED BY <1>13, <3>1, <4>1 DEF InitFails, ThreadInv
    <3> QED BY <3>1, <3>2, <3>3, <3>4
  <2> QED BY <1>13, <1>c, <2>1 DEF InitFails, PipeInv, QuietServer, InBroadcast, InCall, Alive, Live
<1>14. CASE ClientGone
  BY <1>14, <1>c DEF ClientGone, Joined, PipeInv, QuietServer, InBroadcast, InCall, Alive, Live
<1>15. CASE UNCHANGED vars
  <2>1. Command' = Command BY <1>15 DEF vars, Command
  <2> QED BY <1>15, <1>c, PipeFrame DEF vars, PipeInv
<1>16. ASSUME NEW t \in Servers, NEW x \in Workers, InitCommunicator(<<t, x>>) PROVE PipeInv'
  BY <1>6, <1>16 DEF InitCommunicator
<1>17. ASSUME NEW t \in Servers, NEW x \in Workers, UpdateParams(<<t, x>>) PROVE PipeInv'
  BY <1>6, <1>17 DEF UpdateParams
<1>18. ASSUME NEW t \in Servers, NEW x \in Workers, ResetPrefixCache(<<t, x>>) PROVE PipeInv'
  <2>1. op # "infer"
    <3> SUFFICES ASSUME op = "infer" PROVE FALSE
      OBVIOUS
    <3>1. Live(<<t, x>>) /\ pipe[<<t, x>>] # <<>> /\ Head(pipe[<<t, x>>]).method = "reset"
      BY <1>18 DEF ResetPrefixCache, Take, Live
    <3>2. Head(pipe[<<t, x>>]) = pipe[<<t, x>>][1] /\ 1 \in 1..Len(pipe[<<t, x>>])
      BY <1>e, <3>1, TailFacts
    <3> QED BY <3>1, <3>2 DEF SyncInv, SyncInfer
  <2>2. {version} \in SUBSET Versions BY DEF TypeInv, TypeOK
  <2> QED BY <1>8, <1>18, <2>1, <2>2 DEF ResetPrefixCache
<1>19. ASSUME NEW t \in Servers, NEW x \in Workers, Infer(<<t, x>>) PROVE PipeInv'
  <2>1. op = "infer" => SampledFrom(<<t, x>>) \subseteq {version}
    <3>1. Live(<<t, x>>) BY <1>19 DEF Infer, Take, Live
    <3> QED BY <3>1 DEF SyncInv, SyncInfer, Synced, SampledFrom
  <2>2. SampledFrom(<<t, x>>) \in SUBSET Versions BY <1>b, SampledFromType DEF TypeInv
  <2> QED BY <1>8, <1>19, <2>1, <2>2 DEF Infer
<1>20. ASSUME NEW t \in Servers, NEW x \in Workers, InferRaises(<<t, x>>) PROVE PipeInv'
  BY <1>8, <1>20 DEF InferRaises
<1>21. ASSUME NEW c \in Cells PROVE \E t \in Servers, x \in Workers : c = <<t, x>> BY DEF Cells
<1>22. ServerStep \/ WorkerStep \/ Fault => PipeInv'
  BY <1>1, <1>2, <1>3, <1>4, <1>5, <1>7, <1>9, <1>10, <1>16, <1>17, <1>18, <1>19, <1>20, <1>21
     DEF ServerStep, WorkerStep, Fault
<1>23. ClientStep => PipeInv'
  BY <1>11, <1>12, <1>13, <1>14
     DEF ClientStep, NextRound, NextBucket, CallReset, CallInfer, InferAgain, ClientExits,
         NextClient, TypeInv
<1> QED BY <1>15, <1>22, <1>23 DEF Next

(* What a step leaves alone of a worker keeps the worker's progress.       *)
LEMMA SyncFrame ==
    ASSUME SyncInv, NEW s \in Servers, NEW w \in Workers, UNCHANGED clientVars,
           thread'[s] = thread[s], handler'[s] = handler[s],
           pipe'[<<s, w>>] = pipe[<<s, w>>], reply'[<<s, w>>] = reply[<<s, w>>],
           worker'[<<s, w>>] = worker[<<s, w>>], current'[<<s, w>>] = current[<<s, w>>],
           weights'[<<s, w>>] = weights[<<s, w>>], cache'[<<s, w>>] = cache[<<s, w>>],
           Live(<<s, w>>)'
    PROVE  (SyncInit(s, <<s, w>>) /\ SyncUpdate(s, <<s, w>>)
            /\ SyncReset(s, <<s, w>>) /\ SyncInfer(s, <<s, w>>))'
<1> USE DEF clientVars
<1>1. /\ SyncInit(s, <<s, w>>) /\ SyncUpdate(s, <<s, w>>)
      /\ SyncReset(s, <<s, w>>) /\ SyncInfer(s, <<s, w>>)
  BY DEF SyncInv, Live
<1>2. SyncInit(s, <<s, w>>)' BY <1>1 DEF SyncInit, Settled, Loaded
<1>3. SyncUpdate(s, <<s, w>>)' BY <1>1 DEF SyncUpdate, Settled, Loaded
<1>4. SyncReset(s, <<s, w>>)' BY <1>1 DEF SyncReset, Settled, Loaded, Synced
<1>5. SyncInfer(s, <<s, w>>)' BY <1>1 DEF SyncInfer, Synced
<1> QED BY <1>2, <1>3, <1>4, <1>5

(* Every action keeps what the progress of the synchronisation promises    *)
(* about every live worker.                                                *)
LEMMA SyncStep ==
    ASSUME TypeInv, ThreadInv, PipeInv, SyncInv, [Next]_vars
    PROVE  SyncInv'
<1> USE DEF clientVars, workerVars, faultVars
<1> DEFINE At(s, w) == /\ SyncInit(s, <<s, w>>) /\ SyncUpdate(s, <<s, w>>)
                       /\ SyncReset(s, <<s, w>>) /\ SyncInfer(s, <<s, w>>)
<1>a. /\ thread \in [Servers -> {"post", "bcast", "wait", "ok", "error"}]
      /\ handler \in [Servers -> Seq(Replies)] /\ pipe \in [Cells -> Seq(Commands)]
      /\ reply \in [Cells -> Seq(Replies)]
      /\ worker \in [Cells -> {"idle", "join", "load", "dead"}]
      /\ current \in [Cells -> Commands \cup {NoCommand}]
      /\ weights \in [Cells -> [Buckets -> Versions]] /\ cache \in [Cells -> SUBSET Versions]
  BY DEF TypeInv, TypeOK
<1>b. \A s \in Servers, w \in Workers : <<s, w>> \in Cells /\ <<s, w>>[2] = w BY DEF Cells
<1>c. \A s \in Servers : QuietServer(s) /\ InBroadcast(s) /\ InCall(s) BY DEF PipeInv
<1>d. \A w \in Workers : w \in Nat /\ w >= 1 /\ w <= NumWorkers BY ServerAssumption DEF Workers
<1>e. /\ \A s \in Servers, w \in Workers :
           pipe[<<s, w>>] \in Seq(Commands) /\ Len(pipe[<<s, w>>]) \in Nat
           /\ (pipe[<<s, w>>] = <<>> <=> Len(pipe[<<s, w>>]) = 0)
           /\ reply[<<s, w>>] \in Seq(Replies) /\ Len(reply[<<s, w>>]) \in Nat
           /\ (reply[<<s, w>>] = <<>> <=> Len(reply[<<s, w>>]) = 0)
      /\ \A s \in Servers : Len(handler[s]) \in Nat
  BY <1>a, <1>b, LenFacts
<1>f. \A s \in Servers, w \in Workers : Live(<<s, w>>) => At(s, w) BY DEF SyncInv
<1>g. SUFFICES ASSUME NEW s \in Servers, NEW w \in Workers, Live(<<s, w>>)' PROVE At(s, w)'
  BY DEF SyncInv
<1> DEFINE c == <<s, w>>
<1>h. c \in Cells /\ c[2] = w BY <1>b
<1>1. ASSUME NEW t \in Servers, Handle(t) PROVE At(s, w)'
  <2>1. Command \in Commands /\ Command.method = op /\ op \in Methods
    <3>1. op # "exited" BY <1>1 DEF Handle, Joined, TypeInv
    <3> QED BY <3>1, CommandType DEF TypeInv, TypeOK, Command
  <2>2. pipe' = [k \in Cells |-> IF k[1] = t /\ k[2] \in Reached(t)
                                 THEN Append(pipe[k], Command) ELSE pipe[k]]
    BY <1>1 DEF Handle, Command
  <2>3. pipe'[c] = IF s = t /\ w \in Reached(t) THEN Append(pipe[c], Command) ELSE pipe[c]
    BY <1>b, <2>2
  <2>4. /\ reply' = reply /\ UNCHANGED workerVars /\ UNCHANGED clientVars /\ thread[t] = "post"
        /\ s # t => thread'[s] = thread[s] /\ handler'[s] = handler[s]
        /\ handler'[t] = <<>>
        /\ thread'[t] = IF Reached(t) # Workers THEN "error" ELSE AfterPost(op)
    BY <1>1, <1>a DEF Handle
  <2>5. CASE s # t BY <1>g, <2>3, <2>4, <2>5, SyncFrame
  <2>6. CASE s = t
    <3>1. Live(c) /\ At(s, w) BY <1>f, <1>g, <2>4 DEF Live
    <3>2. SyncInit(s, c)' BY <2>4, <2>6 DEF SyncInit, AfterPost
    <3>3. SyncUpdate(s, c)' BY <2>4, <2>6, <3>1 DEF SyncUpdate, Settled, Loaded, AfterPost
    <3>4. SyncReset(s, c)'
      <4> SUFFICES ASSUME op = "reset" PROVE SyncReset(s, c)'
        BY <2>4 DEF SyncReset
      <4>1. thread'[s] \in {"error", "wait"} BY <2>4, <2>6 DEF AfterPost
      <4>2. Loaded(c, NumBuckets) BY <2>4, <2>6, <3>1 DEF SyncReset, Settled
      <4>3. thread'[s] = "wait" => ~(w <= Len(handler'[s])) /\ reply'[c] = <<>>
        <5> SUFFICES ASSUME thread'[s] = "wait" PROVE ~(w <= Len(handler'[s])) /\ reply'[c] = <<>>
          OBVIOUS
        <5>1. Reached(t) = Workers BY <2>4, <2>6
        <5>2. Alive(t)
          <6>1. ASSUME NEW v \in Workers PROVE Live(<<t, v>>)
            <7>1. v \in 1..v /\ v \in Reached(t) BY <1>d, <5>1
            <7> QED BY <7>1 DEF Reached, Live
          <6> QED BY <6>1 DEF Alive
        <5>3. reply[c] = <<>> BY <1>c, <2>4, <2>6, <5>2 DEF QuietServer
        <5>4. Len(handler'[s]) = 0 BY <2>4, <2>6
        <5> QED BY <1>d, <2>4, <5>3, <5>4
      <4> QED BY <2>4, <4>1, <4>2, <4>3, <1>h DEF SyncReset, Loaded
    <3>5. SyncInfer(s, c)'
      <4> SUFFICES ASSUME op = "infer" PROVE SyncInfer(s, c)'
        BY <2>4 DEF SyncInfer
      <4>1. thread'[s] # "ok" BY <2>4, <2>6 DEF AfterPost
      <4>2. /\ Synced(c) /\ cache[c] \subseteq {version}
            /\ \A i \in 1..Len(pipe[c]) : pipe[c][i].method = "infer"
        BY <3>1 DEF SyncInfer
      <4>3. ASSUME NEW i \in 1..Len(pipe'[c]) PROVE pipe'[c][i].method = "infer"
        <5>1. CASE pipe'[c] = pipe[c] BY <4>2, <4>3, <5>1
        <5>2. CASE pipe'[c] = Append(pipe[c], Command)
          <6>1. /\ Len(pipe'[c]) = Len(pipe[c]) + 1
                /\ pipe'[c][Len(pipe[c]) + 1] = Command
                /\ \A j \in 1..Len(pipe[c]) : pipe'[c][j] = pipe[c][j]
            BY <1>e, <2>1, <5>2, AppendFacts
          <6>2. CASE i = Len(pipe[c]) + 1 BY <2>1, <6>1, <6>2
          <6>3. CASE i # Len(pipe[c]) + 1
            <7>1. i \in 1..Len(pipe[c]) BY <1>e, <6>1, <6>3
            <7> QED BY <4>2, <6>1, <7>1
          <6> QED BY <6>2, <6>3
        <5> QED BY <2>3, <5>1, <5>2
      <4> QED BY <2>4, <4>1, <4>2, <4>3 DEF SyncInfer, Synced
    <3> QED BY <3>2, <3>3, <3>4, <3>5
  <2> QED BY <2>5, <2>6
<1>2. ASSUME NEW t \in Servers, Recv(t) PROVE At(s, w)'
  <2> DEFINE n == Len(handler[t]) + 1
             d == <<t, n>>
  <2>0. n \in Workers /\ n \in Nat BY <1>2, <1>e, ServerAssumption DEF Recv, Workers
  <2> HIDE DEF n
  <2>1. /\ thread[t] = "wait" /\ thread' = thread /\ pipe' = pipe /\ UNCHANGED workerVars
        /\ UNCHANGED clientVars
        /\ reply[d] # <<>> /\ reply' = [reply EXCEPT ![d] = Tail(@)]
        /\ handler' = [handler EXCEPT ![t] = Append(@, Head(reply[d]))]
    BY <1>2 DEF Recv, n
  <2>2. d \in Cells /\ Head(reply[d]) \in Replies BY <1>a, <1>b, <2>0, <2>1
  <2>3. Len(handler'[t]) = n
    <3>1. handler'[t] = Append(handler[t], Head(reply[d])) /\ handler[t] \in Seq(Replies) BY <1>a, <2>1
    <3> QED BY <2>2, <3>1, AppendFacts DEF n
  <2>4. CASE s # t
    <3>1. reply'[c] = reply[c] /\ handler'[s] = handler[s] BY <1>a, <1>b, <2>1, <2>4
    <3> QED BY <1>g, <2>1, <3>1, SyncFrame
  <2>5. CASE s = t
    <3>1. Live(c) /\ At(s, w) BY <1>f, <1>g, <2>1 DEF Live
    <3>2. op \in {"reset", "infer"} BY <2>1 DEF ThreadInv
    <3>3. (w <= Len(handler'[s]) \/ reply'[c] # <<>>) <=> (w <= Len(handler[s]) \/ reply[c] # <<>>)
      <4>1. CASE w = n BY <2>0, <2>1, <2>3, <2>5, <4>1
      <4>2. CASE w # n
        <5>1. reply'[c] = reply[c] BY <1>a, <1>b, <2>1, <4>2
        <5>2. w <= Len(handler'[s]) <=> w <= Len(handler[s])
          BY <1>d, <1>e, <2>3, <2>5, <4>2 DEF n
        <5> QED BY <5>1, <5>2
      <4> QED BY <4>1, <4>2
    <3>4. SyncReset(s, c)' BY <1>h, <2>1, <3>1, <3>3 DEF SyncReset, Synced, Loaded, Settled
    <3>5. SyncInfer(s, c)' BY <2>1, <3>1 DEF SyncInfer, Synced
    <3>6. SyncInit(s, c)' /\ SyncUpdate(s, c)' BY <2>1, <3>2 DEF SyncInit, SyncUpdate
    <3> QED BY <3>4, <3>5, <3>6
  <2> QED BY <2>4, <2>5
<1>3. ASSUME NEW t \in Servers, RecvEOF(t) PROVE At(s, w)'
  <2>1. /\ handler' = handler /\ pipe' = pipe /\ UNCHANGED workerVars /\ reply' = reply
        /\ UNCHANGED clientVars
        /\ thread'[t] = "error" /\ (s # t => thread'[s] = thread[s])
    BY <1>3, <1>a DEF RecvEOF
  <2>2. CASE s # t BY <1>g, <2>1, <2>2, SyncFrame
  <2>3. CASE s = t
    <3>1. At(s, w) BY <1>f, <1>g, <2>1 DEF Live
    <3> QED BY <2>1, <2>3, <3>1 DEF SyncInit, SyncUpdate, SyncReset, SyncInfer, Synced
  <2> QED BY <2>2, <2>3
<1>4. ASSUME NEW t \in Servers, Respond(t) PROVE At(s, w)'
  <2>1. /\ thread[t] = "wait" /\ Len(handler[t]) = NumWorkers
        /\ handler' = handler /\ pipe' = pipe /\ UNCHANGED workerVars /\ reply' = reply
        /\ UNCHANGED clientVars
        /\ thread'[t] \in {"ok", "error"} /\ (s # t => thread'[s] = thread[s])
    BY <1>4, <1>a DEF Respond
  <2>2. CASE s # t BY <1>g, <2>1, <2>2, SyncFrame
  <2>3. CASE s = t
    <3>1. Live(c) /\ At(s, w) BY <1>f, <1>g, <2>1 DEF Live
    <3>2. pipe[c] = <<>> /\ w <= Len(handler[s])
      BY <1>c, <1>d, <2>1, <2>3, <3>1 DEF InCall
    <3>3. op \in {"reset", "infer"} BY <2>1 DEF ThreadInv
    <3>4. SyncReset(s, c)' BY <1>h, <2>1, <2>3, <3>1, <3>2 DEF SyncReset, Synced
    <3>5. SyncInfer(s, c)' BY <2>1, <2>3, <3>1, <3>2 DEF SyncInfer, Synced
    <3>6. SyncInit(s, c)' /\ SyncUpdate(s, c)' BY <2>1, <3>3 DEF SyncInit, SyncUpdate
    <3> QED BY <3>4, <3>5, <3>6
  <2> QED BY <2>2, <2>3
<1>5. ASSUME NEW t \in Servers, Barrier(t) PROVE At(s, w)'
  <2>1. /\ thread[t] = "bcast" /\ thread'[t] = "ok" /\ UNCHANGED clientVars
        /\ handler' = handler /\ pipe' = pipe /\ reply' = reply /\ current' = current
        /\ weights' = weights /\ cache' = cache
        /\ (s # t => thread'[s] = thread[s])
        /\ \A v \in Workers : worker[<<t, v>>] = "join"
        /\ worker' = [k \in Cells |-> IF k[1] = t THEN "load" ELSE worker[k]]
    BY <1>5, <1>a DEF Barrier
  <2>2. worker'[c] = IF s = t THEN "load" ELSE worker[c] BY <1>b, <2>1
  <2>3. CASE s # t BY <1>g, <2>1, <2>2, <2>3, SyncFrame
  <2>4. CASE s = t
    <3>1. Live(c) /\ At(s, w) /\ worker[c] = "join" BY <1>f, <2>1, <2>4 DEF Live
    <3>2. pipe[c] = <<>> /\ current[c] = Command BY <1>c, <2>1, <2>4, <3>1 DEF InBroadcast
    <3>3. op \in {"init", "update"} BY <2>1 DEF ThreadInv
    <3>4. current[c].method = op /\ current[c].version = version /\ current[c].bucket = bucket
      BY <3>2 DEF Command
    <3>5. SyncInit(s, c)'
      BY <2>1, <2>2, <2>4, <3>2, <3>4 DEF SyncInit, Settled, Loaded
    <3>6. SyncUpdate(s, c)'
      <4> SUFFICES ASSUME op = "update" PROVE Settled(c, bucket)'
        BY <2>1, <2>4 DEF SyncUpdate
      <4>1. bucket \in Nat BY ServerAssumption DEF TypeInv, TypeOK, Buckets
      <4>2. \A b \in 1..(bucket - 1) : weights[c][b] = version
        BY <2>1, <2>4, <3>1 DEF SyncUpdate
      <4>3. ASSUME NEW b \in 1..bucket PROVE weights[c][b] = version \/ b = bucket
        BY <4>1, <4>2
      <4> QED BY <2>1, <2>2, <2>4, <3>2, <3>4, <4>3 DEF Settled, Loaded
    <3>7. SyncReset(s, c)' /\ SyncInfer(s, c)' BY <2>1, <3>3 DEF SyncReset, SyncInfer
    <3> QED BY <3>5, <3>6, <3>7
  <2> QED BY <2>3, <2>4
<1>6. ASSUME NEW t \in Servers, NEW x \in Workers, NEW m \in Methods, Take(<<t, x>>, m), s = t, w = x,
             Live(c)
      PROVE  /\ pipe'[c] = Tail(pipe[c]) /\ worker[c] = "idle" /\ pipe[c] # <<>>
             /\ pipe[c][1].method = m /\ 1 \in 1..Len(pipe[c])
             /\ op = "init" => thread[s] # "ok"
             /\ op = "update" => thread[s] \in {"bcast", "wait", "error"}
             /\ op = "update" /\ thread[s] = "bcast" => m = "update"
             /\ op = "reset" => thread[s] \in {"bcast", "wait", "error"}
             /\ op = "reset" /\ thread[s] = "wait" =>
                  m = "reset" /\ ~(w <= Len(handler[s])) /\ reply[c] = <<>>
             /\ op = "infer" => m = "infer" /\ thread[s] # "ok"
  <2>1. /\ pipe'[c] = Tail(pipe[c]) /\ worker[c] = "idle" /\ pipe[c] # <<>>
        /\ pipe[c][1].method = m
        /\ thread[s] = "bcast" /\ m # "close" => m = op
        /\ thread[s] = "bcast" /\ m = "close" => op = "init"
        /\ thread[s] = "wait" => m # "close" /\ m = op
    BY <1>6, TakeFacts
  <2>2. 1 \in 1..Len(pipe[c]) BY <1>e, <2>1
  <2>3. At(s, w) /\ thread[s] \in {"post", "bcast", "wait", "ok", "error"} BY <1>a, <1>f, <1>6
  <2>4. op = "init" => thread[s] # "ok" BY <2>1, <2>3 DEF SyncInit, Settled
  <2>5. op = "update" => thread[s] \in {"bcast", "wait", "error"}
    BY <2>1, <2>3 DEF SyncUpdate, Settled
  <2>6. op = "reset" => thread[s] \in {"bcast", "wait", "error"}
    BY <2>1, <2>3 DEF SyncReset, Settled
  <2>7. op = "infer" => m = "infer" /\ thread[s] # "ok" BY <2>1, <2>2, <2>3 DEF SyncInfer
  <2>8. thread[s] = "wait" => ~(w <= Len(handler[s])) /\ reply[c] = <<>>
    <3>1. thread[s] = "wait" => w > Len(handler[s]) /\ reply[c] = <<>>
      BY <1>6, <2>1, HeadOfPipe
    <3> QED BY <1>d, <1>e, <3>1
  <2> QED BY <2>1, <2>2, <2>4, <2>5, <2>6, <2>7, <2>8
<1>7. ASSUME NEW t \in Servers, NEW x \in Workers, NEW m \in {"init", "update"},
             Take(<<t, x>>, m), UNCHANGED <<clientVars, thread, handler, reply, weights, cache>>,
             UNCHANGED workerVars \/ Join(<<t, x>>)
      PROVE  At(s, w)'
  <2>0. m \in Methods BY DEF Methods
  <2>1. CASE <<s, w>> # <<t, x>>
    <3>1. pipe'[c] = pipe[c] BY <1>7, <2>0, <2>1, TakeFacts
    <3>2. worker'[c] = worker[c] /\ current'[c] = current[c] BY <1>7, <1>a, <1>b, <2>1 DEF Join
    <3> QED BY <1>7, <1>g, <3>1, <3>2, SyncFrame
  <2>2. CASE s = t /\ w = x
    <3>0. worker[c] = "idle" BY <1>7, <2>2 DEF Take
    <3>1. Live(c) BY <3>0 DEF Live
    <3>2. /\ op = "init" => thread[s] # "ok"
          /\ op = "update" => thread[s] \in {"bcast", "wait", "error"}
          /\ op = "reset" => thread[s] = "error" \/ thread[s] = "bcast"
          /\ op # "infer"
      BY <1>6, <1>7, <2>0, <2>2, <3>1
    <3>3. worker'[c] = "idle" \/ worker'[c] = "join" BY <1>7, <1>a, <1>b, <2>2, <3>0 DEF Join
    <3>4. SyncUpdate(s, c)'
      <4> SUFFICES ASSUME op = "update", thread[s] = "bcast"
                   PROVE  IF worker'[c] = "join" THEN \A b \in 1..(bucket - 1) : weights[c][b] = version
                          ELSE Loaded(c, bucket - 1)'
        BY <1>7, <3>2 DEF SyncUpdate
      <4>1. Loaded(c, bucket - 1) BY <1>f, <3>0, <3>1 DEF SyncUpdate
      <4>2. \A b \in 1..(bucket - 1) : weights[c][b] = version BY <3>0, <4>1 DEF Loaded
      <4> QED BY <1>7, <3>3, <4>2 DEF Loaded
    <3>5. SyncInit(s, c)' /\ SyncReset(s, c)' /\ SyncInfer(s, c)'
      BY <1>7, <3>2 DEF SyncInit, SyncReset, SyncInfer
    <3> QED BY <3>4, <3>5
  <2> QED BY <2>1, <2>2
<1>8. ASSUME NEW t \in Servers, NEW x \in Workers, LoadWeights(<<t, x>>) PROVE At(s, w)'
  <2>1. UNCHANGED <<clientVars, thread, handler, pipe, reply, cache>> BY <1>8 DEF LoadWeights
  <2>2. CASE <<s, w>> # <<t, x>>
    <3>1. worker'[c] = worker[c] /\ current'[c] = current[c] /\ weights'[c] = weights[c]
      BY <1>8, <1>a, <1>b, <2>2 DEF LoadWeights
    <3> QED BY <1>g, <2>1, <3>1, SyncFrame
  <2>3. CASE s = t /\ w = x
    <3>1. worker[c] = "load" /\ worker'[c] = "idle" BY <1>8, <1>a, <1>b, <2>3 DEF LoadWeights
    <3>2. Live(c) /\ At(s, w) BY <1>f, <3>1 DEF Live
    <3>3. current[c] \in Commands BY <1>h, <3>1 DEF TypeInv
    <3>4. current[c].bucket \in Buckets BY <3>3 DEF Commands
    <3>5. /\ current[c].method = "init" => weights'[c] = weights[c]
          /\ current[c].method # "init" =>
               weights'[c] = [weights[c] EXCEPT ![current[c].bucket] = current[c].version]
      BY <1>8, <1>a, <1>h, <2>3 DEF LoadWeights
    <3>6. ASSUME NEW n \in 0..NumBuckets, Loaded(c, n)
          PROVE  \A b \in 1..n : weights'[c][b] = version
      <4> TAKE b \in 1..n
      <4>1. b \in Buckets BY ServerAssumption DEF Buckets
      <4>2. weights[c] \in [Buckets -> Versions] BY <1>a, <1>h
      <4>3. CASE current[c].method = "init" BY <3>5, <3>6, <4>3 DEF Loaded
      <4>4. CASE current[c].method = "update"
        <5>1. current[c].version = version BY <3>1, <3>6, <4>4 DEF Loaded
        <5>2. weights[c][b] = version \/ current[c].bucket = b BY <3>6 DEF Loaded
        <5>3. weights'[c] = [weights[c] EXCEPT ![current[c].bucket] = version]
          BY <3>5, <4>4, <5>1
        <5> QED BY <3>4, <4>1, <4>2, <5>2, <5>3
      <4> QED BY <3>1, <3>6, <4>3, <4>4 DEF Loaded
    <3>7. bucket \in 1..NumBuckets /\ bucket - 1 \in 0..NumBuckets /\ bucket \in 0..NumBuckets
          /\ 0 \in 0..NumBuckets /\ NumBuckets \in 0..NumBuckets
      BY ServerAssumption DEF TypeInv, TypeOK, Buckets
    <3>8. ASSUME NEW n \in 0..NumBuckets, Loaded(c, n) PROVE Loaded(c, n)'
      <4>1. \A b \in 1..n : weights'[c][b] = version' BY <2>1, <3>6, <3>8
      <4> QED BY <3>1, <4>1 DEF Loaded
    <3> HIDE DEF c
    <3>9. SyncInit(s, c)' BY <2>1, <3>1, <3>2, <3>7, <3>8 DEF SyncInit, Settled, c
    <3>10. SyncUpdate(s, c)'
      BY <2>1, <3>1, <3>2, <3>7, <3>8 DEF SyncUpdate, Settled, c
    <3>11. SyncReset(s, c)'
      <4> SUFFICES ASSUME op = "reset" PROVE SyncReset(s, c)'
        BY <2>1 DEF SyncReset
      <4>1. ~Synced(c) BY <3>1 DEF Synced
      <4> QED BY <2>1, <3>2, <3>7, <3>8, <4>1 DEF SyncReset, Settled, c
    <3>12. SyncInfer(s, c)'
      <4>1. ~Synced(c) BY <3>1 DEF Synced
      <4> QED BY <2>1, <3>2, <4>1 DEF SyncInfer, c
    <3> QED BY <3>9, <3>10, <3>11, <3>12 DEF c
  <2> QED BY <2>2, <2>3
<1>9. ASSUME NEW t \in Servers, NEW x \in Workers, ResetPrefixCache(<<t, x>>) PROVE At(s, w)'
  <2>0. "reset" \in Methods /\ Take(<<t, x>>, "reset") BY <1>9 DEF Methods, ResetPrefixCache
  <2>1. UNCHANGED <<clientVars, thread, handler, worker, current, weights>>
    BY <1>9 DEF ResetPrefixCache
  <2>2. CASE <<s, w>> # <<t, x>>
    <3>1. pipe'[c] = pipe[c] BY <2>0, <2>2, TakeFacts
    <3>2. cache'[c] = cache[c] /\ reply'[c] = reply[c]
      BY <1>9, <1>a, <1>b, <2>2 DEF ResetPrefixCache, Answer
    <3> QED BY <1>g, <2>1, <3>1, <3>2, SyncFrame
  <2>3. CASE s = t /\ w = x
    <3>0. Live(c) /\ At(s, w) BY <1>f, <1>g, <2>1 DEF Live
    <3>1. /\ worker[c] = "idle" /\ (op = "init" => thread[s] # "ok")
          /\ op = "update" => thread[s] \in {"wait", "error"}
          /\ op = "reset" => thread[s] \in {"bcast", "wait", "error"}
          /\ op = "reset" /\ thread[s] = "wait" =>
               ~(w <= Len(handler[s])) /\ reply[c] = <<>>
          /\ op # "infer"
      BY <1>6, <2>0, <2>3, <3>0
    <3>2. cache'[c] = {} BY <1>9, <1>a, <1>h, <2>3 DEF ResetPrefixCache
    <3>3. SyncReset(s, c)'
      <4> SUFFICES ASSUME op = "reset", thread[s] = "wait" PROVE Synced(c)' /\ cache'[c] = {}
        <5>1. reply'[c] # <<>>
          <6> DEFINE a == [id |-> Head(pipe[c]).id, seen |-> {version}]
          <6>1. reply'[c] = Append(reply[c], a) BY <1>9, <1>a, <1>h, <2>3 DEF ResetPrefixCache, Answer
          <6>2. a \in Replies
            <7>1. Head(pipe[c]) \in Commands
              BY <1>e, <2>0, <2>3, TailFacts DEF Take
            <7> QED BY <7>1 DEF Replies, Commands, TypeInv, TypeOK
          <6> HIDE DEF a
          <6>3. reply[c] \in Seq(Replies) BY <1>a, <1>h
          <6> QED BY <6>1, <6>2, <6>3, AppendFacts, SMTT(30)
        <5> QED BY <2>1, <3>1, <5>1 DEF SyncReset
      <4>1. Loaded(c, NumBuckets) BY <1>h, <3>0, <3>1 DEF SyncReset
      <4> QED BY <2>1, <3>1, <3>2, <4>1 DEF Loaded, Synced, Buckets
    <3>4. SyncInit(s, c)' /\ SyncUpdate(s, c)' /\ SyncInfer(s, c)'
      BY <2>1, <3>1 DEF SyncInit, SyncUpdate, SyncInfer
    <3> QED BY <3>3, <3>4
  <2> QED BY <2>2, <2>3
<1>10. ASSUME NEW t \in Servers, NEW x \in Workers, Infer(<<t, x>>) \/ InferRaises(<<t, x>>) PROVE At(s, w)'
  <2>0. "infer" \in Methods /\ Take(<<t, x>>, "infer") BY <1>10 DEF Methods, Infer, InferRaises
  <2>1. UNCHANGED <<clientVars, thread, handler, worker, current, weights>>
    BY <1>10 DEF Infer, InferRaises
  <2>2. CASE <<s, w>> # <<t, x>>
    <3>1. pipe'[c] = pipe[c] BY <2>0, <2>2, TakeFacts
    <3>2. cache'[c] = cache[c] /\ reply'[c] = reply[c]
      BY <1>10, <1>a, <1>b, <2>2 DEF Infer, InferRaises, Answer
    <3> QED BY <1>g, <2>1, <3>1, <3>2, SyncFrame
  <2>3. CASE s = t /\ w = x
    <3>0. Live(c) /\ At(s, w) BY <1>f, <1>g, <2>1 DEF Live
    <3>1. /\ worker[c] = "idle" /\ (op = "init" => thread[s] # "ok")
          /\ op = "update" => thread[s] \in {"wait", "error"}
          /\ op = "reset" => thread[s] \in {"bcast", "error"}
          /\ op = "infer" => thread[s] # "ok"
          /\ pipe'[c] = Tail(pipe[c]) /\ pipe[c] # <<>>
      BY <1>6, <2>0, <2>3, <3>0
    <3>2. cache'[c] = SampledFrom(c) \/ cache'[c] = cache[c]
      BY <1>10, <1>a, <1>h, <2>3 DEF Infer, InferRaises
    <3>3. SyncInfer(s, c)'
      <4> SUFFICES ASSUME op = "infer" PROVE SyncInfer(s, c)'
        BY <2>1 DEF SyncInfer
      <4>1. /\ Synced(c) /\ cache[c] \subseteq {version}
            /\ \A i \in 1..Len(pipe[c]) : pipe[c][i].method = "infer"
        BY <3>0 DEF SyncInfer
      <4>2. SampledFrom(c) \subseteq {version} BY <4>1 DEF Synced, SampledFrom
      <4>3. \A i \in 1..Len(pipe'[c]) : pipe'[c][i].method = "infer"
        <5>1. pipe[c] \in Seq(Commands) BY <1>a, <1>h
        <5>2. \A i \in 1..Len(pipe'[c]) : pipe'[c][i] = pipe[c][i + 1] /\ i + 1 \in 1..Len(pipe[c])
          BY <3>1, <5>1, TailFacts
        <5> QED BY <4>1, <5>2
      <4> QED BY <2>1, <3>1, <3>2, <4>1, <4>2, <4>3 DEF SyncInfer, Synced
    <3>4. SyncInit(s, c)' /\ SyncUpdate(s, c)' /\ SyncReset(s, c)'
      BY <2>1, <3>1 DEF SyncInit, SyncUpdate, SyncReset
    <3> QED BY <3>3, <3>4
  <2> QED BY <2>2, <2>3
<1>11. ASSUME NEW t \in Servers, NEW x \in Workers, CloseCommunicator(<<t, x>>) PROVE At(s, w)'
  <2>0. "close" \in Methods /\ Take(<<t, x>>, "close") BY <1>11 DEF Methods, CloseCommunicator
  <2>1. UNCHANGED <<clientVars, thread, handler, reply, worker, current, weights, cache>>
    BY <1>11 DEF CloseCommunicator
  <2>2. CASE <<s, w>> # <<t, x>>
    <3>1. pipe'[c] = pipe[c] BY <2>0, <2>2, TakeFacts
    <3> QED BY <1>g, <2>1, <3>1, SyncFrame
  <2>3. CASE s = t /\ w = x
    <3>0. Live(c) BY <1>g, <2>1 DEF Live
    <3>1. /\ op = "init" => thread[s] # "ok"
          /\ op = "update" => thread[s] \in {"wait", "error"}
          /\ op = "reset" => thread[s] \in {"bcast", "error"}
          /\ op # "infer"
      BY <1>6, <2>0, <2>3, <3>0
    <3> QED BY <2>1, <3>1 DEF SyncInit, SyncUpdate, SyncReset, SyncInfer
  <2> QED BY <2>2, <2>3
<1>12. ASSUME NEW t \in Servers, NEW x \in Workers, WorkerDies(<<t, x>>) PROVE At(s, w)'
  <2>1. <<s, w>> # <<t, x>> BY <1>12, <1>a, <1>b, <1>g DEF WorkerDies, Live
  <2>2. /\ UNCHANGED <<clientVars, thread, handler, reply, current, weights, cache>>
        /\ worker'[c] = worker[c] /\ pipe'[c] = pipe[c]
    BY <1>12, <1>a, <1>b, <2>1 DEF WorkerDies
  <2> QED BY <1>g, <2>2, SyncFrame
<1>13. ASSUME NEW o, NEW v, NEW b, Call(o, v, b)
       PROVE  /\ op' = o /\ version' = v /\ bucket' = b /\ thread'[s] = "post"
              /\ UNCHANGED <<handler, pipe, reply, workerVars>>
              /\ Live(c) /\ At(s, w)
  BY <1>13, <1>f, <1>g DEF Call, Live
<1>14. AllOK => thread[s] = "ok" BY DEF AllOK
<1>15. CASE NextRound
  <2>1. /\ op' = "update" /\ bucket' = 1 /\ thread'[s] = "post"
        /\ UNCHANGED <<handler, pipe, reply, workerVars>> /\ At(s, w)
    BY <1>13, <1>15 DEF NextRound
  <2>2. pipe[c] = <<>> /\ worker[c] \in {"idle", "load"}
        /\ (worker[c] = "load" => current[c].method = "init")
    BY <1>14, <1>15, <2>1 DEF NextRound, SyncInit, SyncInfer, Settled, Loaded, Synced
  <2>3. bucket' - 1 = 0 BY <2>1
  <2>4. Settled(c, 0)' BY <2>1, <2>2 DEF Settled, Loaded
  <2> QED BY <2>1, <2>3, <2>4 DEF SyncInit, SyncUpdate, SyncReset, SyncInfer
<1>16. CASE NextBucket
  <2>1. /\ op' = "update" /\ bucket' = bucket + 1 /\ version' = version /\ thread'[s] = "post"
        /\ UNCHANGED <<handler, pipe, reply, workerVars>> /\ At(s, w)
    BY <1>13, <1>16 DEF NextBucket
  <2>2. Settled(c, bucket) BY <1>14, <1>16, <2>1 DEF NextBucket, SyncUpdate
  <2>3. bucket' - 1 = bucket BY <2>1, ServerAssumption DEF TypeInv, TypeOK, Buckets
  <2>4. Settled(c, bucket - 1)' BY <2>1, <2>2, <2>3 DEF Settled, Loaded
  <2> QED BY <2>1, <2>4 DEF SyncInit, SyncUpdate, SyncReset, SyncInfer
<1>17. CASE CallReset
  <2>1. /\ op' = "reset" /\ version' = version /\ thread'[s] = "post"
        /\ UNCHANGED <<handler, pipe, reply, workerVars>> /\ At(s, w)
    BY <1>13, <1>17 DEF CallReset
  <2>2. Settled(c, NumBuckets) BY <1>14, <1>17, <2>1 DEF CallReset, SyncUpdate
  <2>3. Settled(c, NumBuckets)' BY <2>1, <2>2 DEF Settled, Loaded
  <2> QED BY <2>1, <2>3 DEF SyncInit, SyncUpdate, SyncReset, SyncInfer
<1>18. CASE CallInfer
  <2>1. /\ op' = "infer" /\ version' = version /\ thread'[s] = "post"
        /\ UNCHANGED <<handler, pipe, reply, workerVars>> /\ At(s, w)
    BY <1>13, <1>18 DEF CallInfer
  <2>2. Synced(c) /\ cache[c] = {} /\ pipe[c] = <<>> BY <1>14, <1>18, <2>1 DEF CallInfer, SyncReset
  <2>3. Len(pipe'[c]) = 0 BY <2>1, <2>2
  <2> QED BY <2>1, <2>2, <2>3 DEF SyncInit, SyncUpdate, SyncReset, SyncInfer, Synced
<1>19. CASE InferAgain
  <2>1. /\ op' = "infer" /\ version' = version /\ thread'[s] = "post" /\ op = "infer"
        /\ UNCHANGED <<handler, pipe, reply, workerVars>> /\ At(s, w)
    BY <1>13, <1>19 DEF InferAgain
  <2> QED BY <2>1 DEF SyncInit, SyncUpdate, SyncReset, SyncInfer, Synced
<1>20. CASE ClientExits
  <2>1. op' = "close" BY <1>13, <1>20 DEF ClientExits
  <2> QED BY <2>1 DEF SyncInit, SyncUpdate, SyncReset, SyncInfer
<1>21. CASE InitFails \/ ClientGone
  BY <1>21 DEF InitFails, ClientGone, SyncInit, SyncUpdate, SyncReset, SyncInfer
<1>22. CASE NextClient
  <2>1. op' = "init" /\ thread'[s] = "post" BY <1>13, <1>22 DEF NextClient
  <2> QED BY <2>1 DEF SyncInit, SyncUpdate, SyncReset, SyncInfer
<1>23. CASE UNCHANGED vars BY <1>23, <1>g, SyncFrame DEF vars
<1>24. ASSUME NEW t \in Servers, NEW x \in Workers,
              InitCommunicator(<<t, x>>) \/ UpdateParams(<<t, x>>)
       PROVE  At(s, w)'
  <2>1. PICK m \in {"init", "update"} :
           /\ Take(<<t, x>>, m) /\ UNCHANGED <<clientVars, thread, handler, reply>>
           /\ UNCHANGED workerVars \/ Join(<<t, x>>)
    BY <1>24 DEF InitCommunicator, UpdateParams
  <2>2. UNCHANGED <<weights, cache>> BY <2>1 DEF Join
  <2> QED BY <1>7, <2>1, <2>2
<1>25. ASSUME NEW k \in Cells PROVE \E t \in Servers, x \in Workers : k = <<t, x>> BY DEF Cells
<1> HIDE DEF At
<1>26. ServerStep \/ WorkerStep \/ Fault => At(s, w)'
  BY <1>1, <1>2, <1>3, <1>4, <1>5, <1>8, <1>9, <1>10, <1>11, <1>12, <1>24, <1>25
     DEF ServerStep, WorkerStep, Fault
<1>27. ClientStep => At(s, w)'
  BY <1>15, <1>16, <1>17, <1>18, <1>19, <1>20, <1>21, <1>22 DEF ClientStep
<1> QED BY <1>23, <1>26, <1>27 DEF Next

(* Only the answer to the client's current call is ever handed out.        *)
LEMMA ResultStep ==
    ASSUME TypeInv, ThreadInv, PipeInv, PairedReplies, UniformPolicy, [Next]_vars
    PROVE  PairedReplies' /\ UniformPolicy'
<1> USE DEF clientVars, workerVars, faultVars
<1>a. thread \in [Servers -> {"post", "bcast", "wait", "ok", "error"}]
      /\ results \in [Servers -> Seq(Replies)]
  BY DEF TypeInv, TypeOK
<1> SUFFICES ASSUME NEW s \in Servers, op' \in {"reset", "infer"}, thread'[s] = "ok"
             PROVE  /\ Len(results'[s]) = NumWorkers
                    /\ \A w \in Workers : /\ results'[s][w].id = id'
                                          /\ op' = "infer" => results'[s][w].seen = {version'}
  BY DEF PairedReplies, UniformPolicy
<1>1. ASSUME UNCHANGED clientVars, thread'[s] = thread[s], results'[s] = results[s]
      PROVE  /\ Len(results'[s]) = NumWorkers
             /\ \A w \in Workers : /\ results'[s][w].id = id'
                                   /\ op' = "infer" => results'[s][w].seen = {version'}
  BY <1>1 DEF PairedReplies, UniformPolicy
<1>2. ASSUME NEW t \in Servers, Handle(t) PROVE UNCHANGED clientVars /\ thread'[s] = thread[s] /\ results' = results
  BY <1>2, <1>a DEF Handle, AfterPost
<1>3. ASSUME NEW t \in Servers, Recv(t) PROVE UNCHANGED clientVars /\ thread'[s] = thread[s] /\ results' = results
  BY <1>3 DEF Recv
<1>4. ASSUME NEW t \in Servers, RecvEOF(t) PROVE UNCHANGED clientVars /\ thread'[s] = thread[s] /\ results' = results
  BY <1>4, <1>a DEF RecvEOF
<1>5. ASSUME NEW t \in Servers, Barrier(t) PROVE UNCHANGED clientVars /\ thread'[s] = thread[s] /\ results' = results
  BY <1>5, <1>a DEF Barrier, ThreadInv
<1>6. ASSUME NEW c \in Cells,
             \/ InitCommunicator(c) \/ UpdateParams(c) \/ LoadWeights(c) \/ ResetPrefixCache(c)
             \/ Infer(c) \/ InferRaises(c) \/ CloseCommunicator(c) \/ WorkerDies(c)
      PROVE  UNCHANGED clientVars /\ thread' = thread /\ results' = results
  BY <1>6 DEF InitCommunicator, UpdateParams, LoadWeights, ResetPrefixCache, Infer,
              InferRaises, CloseCommunicator, WorkerDies
<1>7. ASSUME NEW t \in Servers, Respond(t)
      PROVE  /\ Len(results'[s]) = NumWorkers
             /\ \A w \in Workers : /\ results'[s][w].id = id'
                                   /\ op' = "infer" => results'[s][w].seen = {version'}
  <2>1. UNCHANGED clientVars /\ thread[t] = "wait" /\ Len(handler[t]) = NumWorkers BY <1>7 DEF Respond
  <2>2. CASE s # t
    <3>1. thread'[s] = thread[s] /\ results'[s] = results[s] BY <1>7, <1>a, <2>2 DEF Respond
    <3> QED BY <1>1, <2>1, <3>1
  <2>3. CASE s = t
    <3>1. /\ results'[s] = handler[s]
          /\ op = "infer" => \A w \in Workers : handler[s][w].seen # {}
      BY <1>7, <1>a, <2>3 DEF Respond
    <3>2. \A w \in Workers : /\ handler[s][w].id = id
                             /\ op = "infer" => handler[s][w].seen \subseteq {version}
      <4>1. \A w \in Workers : w <= NumWorkers BY ServerAssumption DEF Workers
      <4> QED BY <2>1, <2>3, <4>1 DEF PipeInv, InCall
    <3> QED BY <2>1, <2>3, <3>1, <3>2
  <2> QED BY <2>2, <2>3
<1>8. ClientStep => FALSE
  BY DEF ClientStep, NextRound, NextBucket, CallReset, CallInfer, InferAgain, ClientExits,
         InitFails, ClientGone, NextClient, Call
<1>9. CASE UNCHANGED vars BY <1>1, <1>9 DEF vars
<1> QED BY <1>1, <1>2, <1>3, <1>4, <1>5, <1>6, <1>7, <1>8, <1>9
        DEF Next, ServerStep, WorkerStep, Fault

(* The inductive invariant holds in every reachable state.                 *)
LEMMA Invariance == Spec => []IInv
<1> DEFINE Rest == ThreadInv /\ PipeInv /\ SyncInv /\ PairedReplies /\ UniformPolicy
<1>1. Init => Rest
  <2> SUFFICES ASSUME Init PROVE Rest
    OBVIOUS
  <2>0. \A s \in Servers, w \in Workers : <<s, w>> \in Cells BY DEF Cells
  <2>1. ThreadInv BY DEF Init, ThreadInv
  <2>2. PipeInv
    <3> SUFFICES ASSUME NEW s \in Servers PROVE QuietServer(s) /\ InBroadcast(s) /\ InCall(s)
      BY DEF PipeInv
    <3>1. thread[s] = "post" BY DEF Init
    <3>2. \A w \in Workers : worker[<<s, w>>] = "idle" /\ reply[<<s, w>>] = <<>> /\ Len(pipe[<<s, w>>]) = 0
      BY <2>0 DEF Init
    <3> QED BY <3>1, <3>2 DEF QuietServer, InBroadcast, InCall
  <2>3. SyncInv BY DEF Init, SyncInv, SyncInit, SyncUpdate, SyncReset, SyncInfer
  <2>4. PairedReplies /\ UniformPolicy BY DEF Init, PairedReplies, UniformPolicy
  <2> QED BY <2>1, <2>2, <2>3, <2>4
<1>2. TypeInv /\ Rest /\ [Next]_vars => Rest'
  BY ThreadStep, PipeStep, SyncStep, ResultStep
<1>3. TypeInv /\ Rest => IInv BY DEF IInv
<1> HIDE DEF Rest
<1> QED BY <1>1, <1>2, <1>3, TypeInvariance, PTL DEF Spec

(* Whatever raises, dies or is called again, a call that succeeds is       *)
(* answered with the replies to that very call, one per connection.        *)
THEOREM RepliesArePaired == Spec => []PairedReplies
<1>1. IInv => PairedReplies BY DEF IInv
<1> QED BY <1>1, Invariance, PTL

(* Whatever dies or raises, every completion of an inference that succeeds *)
(* is sampled from the version synchronised last, on every worker of every *)
(* server, although no update is acknowledged.                             *)
THEOREM PolicyIsUniform == Spec => []UniformPolicy
<1>1. IInv => UniformPolicy BY DEF IInv
<1> QED BY <1>1, Invariance, PTL

(* When a client infers, every live worker has loaded every bucket of its  *)
(* version: the reset call has flushed the updates.                        *)
THEOREM UpdatesAreFlushed == Spec => []SyncReachesEveryWorker
<1>1. IInv => SyncReachesEveryWorker
  BY DEF IInv, SyncInv, SyncInfer, Synced, Live, SyncReachesEveryWorker, Cells
<1> QED BY <1>1, Invariance, PTL
=============================================================================
