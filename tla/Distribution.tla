---------------------------- MODULE Distribution ----------------------------
(***************************************************************************)
(* The index arithmetic with which the trainers deal a list to processes,  *)
(* servers, workers and steps and put it together again.  Everything here  *)
(* is a pure operator; a list is a sequence, and indices that the Python   *)
(* code counts from 0 are counted from 0 here as well.                     *)
(***************************************************************************)
EXTENDS Integers, Sequences, FiniteSets, FiniteSetsExt, SequencesExt

Lesser(a, b) == IF a <= b THEN a ELSE b

\* list[start:end]: an end past the list is the end of the list.
Slice(list, start, end) == SubSeq(list, start + 1, Lesser(end, Len(list)))

CeilDiv(a, b) == (a + b - 1) \div b

\* gather_object / all_gather_object: the lists of all processes, by rank.
Gather(local) == FlattenSeq(local)

\* sum(lengths[:p]): where the list of process p starts in the gathered one.
StartOf(local, p) == Len(Gather(SubSeq(local, 1, p)))

\* The part of a global list that process p keeps: contiguous, the first
\* Len % procs processes take one more.
EvenStart(total, procs, p) ==
    LET base == total \div procs
        rem  == total % procs
    IN  IF p < rem THEN p * (base + 1) ELSE rem * (base + 1) + (p - rem) * base

EvenSize(total, procs, p) ==
    (total \div procs) + (IF p < total % procs THEN 1 ELSE 0)

get_even_process_data(list, procs, p) ==
    Slice(list, EvenStart(Len(list), procs, p),
          EvenStart(Len(list), procs, p) + EvenSize(Len(list), procs, p))

\* chunk_list(lst, n), with which the rollout server feeds its workers.
chunk_list(lst, n) ==
    LET k == Len(lst) \div n
        r == Len(lst) % n
    IN  [i \in 1 .. n |-> Slice(lst, (i - 1) * k + Lesser(i - 1, r),
                                     i * k + Lesser(i, r))]

\* _split_data_by_steps(inputs, steps): a running start index, so it starts
\* where the chunks before it end.
split_data_by_steps(list, steps) ==
    LET size(i) == (Len(list) \div steps) + (IF i < Len(list) % steps THEN 1 ELSE 0)
        start[i \in 0 .. steps] == IF i = 0 THEN 0 ELSE start[i - 1] + size(i - 1)
    IN  IF steps <= 1 THEN <<list>>
        ELSE [i \in 1 .. steps |-> Slice(list, start[i - 1], start[i])]

\* VLLMClient.infer cuts the requests into pieces of the rounded-up size and
\* pads with empty pieces: a server may get none.
client_chunks(requests, servers) ==
    LET size == CeilDiv(Len(requests), servers)
    IN  [i \in 1 .. servers |-> Slice(requests, (i - 1) * size, i * size)]

\* What a worker returns for a chunk: answers[request] are the outputs of one
\* request, in the order of the requests.
WorkerOutputs(chunk, answers) ==
    FlattenSeq([i \in 1 .. Len(chunk) |-> answers[chunk[i]]])

\* Variant: the answers to placeholders are not dropped.
server_infer_placeholders(requests, workers, placeholder, answers) ==
    LET chunks == chunk_list(requests, workers)
    IN  FlattenSeq([i \in 1 .. workers |->
                      WorkerOutputs(IF chunks[i] = <<>> THEN <<placeholder>> ELSE chunks[i],
                                    answers)])

\* One rollout server: every worker is called, one that got no request with a
\* placeholder whose answer is dropped.
server_infer(requests, workers, placeholder, answers) ==
    LET chunks  == chunk_list(requests, workers)
        sent    == [i \in 1 .. workers |->
                      IF chunks[i] = <<>> THEN <<placeholder>> ELSE chunks[i]]
        outputs == [i \in 1 .. workers |-> WorkerOutputs(sent[i], answers)]
    IN  FlattenSeq([i \in 1 .. workers |->
                      IF chunks[i] = <<>> THEN <<>> ELSE outputs[i]])

\* The answers of the servers, in the order of the servers.
client_infer(requests, servers, workers, placeholder, answers) ==
    LET chunks == client_chunks(requests, servers)
    IN  FlattenSeq([i \in 1 .. servers |->
                      server_infer(chunks[i], workers, placeholder, answers)])

\* Variant: a process counts its own chunks.
chunk_passes_local(batch, sizes, chunk_size) ==
    LET max_chunks == CeilDiv(batch, chunk_size)
        new_size   == CeilDiv(batch, max_chunks)
    IN  [i \in 1 .. max_chunks |->
           LET start == (i - 1) * new_size
           IN  [start |-> start, end |-> Lesser(start + new_size, batch),
                is_dummy |-> ~(start < batch)]]

\* The passes of _compute_loss_chunked on a process whose mini-batch has
\* `batch` rows, when the mini-batches of all processes have `sizes` rows: as
\* many passes as the largest needs, the empty ones dummies.
chunk_passes(batch, sizes, chunk_size) ==
    LET max_chunks == Max({CeilDiv(b, chunk_size) : b \in sizes})
        new_size   == CeilDiv(batch, max_chunks)
    IN  [i \in 1 .. max_chunks |->
           LET start == (i - 1) * new_size
           IN  [start |-> start, end |-> Lesser(start + new_size, batch),
                is_dummy |-> ~(start < batch)]]

\* list[rank::procs]: the share of a process that deals the list like cards.
Stride(list, rank, procs) ==
    [k \in 1 .. (IF rank < Len(list) THEN CeilDiv(Len(list) - rank, procs) ELSE 0) |->
        list[rank + (k - 1) * procs + 1]]

\* The list in batches of a size, the incomplete last one dropped or kept.
Batched(list, size, drop_last) ==
    [k \in 1 .. (IF drop_last THEN Len(list) \div size ELSE CeilDiv(Len(list), size)) |->
        Slice(list, (k - 1) * size, k * size)]

\* _get_last_indices(request_ids): the last position of each request id.
get_last_indices(ids) ==
    {i \in 1 .. Len(ids) : \A j \in i + 1 .. Len(ids) : ids[j] # ids[i]}
=============================================================================
