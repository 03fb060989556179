------------------------- MODULE TrainingDataInvariant -------------------------
(***************************************************************************)
(* The inductive invariant of TrainingData.  What an iterator still holds  *)
(* is always the end of a whole pass of its loader, the same number of     *)
(* batches into it on every process; unless a resume did not go on, it is  *)
(* the pass, and the place in it, that the number of steps stands for.     *)
(***************************************************************************)
EXTENDS TrainingData

Rows == 0 .. args.samples - 1

Types ==
    /\ args \in Args
    /\ order \in [Seeds -> Seq(0 .. PermutedRows(args) - 1)]
    /\ pc \in {"epoch", "train", "crashed", "hung", "done"}
    /\ max_steps \in 0 .. TotalSteps(args)
    /\ Transformers => max_steps = TotalSteps(args)
    /\ step \in 0 .. max_steps
    /\ saved \in 0 .. step
    /\ epoch \in Nat /\ passes \in Nat
    /\ left \in [Procs -> Seq(Seq(Rows))]
    /\ consumed \in [Procs -> Nat]
    /\ resumed \in Seq(Nat)
    /\ seen \in Seq([Procs -> Seq(Rows)]) /\ Len(seen) = step

(* Every epoch has a permutation, in order the same one.                   *)
OrderInv ==
    /\ \A e \in Seeds : Len(order[e]) = PermutedRows(args)
    /\ \A e \in Seeds : \A i, j \in 1 .. Len(order[e]) : order[e][i] = order[e][j] => i = j
    /\ ~args.shuffle => \A e \in Seeds : order[e] = order[0]

(* The samples a megatron process has consumed are those of the steps.     *)
ConsumedInv == ~Transformers => \A p \in Procs : consumed[p] = step * GlobalBatch

CrashInv == pc = "crashed" => saved > 0

(* Only a stream that was resumed past the end of its pass hangs.          *)
HungInv ==
    pc = "hung" => \E at \in ToSet(resumed) : args.loader = "DataLoaderDispatcher" /\ KnownGap(at)

(* An epoch is entered in the middle of a pass after a resume only.        *)
EpochInv ==
    (pc = "epoch" /\ step < max_steps) =>
        IF Transformers
        THEN (PassLength > 0 /\ step % PassLength # 0) =>
                /\ resumed # <<>> /\ step = Last(resumed)
                /\ Streaming => epoch = 0
        ELSE resumed = <<>> => step = 0

(* A loader with a length makes the epochs of the loop passes of its own.  *)
PassInv ==
    (pc \in {"epoch", "train"} /\ step < max_steps /\ Transformers /\ ~Streaming) =>
        epoch = step \div len_dataloader

(* Training goes on as if it had not been interrupted.                     *)
Uninterrupted == ~UnevenPass /\ \A at \in ToSet(resumed) : ~KnownGap(at)

(* Then the iterators are in the place the number of steps stands for; a   *)
(* stream of transformers is there after every resume, or hangs.           *)
GoesOn == Uninterrupted \/ (Transformers /\ Streaming)

(* All iterators hold what follows the first k batches of pass s.          *)
LeftOf(s, k) ==
    \A p \in Procs : left[p] = SubSeq(WholePass(p, s), k + 1, Len(WholePass(p, s)))

(* That is the place step stands for.                                      *)
InPlace(s, k) ==
    PassLength > 0 =>
        IF k = PassLength THEN step % PassLength = 0
        ELSE /\ k = step % PassLength
             /\ \A p \in Procs : WholePass(p, s) = WholePass(p, step \div PassLength)

LeftInv ==
    (pc = "train" /\ step < max_steps /\ ~UnevenPass) =>
        \E s \in Seeds, k \in 0 .. PassLength :
            /\ LeftOf(s, k)
            /\ Transformers /\ ~Streaming => k < PassLength /\ k = step % PassLength
            /\ GoesOn => InPlace(s, k)

IInv ==
    /\ Types /\ OrderInv /\ ConsumedInv /\ CrashInv /\ HungInv
    /\ EpochInv /\ PassInv /\ LeftInv /\ ResumeGoesOn
=============================================================================
