----------------------- MODULE AsyncRolloutRefinement -----------------------
(***************************************************************************)
(* AsyncRollout implements OneStepOffPolicy: seen from the training loop,  *)
(* the executor, the two queues, the weight updates and the evaluations    *)
(* amount to a one-slot delay line.                                        *)
(***************************************************************************)
EXTENDS AsyncRollout

(* The oldest train rollout that has been requested and not consumed: in   *)
(* the train queue or, before it lands there, at the head of the executor. *)
Oldest ==
    IF queue["train"] # <<>> THEN Head(queue["train"])
    ELSE IF tasks # <<>> /\ Head(tasks).dest = "train" THEN Head(tasks)
    ELSE NoRollout

(* The number of a request; a rollout of an eval batch is none of training.*)
AsRequest(r) ==
    IF r = NoRollout THEN [no |-> 0, policy |-> -1]
    ELSE [no |-> IF r.batch = "train" THEN r.no ELSE 0, policy |-> r.policy]

DelayLine == INSTANCE OneStepOffPolicy
    WITH Policies <- 0..MaxSteps,
         slot     <- AsRequest(Oldest),
         out      <- AsRequest(delivered["train"])

(* The training loop sees a one-slot delay line: each generation receives  *)
(* the rollout of the previous one (never an eval batch, none twice, none  *)
(* skipped) and leaves its own, with a policy that is never older.         *)
RefinesOneStepOffPolicy == DelayLine!Spec
=============================================================================
