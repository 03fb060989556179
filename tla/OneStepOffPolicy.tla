-------------------------- MODULE OneStepOffPolicy --------------------------
(***************************************************************************)
(* What async_generate promises the training loop, without threads, queues *)
(* or evaluation: a delay line with one slot.  Each generation hands over  *)
(* the rollout in the slot and leaves a new request there, sampled by the  *)
(* policy of that moment, which is never older than the one before.        *)
(***************************************************************************)
EXTENDS Integers

CONSTANT Policies   \* the policy versions, a set of naturals

VARIABLES
    slot,    \* the outstanding request
    out      \* the rollout handed over last

Requests == [no : Nat, policy : Policies]

Empty == [no |-> 0, policy |-> -1]

Init == slot = Empty /\ out = Empty

(* The prefetch at the beginning of training.                              *)
Prime(v) ==
    /\ slot = Empty
    /\ slot' = [no |-> 1, policy |-> v]
    /\ UNCHANGED out

(* One generation.                                                         *)
Exchange(v) ==
    /\ slot # Empty
    /\ v >= slot.policy
    /\ out' = slot
    /\ slot' = [no |-> slot.no + 1, policy |-> v]

Next == \E v \in Policies : Prime(v) \/ Exchange(v)

Spec == Init /\ [][Next]_<<slot, out>>
=============================================================================
