----------------------------- MODULE MCMultiTurn -----------------------------
(***************************************************************************)
(* The schedulers of the runs on MultiTurn.                                *)
(***************************************************************************)
EXTENDS MultiTurnInvariant

(* Tokens returned by a scheduler that asks again, on the server.          *)
ServerAsksAgain ==
    {s \in Scheduler :
        s.mode = "server" /\ s.returns = "ids_and_mask" /\ s.next = {"user"}}

(* Text only, continued, the loss masked by loss_scale.                    *)
TextContinued ==
    {s \in Scheduler : s.returns = "nothing" /\ s.next = {"continue"}}

(* Tokens without mask by a scheduler that asks again, colocated.          *)
ColocateWithoutMask ==
    {s \in Scheduler :
        s.mode = "colocate" /\ s.returns = "ids" /\ s.next = {"user"}}
=============================================================================
