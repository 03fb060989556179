-------------------------- MODULE MultiTurnInvariant --------------------------
(***************************************************************************)
(* The schedulers for which a dialogue reaches the trainer as it took      *)
(* place, and the invariant that shows it: how the tokens, masks and       *)
(* log-probabilities collected turn by turn relate to the messages.        *)
(***************************************************************************)
EXTENDS MultiTurn

(* Tokens and mask returned: ToolCallScheduler and MathTipsScheduler       *)
(* continue the message, in both modes; colocated, a scheduler may also    *)
(* ask again.                                                              *)
WithTokens ==
    {s \in Scheduler :
        /\ s.returns = "ids_and_mask" /\ s.next # {}
        /\ s.mode = "server" => s.next = {"continue"}}

(* Tokens without mask, continued.                                         *)
WithoutMask ==
    {s \in Scheduler : s.returns = "ids" /\ s.next = {"continue"}}

(* Text only, a new user message for every turn.                           *)
TextOnly ==
    {s \in Scheduler : s.returns = "nothing" /\ s.next = {"user"}}

(* The schedulers whose dialogues are passed on correctly.                 *)
Supported == WithTokens \cup WithoutMask \cup TextOnly

-----------------------------------------------------------------------------
(* Turn by turn: the mask and the log-probabilities of lists of tokens.    *)
Masks(turns) == [i \in 1..Len(turns) |-> ByModel(turns[i])]
GeneratedOf(turns) == [i \in 1..Len(turns) |-> Generated(turns[i])]

(* A turn as it follows, or continues, the turns before it.                *)
WithTurn(turns) == IF is_continuation THEN ExtendLast(turns, token_ids)
                   ELSE Append(turns, token_ids)

(* There is a message to continue; a turn consists of what was generated.  *)
TurnInv ==
    /\ open => messages # <<>>
    /\ pc # "infer" => /\ messages # <<>> /\ token_ids # <<>>
                       /\ \A i \in 1..Len(token_ids) : token_ids[i][2] # 0

(* A scheduler that returns tokens: they are the messages of the turns     *)
(* before this one, and on the server or without a mask there is but one.  *)
ReturningInv ==
    scheduler.returns # "nothing" =>
        /\ pc = "infer" => messages = response_token_ids
        /\ pc = "check" => /\ messages = WithTurn(response_token_ids)
                           /\ is_continuation => response_token_ids # <<>>
        /\ (pc = "infer" /\ scheduler.next = {"continue"} /\ ~open) =>
              response_token_ids = <<>>
        /\ (pc = "check" /\ scheduler.next = {"continue"} /\ ~is_continuation) =>
              response_token_ids = <<>>
        /\ pc \in {"infer", "check"} =>
              \A i \in 1..Len(response_token_ids) : response_token_ids[i] # <<>>

(* Masks and log-probabilities are collected next to the tokens.           *)
CollectingInv ==
    pc \in {"infer", "check"} =>
        /\ response_loss_mask = IF scheduler.returns = "ids_and_mask"
                                THEN Masks(response_token_ids) ELSE <<>>
        /\ (scheduler.returns # "nothing" /\ scheduler.logprobs) =>
              rollout_logprobs = GeneratedOf(response_token_ids)

(* Text only: a message per turn, no tokens before the last one.           *)
TextInv ==
    scheduler.returns = "nothing" =>
        /\ ~open /\ ~is_continuation
        /\ pc \in {"infer", "check"} => response_token_ids = <<>>
        /\ pc # "infer" => messages[Len(messages)] = token_ids

(* The tokens of the dialogue and their mask, once the last turn is there. *)
CollectedInv ==
    pc \in {"merge", "encode"} =>
        /\ response_token_ids = IF scheduler.returns = "nothing" THEN <<token_ids>> ELSE messages
        /\ response_token_ids # <<>>
        /\ \/ response_loss_mask = Masks(response_token_ids)
           \/ response_loss_mask = <<>> /\ scheduler.returns = "ids"
        /\ pc = "encode" => sample.ids = response_token_ids /\ sample.mask = response_loss_mask

(* The log-probabilities given to the sample: with a mask those of the     *)
(* tokens with loss; without one they are, or their number gives away that *)
(* they are not, those of all tokens.                                      *)
GivenLogprobs ==
    IF pc = "encode" THEN sample.logprobs
    ELSE IF rollout_logprobs # <<>> THEN FlattenSeq(rollout_logprobs) ELSE Logprobs

LogprobsInv ==
    (pc \in {"merge", "encode"} /\ scheduler.logprobs) =>
        IF response_loss_mask = <<>>
        THEN \/ GivenLogprobs = FlattenSeq(response_token_ids)
             \/ Len(GivenLogprobs) # Len(FlattenSeq(response_token_ids))
        ELSE GivenLogprobs = Trained(response_token_ids, response_loss_mask)

DialogueInv == ReturningInv /\ CollectingInv /\ TextInv /\ CollectedInv /\ LogprobsInv
=============================================================================
