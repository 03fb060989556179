------------------------------ MODULE MultiTurn ------------------------------
(***************************************************************************)
(* The bookkeeping of a multi-turn rollout: what the trainer is told about *)
(* the tokens of a dialogue.  One dialogue, rolled out by                  *)
(*   - MultiTurnScheduler.run of swift/rollout/multi_turn.py ("server"), or*)
(*   - _colocate_multi_turn_infer of swift/rlhf_trainers/rollout_mixin.py  *)
(*     ("colocate"),                                                       *)
(* merged into the sample by _postprocess_rollout_outputs and turned into  *)
(* training tokens by replace_assistant_response_with_ids.                 *)
(*                                                                         *)
(* A token is <<turn, n>>: the n-th token generated in a turn, or one      *)
(* added by the scheduler's step if n = 0.  A log-probability is named by  *)
(* the token it belongs to.  The content of an assistant message is the    *)
(* sequence of the tokens its text consists of.                            *)
(*                                                                         *)
(* The scheduler is a plugin; it is modelled by what its step returns and  *)
(* by whether the next turn continues the assistant message or follows a   *)
(* new user message.                                                       *)
(***************************************************************************)
EXTENDS Masking, FiniteSets, SequencesExt

CONSTANTS
    Schedulers,  \* the schedulers considered
    MaxTurns,    \* max_turns, 0 for None
    TurnBound,   \* bound: turns of a dialogue
    MaxTokens    \* bound: tokens generated in a turn

Scheduler ==
    [mode : {"server", "colocate"},
     returns : {"nothing", "ids", "ids_and_mask"},
     next : SUBSET {"continue", "user"},
     logprobs : BOOLEAN]

ASSUME MultiTurnAssumption ==
    /\ Schedulers \subseteq Scheduler
    /\ MaxTurns \in Nat /\ TurnBound \in Nat \ {0} /\ MaxTokens \in Nat \ {0}

VARIABLES
    scheduler,
    pc,          \* "infer", "check", "merge", "encode", "done"
    current_turn,
    messages,    \* the assistant messages of the dialogue
    open,        \* the next turn continues the last of them
    token_ids,   \* the tokens of the turn
    is_continuation,
    response_token_ids, response_loss_mask, rollout_logprobs,
    sample       \* ids, mask and logprobs of the sample; once encoded, the tokens
                 \* of its messages and those with loss

turnVars  == <<current_turn, messages, open, token_ids, is_continuation>>
totalVars == <<response_token_ids, response_loss_mask, rollout_logprobs>>
vars == <<scheduler, pc, turnVars, totalVars, sample>>

Tokens == (1..TurnBound) \X (0..MaxTokens)
NoSample == [ids |-> <<>>, mask |-> <<>>, logprobs |-> <<>>, loss |-> <<>>]

(* _extract_logprobs_from_choice.                                          *)
Logprobs == IF scheduler.logprobs THEN token_ids ELSE <<>>

(* [1] * len(tokens)                                                       *)
Ones(tokens) == [i \in 1..Len(tokens) |-> 1]

(* The response of the dataset has been removed: no assistant message.     *)
Init ==
    /\ scheduler \in Schedulers
    /\ pc = "infer" /\ current_turn = 1
    /\ messages = <<>> /\ open = FALSE
    /\ token_ids = <<>> /\ is_continuation = FALSE
    /\ response_token_ids = <<>> /\ response_loss_mask = <<>> /\ rollout_logprobs = <<>>
    /\ sample = NoSample

-----------------------------------------------------------------------------
(* A list of turns: continue the last one, or append a new one.            *)
ExtendLast(turns, items) == [turns EXCEPT ![Len(turns)] = @ \o items]

(* The engine answers; the completion continues the last message or        *)
(* becomes one.                                                            *)
InferTurn ==
    /\ pc = "infer"
    /\ \E n \in 1..MaxTokens : token_ids' = [i \in 1..n |-> <<current_turn, i>>]
    /\ is_continuation' = open
    /\ messages' = IF open THEN ExtendLast(messages, token_ids')
                   ELSE Append(messages, token_ids')
    /\ pc' = "check"
    /\ UNCHANGED <<scheduler, current_turn, open, totalVars, sample>>

(* Tokens with loss: those of mask 1, or all of them without a mask.       *)
Trained(ids, mask) ==
    IF mask = <<>> THEN FlattenSeq(ids) ELSE Masked(FlattenSeq(ids), FlattenSeq(mask))

(* Clear log-probabilities that do not match the tokens with loss.         *)
ValidLogprobs(ids, mask, logprobs) ==
    LET ones == FlattenSeq(mask)
    IN  IF Len(FlattenSeq(logprobs)) =
              (IF mask # <<>> THEN Len(Masked(ones, ones)) ELSE Len(FlattenSeq(ids)))
        THEN logprobs ELSE <<>>

(* The three cases of a final turn: it continues a message whose tokens    *)
(* are known, no tokens are known yet, or it is a message of its own, for  *)
(* which only the colocated loop has a branch.                             *)
Started    == response_token_ids # <<>>
ExtendTurn == is_continuation /\ Started
AppendTurn == ~is_continuation /\ Started /\ scheduler.mode = "colocate"

(* Variant: a continued last turn is forgotten.                            *)
FinalIdsForgotten == IF Started THEN response_token_ids ELSE <<token_ids>>

(* response_token_ids, mask and log-probabilities with the final turn.     *)
FinalIds ==
    CASE ExtendTurn -> ExtendLast(response_token_ids, token_ids)
      [] ~Started   -> <<token_ids>>
      [] AppendTurn -> Append(response_token_ids, token_ids)
      [] OTHER      -> response_token_ids

FinalMask ==
    CASE ExtendTurn -> IF response_loss_mask = <<>> THEN <<>>
                       ELSE ExtendLast(response_loss_mask, Ones(token_ids))
      [] ~Started   -> <<Ones(token_ids)>>
      [] AppendTurn -> Append(response_loss_mask, Ones(token_ids))
      [] OTHER      -> response_loss_mask

(* Variant: the log-probabilities of a continued last turn are forgotten.  *)
FinalLogprobsForgotten == IF Started THEN rollout_logprobs ELSE <<Logprobs>>

FinalLogprobs ==
    IF Logprobs = <<>> THEN rollout_logprobs
    ELSE CASE ExtendTurn -> IF rollout_logprobs = <<>> THEN <<>>
                            ELSE ExtendLast(rollout_logprobs, Logprobs)
           [] ~Started   -> <<Logprobs>>
           [] AppendTurn -> Append(rollout_logprobs, Logprobs)
           [] OTHER      -> rollout_logprobs

(* should_stop, by check_finished or max_turns: collect the final turn.    *)
Stop ==
    /\ pc = "check"
    /\ response_token_ids' = FinalIds
    /\ response_loss_mask' = FinalMask
    /\ rollout_logprobs' = ValidLogprobs(FinalIds, FinalMask, FinalLogprobs)
    /\ pc' = "merge"
    /\ UNCHANGED <<scheduler, turnVars, sample>>

(* The scheduler's check_finished is left open; max_turns is checked.      *)
MayContinue ==
    (MaxTurns # 0 => current_turn < MaxTurns) /\ current_turn < TurnBound

(* Variant: the tokens added by the scheduler are trained.                 *)
StepMaskOnes(kept, added) == Ones(kept) \o Ones(added)

(* What a scheduler with a mask returns for the tokens of its turn.        *)
StepMask(kept, added) == Ones(kept) \o [i \in 1..Len(added) |-> 0]

(* The scheduler's step: keep a prefix of the turn (and return the         *)
(* log-probabilities of that prefix), add tokens of its own to the         *)
(* message; then continue it or ask again.                                 *)
Step ==
    /\ pc = "check"
    /\ MayContinue
    /\ \E next \in scheduler.next, keep \in 1..Len(token_ids), more \in 0..1 :
          LET kept  == SubSeq(token_ids, 1, keep)
              added == [i \in 1..more |-> <<current_turn, 0>>]
              turn  == kept \o added
              cont(turns) == is_continuation /\ turns # <<>>
              track(turns, items) == IF cont(turns) THEN ExtendLast(turns, items)
                                     ELSE Append(turns, items)
              text  == SubSeq(messages[Len(messages)], 1,
                              Len(messages[Len(messages)]) - Len(token_ids)) \o turn
          IN  /\ messages' = [messages EXCEPT ![Len(messages)] = text]
              /\ open' = (next = "continue")
              /\ response_token_ids' = IF scheduler.returns = "nothing"
                                       THEN response_token_ids
                                       ELSE track(response_token_ids, turn)
              /\ response_loss_mask' = IF scheduler.returns # "ids_and_mask"
                                       THEN response_loss_mask
                                       ELSE track(response_loss_mask, StepMask(kept, added))
              /\ rollout_logprobs' = IF Logprobs = <<>> THEN rollout_logprobs
                                     ELSE track(rollout_logprobs, kept)
    /\ current_turn' = current_turn + 1
    /\ pc' = "infer"
    /\ UNCHANGED <<scheduler, token_ids, is_continuation, sample>>

-----------------------------------------------------------------------------
(* merge_output_input_data: ids, mask and log-probabilities, the ones of   *)
(* the final response if there are none for the dialogue.                  *)
Merge ==
    /\ pc = "merge"
    /\ sample' = [ids |-> response_token_ids,
                  mask |-> response_loss_mask, loss |-> <<>>,
                  logprobs |-> IF rollout_logprobs # <<>> THEN FlattenSeq(rollout_logprobs)
                               ELSE Logprobs]
    /\ pc' = "encode"
    /\ UNCHANGED <<scheduler, turnVars, totalVars>>

(* The assertion of replace_assistant_response_with_ids.                   *)
Aligned(ids, mask) ==
    mask # <<>> =>
        /\ Len(ids) = Len(mask)
        /\ \A i \in 1..Len(ids) : Len(ids[i]) = Len(mask[i])

(* The assistant messages are replaced from the last one on.               *)
ReplaceAssistantResponse(text, ids) ==
    [i \in 1..Len(text) |->
        LET back == Len(text) - i
        IN  IF back < Len(ids) THEN ids[Len(ids) - back] ELSE text[i]]

(* The trainer encodes the sample, and keeps the log-probabilities if      *)
(* there are as many as tokens with loss.                                  *)
Encode ==
    LET ids  == ReplaceAssistantResponse(messages, sample.ids)
        kept == SubSeq(messages, 1, Len(messages) - Len(sample.ids))
        loss == (IF sample.mask = <<>> THEN FlattenSeq(ids)
                 ELSE FlattenSeq(kept) \o Trained(sample.ids, sample.mask))
    IN  /\ pc = "encode"
        /\ Aligned(sample.ids, sample.mask)
        /\ sample' = [sample EXCEPT !.ids = ids, !.loss = loss,
                        !.logprobs = IF Len(@) = Len(loss) THEN @ ELSE <<>>]
        /\ pc' = "done"
        /\ UNCHANGED <<scheduler, turnVars, totalVars>>

-----------------------------------------------------------------------------
Next == InferTurn \/ Stop \/ Step \/ Merge \/ Encode

Spec == Init /\ [][Next]_vars

-----------------------------------------------------------------------------
(* Properties.                                                             *)

TokenLists == Seq(Seq(Tokens))

(* Every variable keeps its type; max_turns is respected.                  *)
TypeOK ==
    /\ scheduler \in Schedulers
    /\ pc \in {"infer", "check", "merge", "encode", "done"}
    /\ current_turn \in 1..TurnBound
    /\ MaxTurns # 0 => current_turn <= MaxTurns
    /\ messages \in TokenLists /\ open \in BOOLEAN
    /\ token_ids \in Seq(Tokens) /\ is_continuation \in BOOLEAN
    /\ response_token_ids \in TokenLists
    /\ response_loss_mask \in Seq(Seq({0, 1}))
    /\ rollout_logprobs \in TokenLists
    /\ sample \in [ids : TokenLists, mask : Seq(Seq({0, 1})), logprobs : Seq(Tokens),
                   loss : Seq(Tokens)]

(* What is trained is the dialogue that took place: the token ids put into *)
(* a message are the ids of that very message, all turns of it.            *)
TrainedOnOwnTokens == pc = "done" => sample.ids = messages

(* The tokens that the model generated, by the mask that tells them.       *)
ByModel(tokens) == [i \in 1..Len(tokens) |-> IF tokens[i][2] # 0 THEN 1 ELSE 0]
Generated(tokens) == Masked(tokens, ByModel(tokens))

(* Ids and mask, collected in separate branches, pass the assertion that   *)
(* they have the same shape, so that the dialogue can be encoded at all;   *)
(* and in the tokens a scheduler has returned with a mask, the loss is on  *)
(* what the model generated and on nothing that the scheduler added.       *)
LossOnGenerated ==
    /\ pc = "encode" => Aligned(sample.ids, sample.mask)
    /\ (pc = "done" /\ scheduler.returns = "ids_and_mask") =>
          sample.loss = Generated(FlattenSeq(messages))

(* Log-probabilities that go with a sample are those of the tokens with    *)
(* loss, in their order: truncated turns, added tokens and missing turns   *)
(* never shift them.  With a mask none is missing.                         *)
LogprobsFollowLoss ==
    (pc = "done" /\ scheduler.logprobs) =>
        \/ sample.logprobs = sample.loss
        \/ sample.logprobs = <<>> /\ scheduler.returns # "ids_and_mask"
=============================================================================
