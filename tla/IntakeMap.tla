----------------------------- MODULE IntakeMap -----------------------------
(***************************************************************************)
(* One MAP step of intake, as operators: what of an artifact fits into the *)
(* prompt, whether the deployment lets the call through, what the text     *)
(* client makes of the replies it gets, what an answer is worth, and what  *)
(* is recorded of the step (intake_map.py, context_budget.py, text_llm.py, *)
(* model_gateway.py).                                                      *)
(*                                                                         *)
(* Text is abstracted to what the checks tell apart: a segment is its      *)
(* index and its size in tokens, a chunk id the index of its segment.      *)
(***************************************************************************)
EXTENDS Integers, FiniteSets, ModelRouting, Sequences

-----------------------------------------------------------------------------
(* The fact bundle                                                         *)

(* pack_ranked_entries: in order, each segment that fits into what is left *)
Left(sizes, room) ==
    LET left[i \in 0..Len(sizes)] ==
          IF i = 0 THEN room
          ELSE IF sizes[i] <= left[i - 1] THEN left[i - 1] - sizes[i] ELSE left[i - 1]
    IN left

Included(sizes, room) == {i \in DOMAIN sizes : sizes[i] <= Left(sizes, room)[i - 1]}

(* build_map_fact_bundle: fixed, the tokens of the artifact's description; *)
(* reserve, MINIMUM_BUNDLE_RESERVE_TOKENS                                  *)
Fits(budget, fixed, reserve) == budget >= fixed + reserve

Bundle(sizes, budget, fixed) ==
    LET shown == Included(sizes, budget - fixed)
    IN [shown |-> shown, omitted |-> DOMAIN sizes \ shown, complete |-> shown = DOMAIN sizes]

-----------------------------------------------------------------------------
(* Before the call                                                         *)

Settings == [configured : BOOLEAN, provider : {"openai_compatible", "aws_bedrock"},
             auth : {"api_key", "none"}, key : BOOLEAN, library : BOOLEAN]

(* build_text_model_client: the key is read for an api_key endpoint only,  *)
(* the library of the other provider only with the first call.             *)
ClientBuilt(s) ==
    s.configured /\ (s.provider = "openai_compatible" /\ s.auth = "api_key" => s.key)

Unlabelled == [origin |-> "none", sensitivity |-> "none"]
Labels == [origin : Origins, sensitivity : Sensitivities] \cup {Unlabelled}

(* build_map_model_call_request                                            *)
RequestKind(c, labels) ==
    IF labels # Unlabelled THEN "labelled"
    ELSE IF c.profile = "dev_local" /\ c.endpoint = "mock" THEN "pre_attestation"
    ELSE "none"

(* invoke_model_call, up to its callback                                   *)
Routed(c, labels) ==
    \/ RequestKind(c, labels) = "pre_attestation"
    \/ /\ RequestKind(c, labels) = "labelled"
       /\ Decision(labels.origin, labels.sensitivity, c.endpoint, c.approved, c.cui)
            = "allowed"

(* _run_intake_map_inner: why an artifact gets no call, "none" if it does  *)
SkipOutcome(fits, c, s, labels) ==
    IF ~fits THEN "rejected_context_limit"
    ELSE IF RequestKind(c, labels) = "none" THEN "skipped_pre_attestation_policy"
    ELSE IF ~ClientBuilt(s) THEN "skipped_model_not_configured"
    ELSE IF ~Routed(c, labels) THEN "rejected_routing"
    ELSE "none"

SkipOutcomes ==
    {SkipOutcome(fits, c, s, labels) :
       fits \in BOOLEAN, c \in Configs, s \in Settings, labels \in Labels} \ {"none"}

-----------------------------------------------------------------------------
(* The call                                                                *)

(* A reply of the endpoint: 429, 5xx or a transport error, another error   *)
(* status, a body that is not JSON, one without a usable text, or a text.  *)
Replies == {"retryable", "denied", "not_json", "no_text", "text"}

(* OpenAICompatibleTextClient.complete: the reply that ends the attempts.  *)
LastReply(replies) ==
    replies[CHOOSE i \in DOMAIN replies :
              /\ i = Len(replies) \/ replies[i] # "retryable"
              /\ \A j \in 1..(i - 1) : replies[j] = "retryable"]

(* A body that is not JSON raises an error nobody catches.                 *)
Completed(replies) ==
    CASE LastReply(replies) = "text" -> "text"
      [] LastReply(replies) = "not_json" -> "uncaught"
      [] OTHER -> "call_failed"

(* A cited segment and chunks, of a bundle that showed some segments       *)
Facts(segments) == [prohibited : BOOLEAN, own : BOOLEAN, segment : segments,
                    chunks : SUBSET segments]

(* The checks of validate_and_parse_map_response on one fact               *)
Bound(fact, shown) ==
    /\ ~fact.prohibited /\ fact.own
    /\ fact.segment \in shown /\ fact.segment \in fact.chunks /\ fact.chunks \subseteq shown

(* validate_and_parse_map_response; wellformed: the text is JSON and has   *)
(* the shape of _response_validator                                        *)
Judged(wellformed, facts, shown) ==
    IF ~wellformed THEN "repairable"
    ELSE IF \E f \in facts : ~Bound(f, shown) THEN "unbound"
    ELSE "accepted"

(* What a call ends with, as _invoke_map_model and the validation see it;  *)
(* "no_library" is a client that cannot be used after all.  One fact and a *)
(* bundle that shows one of two segments tell all the checks apart.        *)
Answers ==
    ({Completed(replies) : replies \in [1..2 -> Replies]} \ {"text"})
    \cup {Judged(wellformed, facts, {1}) :
            wellformed \in BOOLEAN, facts \in {{f} : f \in Facts({1, 2})}}
    \cup {"no_library"}

(* _run_single_map_step: what an answer to call 1 or 2 means, "repair" for *)
(* another call                                                            *)
Outcome(number, answer) ==
    CASE answer = "accepted" -> IF number = 1 THEN "accepted" ELSE "repair_succeeded"
      [] answer = "repairable" -> IF number = 1 THEN "repair" ELSE "repair_exhausted"
      [] answer = "unbound" -> "rejected_policy"
      [] answer = "no_library" /\ number = 1 -> "skipped_model_not_configured"
      [] OTHER -> "model_call_failed"

-----------------------------------------------------------------------------
(* What is recorded                                                        *)

(* resolve_map_terminal_step_status                                        *)
TerminalStatus(outcome) ==
    CASE outcome \in {"rejected_routing", "skipped_pre_attestation_policy"} -> "policy_blocked"
      [] outcome \in {"accepted", "repair_succeeded"} -> "completed"
      [] OTHER -> "failed"

(* The calls a failed model call is recorded with: the result of a first   *)
(* one is a _skipped_step_result.                                          *)
FailedCalls(number) == IF number = 1 THEN 0 ELSE number

RecordedCalls(number, answer) ==
    IF answer \in {"call_failed", "no_library"} THEN FailedCalls(number) ELSE number

(***************************************************************************)
(* The packing against what it promises, for every small artifact: what is *)
(* shown fits, nothing that is left out would fit beside it, and the       *)
(* bundle says it is complete exactly when all of the artifact is shown.   *)
(* Routing: data without labels reaches the mock endpoint of a development *)
(* deployment only, and no retry turns a denial into an answer.            *)
(***************************************************************************)
ASSUME MapAssumption ==
    /\ \A sizes \in UNION {[1..n -> 1..3] : n \in 1..3}, room \in 0..7 :
         LET b == Bundle(sizes, room, 0)
             tokens[i \in 0..Len(sizes)] ==
               IF i = 0 THEN 0
               ELSE tokens[i - 1] + IF i \in b.shown THEN sizes[i] ELSE 0
             used == tokens[Len(sizes)]
         IN /\ used <= room
            /\ \A i \in b.omitted : sizes[i] > room - used
            /\ b.complete <=> b.omitted = {}
    /\ \A c \in Configs, s \in Settings :
         SkipOutcome(TRUE, c, s, Unlabelled) = "none" =>
           c.profile = "dev_local" /\ c.endpoint = "mock"
    /\ \A replies \in [1..3 -> Replies] :
         Completed(replies) = "text" =>
           \E i \in 1..3 : replies[i] = "text" /\ \A j \in 1..(i - 1) : replies[j] = "retryable"
=============================================================================
