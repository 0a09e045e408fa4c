----------------------------- MODULE Upstreams -----------------------------
(***************************************************************************)
(* What the analysis of an article asks of SADI and of the model, and what *)
(* it takes their replies for: each of its errors decides whether the      *)
(* article is given up, tried again or tried again after a back-off.       *)
(***************************************************************************)

(* SADI's GET /v1/cleaned_news/{cleaned_id}, and what else may come of it: *)
(* its database is unreachable or fails, SADI does not answer, or answers  *)
(* with something else.                                                    *)
get_cleaned_news(found) == IF found THEN "200" ELSE "404"
SadiFailure == {"500", "503", "no answer", "misshapen"}

NewsError == {"ServiceUnavailableError", "ParseError"}

(* Mutant of fetch_cleaned_news: an article that is not had is not there.  *)
fetch_or_none(reply) ==
    CASE reply = "200" -> "article"
      [] reply = "misshapen" -> "ParseError"
      [] OTHER -> "none"

fetch_cleaned_news(reply) ==
    CASE reply = "200" -> "article"
      [] reply = "404" -> "none"
      [] reply = "misshapen" -> "ParseError"
      [] OTHER -> "ServiceUnavailableError"

(* One call of the model.  A timeout is a 504 of the SDK's.                *)
ModelFailure == {"429", "401", "403", "400", "504", "no answer", "misshapen"}

call_error(failure) ==
    CASE failure = "429" -> "LLMRateLimitError"
      [] failure \in {"401", "403"} -> "LLMAuthenticationError"
      [] failure = "400" -> "LLMRequestError"
      [] OTHER -> "LLMProviderError"

generate_structured(reply) ==
    CASE reply = "output" -> "output"
      [] reply = "misshapen" -> "LLMSchemaViolationError"
      [] OTHER -> call_error(reply)

(* The failure_reason of the skill's result, which find_entity_events      *)
(* raises.                                                                 *)
failure_reason(reply) ==
    IF generate_structured(reply) = "output" THEN "None" ELSE generate_structured(reply)

=============================================================================
