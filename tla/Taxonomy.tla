------------------------------ MODULE Taxonomy ------------------------------
(***************************************************************************)
(* How an exception becomes an Outcome (providers.py), which exceptions an    *)
(* operator can have injected (chaos.py), and what a caller is told of an     *)
(* outcome (main.py): three tables that must fit together.                    *)
(***************************************************************************)
EXTENDS Outcomes, Sequences

\* LiteLLM's classes that derive from another one that is caught.
Base == [ContentPolicyViolationError |-> "BadRequestError",
         ContextWindowExceededError |-> "BadRequestError"]
IsA(exception, class) ==
    exception = class \/ (exception \in DOMAIN Base /\ Base[exception] = class)

ExceptionTaxonomy ==
    <<<<"RateLimitError", "rate_limit">>,
      <<"Timeout", "timeout">>, <<"APIConnectionError", "timeout">>,
      <<"AuthenticationError", "auth">>, <<"PermissionDeniedError", "auth">>,
      <<"ContentPolicyViolationError", "content_filter">>,
      <<"ContextWindowExceededError", "bad_request">>,
      <<"NotFoundError", "model_not_found">>,
      <<"UnprocessableEntityError", "bad_request">>, <<"BadRequestError", "bad_request">>,
      <<"ServiceUnavailableError", "server_error">>, <<"InternalServerError", "server_error">>,
      <<"BadGatewayError", "server_error">>, <<"APIError", "server_error">>>>

Exceptions ==
    {ExceptionTaxonomy[i][1] : i \in DOMAIN ExceptionTaxonomy} \cup {"TimeoutError", "KeyError"}

ClassifyByLast(exception) ==
    LET rows == {i \in DOMAIN ExceptionTaxonomy : IsA(exception, ExceptionTaxonomy[i][1])}
        last == CHOOSE i \in rows : \A k \in rows : i >= k
    IN  CASE exception = "TimeoutError" -> "timeout"
          [] rows # {} -> ExceptionTaxonomy[last][2]
          [] OTHER -> "server_error"
\* The first matching row wins; an exception nobody knows is the provider's fault.
Classify(exception) ==
    LET rows == {i \in DOMAIN ExceptionTaxonomy : IsA(exception, ExceptionTaxonomy[i][1])}
        first == CHOOSE i \in rows : \A k \in rows : i <= k
    IN  CASE exception = "TimeoutError" -> "timeout"
          [] rows # {} -> ExceptionTaxonomy[first][2]
          [] OTHER -> "server_error"

\* What is raised for the error_type of an injected fault.
ExceptionFor ==
    [rate_limit |-> "RateLimitError", timeout |-> "Timeout",
     server_error |-> "InternalServerError", auth |-> "AuthenticationError",
     content_filter |-> "ContentPolicyViolationError", bad_request |-> "BadRequestError"]
Injectable == DOMAIN ExceptionFor

StatusByOutcome ==
    [rate_limit |-> 429, timeout |-> 504, server_error |-> 502, auth |-> 502,
     model_not_found |-> 502, content_filter |-> 400, bad_request |-> 400]

\* The table is indexed directly: an outcome it lacks is a KeyError and a 500.
StatusOf(outcome) ==
    IF outcome \in DOMAIN StatusByOutcome THEN StatusByOutcome[outcome] ELSE 500
=============================================================================
