------------------------------ MODULE Adapters ------------------------------
(***************************************************************************)
(* Provider adapters (infuse/providers/, infuse/integrations/): the        *)
(* registry of adapters, the reference adapter, the one over LiteLLM, and  *)
(* the service that runs a routed target and normalises what comes back.   *)
(*                                                                         *)
(* What a provider answers is chosen: tokens, or a failure told by its     *)
(* HTTP status (a set of at most one) and by what its class or its message *)
(* says of a passing condition (a time-out, a rate limit, a connection).   *)
(***************************************************************************)
EXTENDS Routing

CONSTANTS
    Offered,  \* adapters that may be registered: [provider_id, kind, supported, flags]
    Answers,  \* what a provider may answer
    MaxRegistrations \* bound: changes of the adapter registry

VARIABLES
    adapters,          \* _adapters: by lower-case provider id
    execution_history, \* the requests the reference adapters took, in order
    registrations      \* changes of the registry so far

adapter_vars == <<adapters, execution_history, registrations>>

Retryable == {429, 500, 502, 503, 504}

-----------------------------------------------------------------------------
(***************************************************************************)
(* The registry of adapters: a set of adapters, at most one of an id.      *)
(***************************************************************************)
AdapterId(a) == lower(a.provider_id.text)

get_adapter(pid) == {a \in adapters : AdapterId(a) = lower(pid)}

register_adapter(a, overwrite) ==
    /\ a.provider_id.text # ""
    /\ overwrite \/ get_adapter(a.provider_id.text) = {}
    /\ adapters' = (adapters \ get_adapter(a.provider_id.text)) \cup {a}

unregister_adapter(a) == a \in adapters /\ adapters' = adapters \ {a}

-----------------------------------------------------------------------------
(***************************************************************************)
(* Failures.                                                               *)
(***************************************************************************)
Failure(status, by_class, by_message) ==
    [failed |-> TRUE, status |-> status, by_class |-> by_class, by_message |-> by_message]

\* The record an adapter makes of a failure.  Only LiteLLM's reads what the
\* class and the message say.
normalize_error(kind, failure) ==
    [http_status |-> failure.status,
     is_retryable |-> \/ failure.status \cap Retryable # {}
                      \/ kind = "litellm" /\ (failure.by_class \/ failure.by_message)]

\* What an adapter raises in its stead: the status and the message are
\* carried over, the class is its own.
Invocation(failure) == [failure EXCEPT !.by_class = FALSE]

Internal == Failure({}, FALSE, FALSE)  \* an error of the adapter layer itself

\* Without an adapter any error is read by its status alone.
service_normalize_error(pid, failure) ==
    IF get_adapter(pid) = {} THEN normalize_error("none", failure)
    ELSE normalize_error((CHOOSE a \in get_adapter(pid) : TRUE).kind, failure)

-----------------------------------------------------------------------------
(***************************************************************************)
(* The adapters.                                                           *)
(***************************************************************************)
Reply(pid, model_id, usage, authoritative) ==
    [failed |-> FALSE, provider_id |-> pid, model_id |-> model_id,
     usage |-> [input |-> usage.input, output |-> usage.output, total |-> usage.total],
     is_authoritative |-> authoritative]

\* A mock adapter that is given no list has four models of its own.
MockModels == {"mock-fast", "mock-pro", "mock-reasoning", "mock-code"}

ModelsOf(a) == IF a.kind = "mock" /\ a.supported = {} THEN MockModels ELSE a.supported

\* An adapter without a list takes every model.
supports_model(a, model_id) ==
    ModelsOf(a) = {} \/ lower(model_id) \in {lower(m) : m \in ModelsOf(a)}

_validate_request(a, request) ==
    /\ lower(request.provider_id) = AdapterId(a)
    /\ supports_model(a, request.model_id)

\* The reference adapter: the request is kept before the failure is raised.
MockExecute(a, request, answer) ==
    IF ~_validate_request(a, request) THEN Internal
    ELSE IF answer.failed THEN Invocation(answer)
    ELSE Reply(AdapterId(a), request.model_id, answer, TRUE)

\* A response without a total gets the sum; nothing is below zero.
NonNegative(n) == IF n < 0 THEN 0 ELSE n

boundary_normalize_response(answer) ==
    LET total == IF answer.total = 0 THEN answer.input + answer.output ELSE answer.total
    IN [input |-> NonNegative(answer.input), output |-> NonNegative(answer.output),
        total |-> NonNegative(total)]

SimulatedTokens == [input |-> 1, output |-> 15, total |-> 16]

\* LiteLLM's adapter takes the model it is given: its list is not consulted.
LiteLLMExecute(a, request, answer) ==
    IF "installed" \in a.flags
    THEN IF answer.failed THEN Invocation(answer)
         ELSE Reply("litellm", request.model_id, boundary_normalize_response(answer), TRUE)
    ELSE IF "allow_simulation" \in a.flags
    THEN Reply("litellm", request.model_id, SimulatedTokens, FALSE)
    ELSE Internal

-----------------------------------------------------------------------------
(***************************************************************************)
(* The service.                                                            *)
(***************************************************************************)
translate_request(execution_id, request, target) ==
    [execution_id |-> execution_id, request_id |-> request.request_id,
     task_id |-> request.task_id, provider_id |-> target.provider_id,
     model_id |-> target.model_id]

\* The adapter is looked up and called; without one the call raises.
execute_target(execution_id, request, target, answer) ==
    LET sent == translate_request(execution_id, request, target)
        found == get_adapter(target.provider_id)
        a == CHOOSE a \in found : TRUE
    IN IF found = {} THEN Internal
       ELSE IF a.kind = "litellm" THEN LiteLLMExecute(a, sent, answer)
       ELSE MockExecute(a, sent, answer)

Keeps(execution_id, request, target) ==
    LET sent == translate_request(execution_id, request, target)
    IN execution_history' =
          IF \E a \in get_adapter(target.provider_id) :
                a.kind = "mock" /\ _validate_request(a, sent)
          THEN Append(execution_history, sent) ELSE execution_history

normalize_response_to_result(reply) ==
    [status |-> "COMPLETED", provider |-> reply.provider_id, model |-> reply.model_id,
     usage |-> reply.usage, is_authoritative |-> reply.is_authoritative]

ManageAdapters ==
    /\ registrations < MaxRegistrations /\ registrations' = registrations + 1
    /\ UNCHANGED execution_history
    /\ \/ \E a \in Offered, overwrite \in BOOLEAN : register_adapter(a, overwrite)
       \/ \E a \in adapters : unregister_adapter(a)
=============================================================================
