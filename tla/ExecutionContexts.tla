-------------------------- MODULE ExecutionContexts -------------------------
(***************************************************************************)
(* The execution context boundary (infuse/context/): the record built of   *)
(* an execution request, validated as it came, normalised, and kept.       *)
(*                                                                         *)
(* A name is its text and whether blanks surround it; a field that may be  *)
(* absent is a set of at most one value.                                   *)
(***************************************************************************)
EXTENDS Integers, Sequences, FiniteSets, SequencesExt

VARIABLE contexts  \* _contexts, in insertion order

Name(text) == [text |-> text, padded |-> FALSE]

trim(name) == Name(name.text)

AnyName == [text : STRING, padded : BOOLEAN]

\* What the schema asks of a request that an execution is made of.
IsRequest(request) ==
    /\ request.request_id \in AnyName
    /\ request.supports \subseteq {"tools", "vision", "structured_output"}
    /\ \A names \in {request.preferred_providers, request.excluded_providers,
                     request.preferred_models, request.excluded_models} : names \in Seq(AnyName)
    /\ request.min_context_tokens \subseteq Int
    /\ \A n, k \in request.min_context_tokens : n = k

_clean_str(value) == {trim(name) : name \in {n \in value : n.text # ""}}

\* Each text once, where it occurs first.
_clean_str_list(names) ==
    LET kept == {i \in DOMAIN names : /\ names[i].text # ""
                                     /\ \A j \in 1..(i - 1) : names[j].text # names[i].text}
    IN [k \in 1..Cardinality(kept) |->
          trim(names[CHOOSE i \in kept : Cardinality({j \in kept : j < i}) = k - 1])]

-----------------------------------------------------------------------------
\* The record before validation.  A request asks for three capabilities at
\* most, by its flags, and an inline policy without an id gets one.
from_execution_request(request, execution_id, parent) ==
    [execution_id |-> execution_id, request_id |-> request.request_id, parent |-> parent,
     task_id |-> request.task_id, workload_hint |-> request.workload_hint,
     agent_id |-> request.agent_id, workflow_id |-> request.workflow_id,
     step_index |-> request.step_index,
     supports |-> request.supports, requested_capabilities |-> request.supports,
     routing_strategy |-> {},
     min_context_tokens |-> request.min_context_tokens,
     max_latency_ms |-> request.max_latency_ms,
     preferred_providers |-> request.preferred_providers,
     excluded_providers |-> request.excluded_providers,
     preferred_models |-> request.preferred_models,
     excluded_models |-> request.excluded_models,
     policy |-> IF request.policy = {}
                THEN [policy_id |-> Name("pol_default"), inline |-> FALSE]
                ELSE [policy_id |-> CHOOSE id \in {IF id = Name("") THEN Name("pol_inline") ELSE id :
                                                    id \in request.policy} : TRUE,
                      inline |-> TRUE],
     message_count |-> request.message_count, tool_count |-> request.tool_count]

\* A caller who fills in the builder itself may name more capabilities, and
\* in the metadata a strategy; the other constraints are given again.
set_constraints(draft, words, routing_strategy) ==
    [draft EXCEPT !.requested_capabilities = @ \cup words, !.routing_strategy = routing_strategy]

\* Preferences and exclusions are compared as they were sent: the padded
\* name of an excluded provider passes.
validate_execution_context(ctx) ==
    /\ ctx.request_id.text # "" /\ ctx.task_id.text # ""
    /\ ctx.step_index >= 0
    /\ \A n \in ctx.min_context_tokens : n >= 0
    /\ \A ms \in ctx.max_latency_ms : ms > 0
    /\ ToSet(ctx.preferred_providers) \cap ToSet(ctx.excluded_providers) = {}
    /\ ToSet(ctx.preferred_models) \cap ToSet(ctx.excluded_models) = {}
    /\ ctx.message_count >= 0 /\ ctx.tool_count >= 0

normalize_execution_context(ctx) ==
    [ctx EXCEPT !.request_id = trim(@), !.parent = _clean_str(@), !.task_id = trim(@),
                !.workload_hint = _clean_str(@), !.agent_id = _clean_str(@),
                !.workflow_id = _clean_str(@),
                !.preferred_providers = _clean_str_list(@),
                !.excluded_providers = _clean_str_list(@),
                !.preferred_models = _clean_str_list(@),
                !.excluded_models = _clean_str_list(@),
                !.policy.policy_id = IF @.text = "" THEN Name("pol_default") ELSE trim(@)]

\* What build answers, or nothing where it raises.
build(draft) ==
    {normalize_execution_context(ctx) : ctx \in {c \in {draft} : validate_execution_context(c)}}

create_execution_context(request, execution_id, parent) ==
    build(from_execution_request(request, execution_id, parent))

-----------------------------------------------------------------------------
ContextIds == {ctx.execution_id : ctx \in ToSet(contexts)}

save_context(ctx) ==
    contexts' = IF ctx.execution_id \in ContextIds
                THEN [i \in DOMAIN contexts |->
                         IF contexts[i].execution_id = ctx.execution_id THEN ctx ELSE contexts[i]]
                ELSE Append(contexts, ctx)

get_context(execution_id) == {ctx \in ToSet(contexts) : ctx.execution_id = execution_id}

\* The newest execution of a request: an older one of the same request id
\* can be found by its own id only.
get_by_request_id(request_id) ==
    LET mine == SelectSeq(contexts, LAMBDA ctx : ctx.request_id = request_id)
    IN IF mine = <<>> THEN {} ELSE {Last(mine)}

list_contexts(agents, limit, offset) ==
    LET found == SelectSeq(contexts, LAMBDA ctx : agents # {} => ctx.agent_id = agents)
    IN SubSeq(found, offset + 1, IF offset + limit < Len(found) THEN offset + limit
                                 ELSE Len(found))

create_context(request, execution_id, parent) ==
    \E ctx \in create_execution_context(request, execution_id, parent) : save_context(ctx)
=============================================================================
