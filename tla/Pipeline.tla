------------------------------ MODULE Pipeline ------------------------------
(***************************************************************************)
(* From a request to a provider: the context boundary, the classifier, the *)
(* resolver, the router and the provider adapters as                       *)
(* ExecutionLifecycleService.execute chains them (lifecycle/service.py),   *)
(* while administrators change the catalog and the adapters.  The record   *)
(* of the execution and its states are Lifecycle's subject.                *)
(*                                                                         *)
(* The lifecycle service has its contexts made of the request alone, hands *)
(* its classification on and names no strategy; other callers of the       *)
(* services may fill in the builder and do otherwise.                      *)
(***************************************************************************)
EXTENDS Adapters, ExecutionContexts

CONSTANTS
    Executions, \* execution ids
    Asked       \* what is asked: [request, words, routing_strategy, classified, strategy],
                \* words and routing_strategy as set_constraints takes them

ASSUME PipelineAssumption ==
    /\ \A a \in Asked : IsRequest(a.request) /\ a.classified \in BOOLEAN
    /\ \A a \in Offered : a.kind = "litellm" => AdapterId(a) = "litellm"
    /\ \A answer \in Answers : "failed" \in DOMAIN answer /\ answer.failed \in BOOLEAN

VARIABLES
    pc,         \* per execution, the step it is at
    asked,      \* what was asked
    ctx,        \* its context, once created
    classified, \* its classification, if the caller uses one
    listed,     \* resolve's all_models and all_providers
    targets,    \* the routed targets, the selected one first
    outcome     \* the result, or the error the caller got

pipeline_vars == <<catalog_vars, adapter_vars, contexts, pc, asked, ctx, classified,
                   listed, targets, outcome>>

Unlisted == [models |-> {}, providers |-> {}]

Raised(what) == [status |-> "raised", what |-> what]

Failed(cause, error) == [status |-> "FAILED", cause |-> cause, error |-> error]

Failing(reply) == [status |-> "failing", reply |-> reply]

NoTarget == Failed("RESOLUTION_ERROR", normalize_error("none", Internal))

Services == <<catalog_vars, adapter_vars>>

Goes(e, to) == pc' = [pc EXCEPT ![e] = to]

Ends(e, what) == Goes(e, "end") /\ outcome' = [outcome EXCEPT ![e] = what]

-----------------------------------------------------------------------------
(***************************************************************************)
(* One execution, a step per read of the catalog and per provider call.    *)
(***************************************************************************)
OfRequest(a) == a.words = {} /\ a.routing_strategy = {}

Built(a, e) ==
    IF OfRequest(a) THEN create_execution_context(a.request, e, {})
    ELSE build(set_constraints(from_execution_request(a.request, e, {}),
                               a.words, a.routing_strategy))

\* create_execution has the context built and kept; one that a caller filled
\* in is not kept.  A context that is rejected ends the execution here.
Create(e) ==
    /\ pc[e] = "start"
    /\ \E a \in Asked :
          /\ asked' = [asked EXCEPT ![e] = {a}]
          /\ \/ /\ Built(a, e) # {}
                /\ ctx' = [ctx EXCEPT ![e] = Built(a, e)]
                /\ \/ OfRequest(a) /\ create_context(a.request, e, {})
                   \/ ~OfRequest(a) /\ UNCHANGED contexts
                /\ Goes(e, "classify")
                /\ UNCHANGED outcome
             \/ /\ Built(a, e) = {}
                /\ Ends(e, Raised("InvalidExecutionContextError"))
                /\ UNCHANGED <<contexts, ctx>>
    /\ UNCHANGED <<Services, classified, listed, targets>>

The(set) == CHOOSE x \in set : TRUE

Classify(e) ==
    /\ pc[e] = "classify"
    /\ classified' = [classified EXCEPT ![e] =
                         IF The(asked[e]).classified THEN {classify(The(ctx[e]))} ELSE {}]
    /\ Goes(e, "list_models")
    /\ UNCHANGED <<Services, contexts, asked, ctx, listed, targets, outcome>>

ListModels(e) ==
    /\ pc[e] = "list_models"
    /\ listed' = [listed EXCEPT ![e].models = models]
    /\ Goes(e, "list_providers")
    /\ UNCHANGED <<Services, contexts, asked, ctx, classified, targets, outcome>>

\* The second list, and all that follows from the two: resolution, the
\* refusal of an execution without a target, and routing.
Route(e) ==
    LET found == [listed[e] EXCEPT !.providers = providers]
        candidates == resolve(The(ctx[e]), classified[e], found)
        decision == route(The(ctx[e]), candidates, classified[e], The(asked[e]).strategy)
    IN /\ pc[e] = "list_providers"
       /\ listed' = [listed EXCEPT ![e] = found]
       /\ \/ candidates = {} /\ Ends(e, NoTarget) /\ UNCHANGED targets
          \/ candidates # {} /\ decision = {} /\ Ends(e, Raised("NameError")) /\ UNCHANGED targets
          \/ /\ decision # {}
             /\ targets' = [targets EXCEPT ![e] = The(decision)]
             /\ Goes(e, "call") /\ UNCHANGED outcome
       /\ UNCHANGED <<Services, contexts, asked, ctx, classified>>

\* The selected target alone is tried: no fallback is.
CallProvider(e) ==
    LET request == The(asked[e]).request
        target == Head(targets[e])
    IN /\ pc[e] = "call"
       /\ \E answer \in Answers :
             LET reply == execute_target(e, request, target, answer) IN
             \/ ~reply.failed /\ Ends(e, normalize_response_to_result(reply))
             \/ /\ reply.failed
                /\ Goes(e, "failing")
                /\ outcome' = [outcome EXCEPT ![e] = Failing(reply)]
       /\ Keeps(e, request, target)
       /\ UNCHANGED <<catalog_vars, adapters, registrations, contexts, asked, ctx, classified,
                      listed, targets>>

\* The failure is read by the adapter that is registered by then, if any is.
NormalizeError(e) ==
    /\ pc[e] = "failing"
    /\ Ends(e, Failed("PROVIDER_ERROR",
                      service_normalize_error(Head(targets[e]).provider_id, outcome[e].reply)))
    /\ UNCHANGED <<Services, contexts, asked, ctx, classified, listed, targets>>

-----------------------------------------------------------------------------
ExecuteInit ==
    /\ contexts = <<>>
    /\ execution_history = <<>> /\ registrations = 0
    /\ pc = [e \in Executions |-> "start"]
    /\ asked = [e \in Executions |-> {}] /\ ctx = [e \in Executions |-> {}]
    /\ classified = [e \in Executions |-> {}] /\ listed = [e \in Executions |-> Unlisted]
    /\ targets = [e \in Executions |-> <<>>]
    /\ outcome = [e \in Executions |-> [status |-> "none"]]

PipelineInit == CatalogInit /\ adapters = {} /\ ExecuteInit

Execute(e) ==
    \/ Create(e) \/ Classify(e) \/ ListModels(e) \/ Route(e)
    \/ CallProvider(e) \/ NormalizeError(e)

PipelineNext ==
    \/ \E e \in Executions : Execute(e)
    \/ /\ SeedLooks \/ SeedRegisters \/ Administer
       /\ UNCHANGED <<adapter_vars, contexts, pc, asked, ctx, classified, listed, targets, outcome>>
    \/ /\ ManageAdapters
       /\ UNCHANGED <<catalog_vars, contexts, pc, asked, ctx, classified, listed, targets, outcome>>

-----------------------------------------------------------------------------
\* The words that ask for the same of a model.
Synonyms ==
    [tools |-> {"tools", "tool_use"}, vision |-> {"vision", "multimodal"},
     structured_output |-> {"structured_output", "json"}, web |-> {"web", "search"}]

Words(a) == a.request.supports \cup a.words

\* What a request asks of a model, in the caller's words: a need of the four
\* under any of its names, and every other word as it stands.  Browsing, once
\* classified, is asked under the name of web also; streaming is not asked.
Asks(a) ==
    {need \in DOMAIN Synonyms : Synonyms[need] \cap Words(a) # {}}
    \cup {need \in {"tools"} : a.request.tool_count > 0}
    \cup {need \in {"web"} : a.classified /\ "browsing" \in Words(a)}
    \cup {word \in Words(a) \ {"streaming"} : \A need \in DOMAIN Synonyms : word \notin Synonyms[need]}

Names(text, names) == \E n \in ToSet(names) : n.text # "" /\ lower(n.text) = lower(text)

Serves(model, a) ==
    /\ model.status = "ACTIVE"
    /\ \A n \in a.request.min_context_tokens : model.context_window >= n
    /\ ~Names(model.provider_id, a.request.excluded_providers)
    /\ ~Names(model.model_id, a.request.excluded_models)
    /\ \A need \in Asks(a) : Has(model, need)

Hosted(model, e) ==
    \E p \in listed[e].providers : p.provider_id = model.provider_id /\ p.status = "ACTIVE"

\* The targets of an execution, the fallbacks among them, are the listed
\* models that serve all that was asked, by flag, by keyword or by a word of
\* the caller's own, and whose provider was listed as active: all of them,
\* and where it was refused for want of a target there was none.  An answer
\* is told of the first.  So through normalisation, classification,
\* resolution and routing nothing of the request is lost and nothing added,
\* but that a need for streaming is never compared and classified browsing
\* asks for the web (lifecycle/service.py execute, resolver.py resolve,
\* router.py route).
RoutingIsExact ==
    \A e \in Executions : \A a \in asked[e] :
       /\ targets[e] # <<>> \/ outcome[e] = NoTarget =>
             ToSet(targets[e]) = {m \in listed[e].models : Serves(m, a) /\ Hosted(m, e)}
       /\ outcome[e].status = "COMPLETED" =>
             /\ targets[e] # <<>>
             /\ outcome[e].model = Head(targets[e]).model_id
             /\ outcome[e].provider = lower(Head(targets[e]).provider_id)

PipelineSpec == PipelineInit /\ [][PipelineNext]_pipeline_vars
=============================================================================
