---------------------------- MODULE HealthEngine ----------------------------
(***************************************************************************)
(* The health engine (infuse/health): a summary of each execution and      *)
(* totals of each provider and model, from the events the bus delivers.    *)
(* The handler holds the engine's lock, so an event is one step; HealthTaken*)
(* is that step on the whole state of the engine.                          *)
(***************************************************************************)
EXTENDS Integers, Sequences, FiniteSets, FiniteSetsExt

CONSTANTS
    HealthExecutions, \* execution ids
    HealthEvents,     \* the events that may arrive
    ProviderNames,    \* provider names as events write them
    ModelNames,       \* model names as events write them
    Lower(_),         \* a name without blanks and in lower case
    NoHealth,         \* an absent value
    MaxHealthLinks,   \* bound: attach_to_bus calls
    MaxHealthClears   \* bound: clear calls

Categories == {"TIMEOUT", "RATE_LIMIT", "AUTHENTICATION", "UNAVAILABLE",
               "INVALID_REQUEST", "PROVIDER_ERROR", "EXECUTION_ERROR", "UNKNOWN"}

\* An event id names one event of an execution; names, durations and the
\* categories of an error's words are what the contracts let them be.
ASSUME HealthAssumption ==
    /\ NoHealth \notin Int
    /\ \A e \in HealthEvents :
         /\ e.execution_id \in HealthExecutions
         /\ e.provider \in ProviderNames \cup {NoHealth}
         /\ e.model \in ModelNames \cup {NoHealth}
         /\ e.duration \in Int \cup {NoHealth}
         /\ e.words \subseteq Categories \ {"UNKNOWN"}
    /\ \A e, f \in HealthEvents :
         e.execution_id = f.execution_id /\ e.event_id = f.event_id => e = f

VARIABLES
    health,        \* _executions, _seen_event_ids and both tables of aggregates
    health_subs,   \* _subscription_ids
    health_links,  \* the engine's subscriptions on the bus
    health_made,   \* how many subscriptions were ever made
    health_clears  \* how many times the engine was cleared

health_vars == <<health, health_subs, health_links, health_made, health_clears>>

-----------------------------------------------------------------------------
(***************************************************************************)
(* classify_error_category: an HTTP status decides before the words of the *)
(* error; of several words the first category in order decides.            *)
(***************************************************************************)
HttpCategory(status) ==
    CASE status \in {408, 504} -> "TIMEOUT"
      [] status = 429          -> "RATE_LIMIT"
      [] status \in {401, 403} -> "AUTHENTICATION"
      [] status \in {502, 503} -> "UNAVAILABLE"
      [] status \in {400, 422} -> "INVALID_REQUEST"
      [] status = 500          -> "PROVIDER_ERROR"
      [] OTHER                 -> NoHealth

Precedence == <<"TIMEOUT", "RATE_LIMIT", "AUTHENTICATION", "UNAVAILABLE",
                "INVALID_REQUEST", "PROVIDER_ERROR", "EXECUTION_ERROR">>

\* words: the categories whose words the error's type, code or message has.
classify_error_category(status, words) ==
    IF status # NoHealth /\ HttpCategory(status) # NoHealth THEN HttpCategory(status)
    ELSE IF words = {} THEN "UNKNOWN"
    ELSE Precedence[Min({i \in DOMAIN Precedence : Precedence[i] \in words})]

-----------------------------------------------------------------------------
(***************************************************************************)
(* Summaries and aggregates.                                               *)
(***************************************************************************)
NoExecution ==
    [seen |-> {}, provider |-> NoHealth, model |-> NoHealth, status |-> NoHealth,
     success |-> NoHealth, finalized |-> FALSE, latency |-> NoHealth,
     started |-> FALSE, completeness |-> "UNKNOWN", errors |-> <<>>, retries |-> 0]

\* avg_latency_ms is kept as the total and the number it was divided by.
NoAggregate ==
    [total |-> 0, successful |-> 0, failed |-> 0, provider_errors |-> 0, retries |-> 0,
     errors |-> [c \in Categories |-> 0], total_latency |-> 0,
     min_latency |-> NoHealth, max_latency |-> NoHealth, avg_latency |-> NoHealth]

NoObservations ==
    [executions |-> [x \in HealthExecutions |-> NoExecution],
     providers |-> [p \in {Lower(n) : n \in ProviderNames} |-> NoAggregate],
     models |-> [k \in {Lower(n) : n \in ProviderNames} \X
                       {Lower(n) : n \in ModelNames} |-> NoAggregate]]

_update_latency_stats(agg, ms) ==
    IF ms = NoHealth THEN agg
    ELSE [agg EXCEPT
            !.total_latency = @ + ms,
            !.min_latency = IF @ = NoHealth \/ ms < @ THEN ms ELSE @,
            !.max_latency = IF @ = NoHealth \/ ms > @ THEN ms ELSE @,
            !.avg_latency = IF agg.successful + agg.failed > 0
                            THEN <<agg.total_latency + ms, agg.successful + agg.failed>>
                            ELSE @]

-----------------------------------------------------------------------------
(***************************************************************************)
(* handle_event                                                            *)
(***************************************************************************)
\* The first provider and the first model an event names stay.
Named(s, e) ==
    [s EXCEPT !.seen = @ \cup {e.event_id},
              !.provider = IF @ = NoHealth THEN e.provider ELSE @,
              !.model = IF @ = NoHealth THEN e.model ELSE @]

Started(s) ==
    [s EXCEPT !.started = TRUE,
              !.status = IF s.finalized THEN @ ELSE "STARTED",
              !.completeness = IF s.provider # NoHealth /\ @ = "UNKNOWN"
                               THEN "PARTIAL" ELSE @]

Ended(s, e, outcome) ==
    LET latency == IF e.duration # NoHealth THEN e.duration ELSE s.latency
    IN [s EXCEPT !.status = outcome, !.success = (outcome = "COMPLETED"),
                 !.finalized = TRUE, !.latency = latency,
                 !.completeness = IF s.provider = NoHealth THEN @
                                  ELSE IF latency # NoHealth THEN "COMPLETE"
                                  ELSE "PARTIAL"]

CountedSuccess(agg, ms) ==
    _update_latency_stats([agg EXCEPT !.total = @ + 1, !.successful = @ + 1], ms)

\* Mutant: the failure is not counted with its category.
Mut_CountedFailure(agg, category, ms) ==
    _update_latency_stats([agg EXCEPT !.total = @ + 1, !.failed = @ + 1], ms)

CountedFailure(agg, category, ms) ==
    _update_latency_stats([agg EXCEPT !.total = @ + 1, !.failed = @ + 1,
                                      !.errors[category] = @ + 1], ms)

\* A failure without an error type is an EXECUTION_ERROR, a provider error
\* without one a PROVIDER_ERROR.
FailureCategory(e) ==
    classify_error_category(e.http_status,
        e.words \cup (IF e.typed THEN {} ELSE {"EXECUTION_ERROR"}))

ErrorCategory(e) ==
    classify_error_category(e.http_status,
        e.words \cup (IF e.typed THEN {} ELSE {"PROVIDER_ERROR"}))

Fault(e, category, provider) ==
    [event_id |-> e.event_id, category |-> category, provider |-> provider]

\* Where an error or a retry happened: what the event says, or the execution's.
Where(named, own) == IF named # NoHealth THEN named ELSE own

\* What an event adds to an aggregate, the execution's latency being ms.
Added(agg, e, ms) ==
    CASE e.type = "EXECUTION_COMPLETED" -> CountedSuccess(agg, ms)
      [] e.type = "EXECUTION_FAILED"    -> CountedFailure(agg, FailureCategory(e), ms)
      [] e.type = "PROVIDER_ERROR"      -> [agg EXCEPT !.provider_errors = @ + 1,
                                                       !.errors[ErrorCategory(e)] = @ + 1]
      [] e.type = "RETRY_STARTED"       -> [agg EXCEPT !.retries = @ + 1]

\* Added to both aggregates of a provider and a model; a model without a
\* provider has none.
Aggregated(h, provider, model, e, ms) ==
    IF provider = NoHealth THEN h
    ELSE LET h1 == [h EXCEPT !.providers[Lower(provider)] = Added(@, e, ms)]
         IN IF model = NoHealth THEN h1
            ELSE [h1 EXCEPT !.models[<<Lower(provider), Lower(model)>>] = Added(@, e, ms)]

EventApplied(h, e) ==
    LET s == Named(h.executions[e.execution_id], e)
        put(t) == [h EXCEPT !.executions[e.execution_id] = t]
        ended(t) == Aggregated(put(t), t.provider, t.model, e, t.latency)
        met(t) == Aggregated(put(t), Where(e.provider, s.provider), Where(e.model, s.model),
                             e, NoHealth)
    IN CASE e.type = "EXECUTION_STARTED" -> put(Started(s))
         [] e.type = "EXECUTION_COMPLETED" -> ended(Ended(s, e, "COMPLETED"))
         [] e.type = "EXECUTION_FAILED" ->
              ended([Ended(s, e, "FAILED") EXCEPT
                        !.errors = Append(@, Fault(e, FailureCategory(e), s.provider))])
         [] e.type = "PROVIDER_ERROR" ->
              met([s EXCEPT !.errors = Append(@, Fault(e, ErrorCategory(e),
                                                      Where(e.provider, s.provider)))])
         [] e.type = "RETRY_STARTED" -> met([s EXCEPT !.retries = @ + 1])
         [] e.type = "STATE_CHANGED" ->
              put(IF s.finalized THEN s ELSE [s EXCEPT !.status = e.new_state])
         [] OTHER -> put(s)

HealthTaken(h, e) ==
    IF e.event_id \in h.executions[e.execution_id].seen THEN h ELSE EventApplied(h, e)

-----------------------------------------------------------------------------
(***************************************************************************)
(* The engine and its subscriptions.                                       *)
(***************************************************************************)
HealthInit ==
    /\ health = NoObservations
    /\ health_subs = {} /\ health_links = {} /\ health_made = 0
    /\ health_clears = 0

health_handle_event(e) ==
    /\ health' = HealthTaken(health, e)
    /\ UNCHANGED <<health_subs, health_links, health_made, health_clears>>

health_attach_to_bus ==
    /\ health_made < MaxHealthLinks
    /\ health_made' = health_made + 1
    /\ health_subs' = health_subs \cup {health_made'}
    /\ health_links' = health_links \cup {health_made'}
    /\ UNCHANGED <<health, health_clears>>

health_detach_from_bus ==
    /\ health_subs # {}
    /\ health_links' = health_links \ health_subs
    /\ health_subs' = {}
    /\ UNCHANGED <<health, health_made, health_clears>>

health_clear ==
    /\ health_clears < MaxHealthClears
    /\ health_clears' = health_clears + 1
    /\ health' = NoObservations
    /\ health_subs' = {}
    /\ UNCHANGED <<health_links, health_made>>

HealthNext ==
    \/ \E e \in HealthEvents : health_handle_event(e)
    \/ health_attach_to_bus \/ health_detach_from_bus \/ health_clear

HealthSpec == HealthInit /\ [][HealthNext]_health_vars

-----------------------------------------------------------------------------
(***************************************************************************)
(* Properties.                                                             *)
(***************************************************************************)
\* The events that were handled, of some types.
Handled(types) ==
    {e \in HealthEvents : e.type \in types
                          /\ e.event_id \in health.executions[e.execution_id].seen}

EndTypes == {"EXECUTION_COMPLETED", "EXECUTION_FAILED"}

\* The provider an execution's outcome counts for.
ServedBy(x, p) ==
    health.executions[x].provider # NoHealth /\ Lower(health.executions[x].provider) = p

ErrorsOf(agg) ==
    agg.errors["TIMEOUT"] + agg.errors["RATE_LIMIT"] + agg.errors["AUTHENTICATION"]
      + agg.errors["UNAVAILABLE"] + agg.errors["INVALID_REQUEST"]
      + agg.errors["PROVIDER_ERROR"] + agg.errors["EXECUTION_ERROR"] + agg.errors["UNKNOWN"]

AggregateIsWhole(agg) ==
    /\ agg.total = agg.successful + agg.failed
    /\ ErrorsOf(agg) = agg.provider_errors + agg.failed
    /\ agg.max_latency # NoHealth => agg.min_latency <= agg.max_latency

OutcomesOf(p, type) == {e \in Handled({type}) : ServedBy(e.execution_id, p)}

TotalsAreOutcomes ==
    (\A e \in Handled(EndTypes) : e.provider # NoHealth)
    => \A p \in DOMAIN health.providers :
         /\ health.providers[p].successful = Cardinality(OutcomesOf(p, "EXECUTION_COMPLETED"))
         /\ health.providers[p].failed = Cardinality(OutcomesOf(p, "EXECUTION_FAILED"))

OutcomesStand ==
    \A e \in Handled(EndTypes) :
        LET s == health.executions[e.execution_id]
        IN s.finalized /\ s.status = (IF s.success THEN "COMPLETED" ELSE "FAILED")

\* In whatever order events arrive, and whatever names they use for a
\* provider: a late start or state change never reopens an execution, every
\* aggregate accounts for each of its outcomes and each of its errors once, and
\* a provider's totals are the outcomes of the executions it is held
\* responsible for, as long as the terminal events name a provider.
HealthAgrees ==
    /\ OutcomesStand
    /\ TotalsAreOutcomes
    /\ \A p \in DOMAIN health.providers : AggregateIsWhole(health.providers[p])
    /\ \A k \in DOMAIN health.models : AggregateIsWhole(health.models[k])
=============================================================================
