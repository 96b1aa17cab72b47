------------------------------ MODULE Routing -------------------------------
(***************************************************************************)
(* The capability resolver (infuse/resolver/) and the router               *)
(* (infuse/router/): which listed models may serve an execution, and in    *)
(* which order they are preferred.                                         *)
(***************************************************************************)
EXTENDS Catalog, Classifier, SequencesExt

\* The capabilities that a model's record has a flag for.
Flags == {"tools", "vision", "structured_output"}

CONSTANT Alphabet  \* the ids of providers and models, in the order of strings

\* What the schema asks of a model, and that its ids have their place.
ASSUME ModelsAssumption ==
    /\ Alphabet \in Seq(STRING)
    /\ \A m \in SubmittedModels \cup ToSet(DefaultModels) :
          /\ {m.provider_id.text, m.model_id.text} \subseteq ToSet(Alphabet)
          /\ m.context_window \in Int /\ m.supports \subseteq Flags /\ IsFiniteSet(m.declared)

Rank(id) == CHOOSE i \in DOMAIN Alphabet : Alphabet[i] = id

Strategies == {"balanced", "preference", "workload_fit", "low_latency", "cost_efficient"}

-----------------------------------------------------------------------------
(***************************************************************************)
(* The resolver.  A classification is a set of at most one.                *)
(***************************************************************************)
StandardCapabilities ==
    {"tools", "tool_use", "vision", "multimodal", "structured_output", "json",
     "web", "search", "streaming"}

\* Mutant: excluded names keep their case.
Mut_TextsOf(names) == {n.text : n \in ToSet(names)}

TextsOf(names) == {lower(n.text) : n \in ToSet(names)}

_extract_requirements(ctx, classification) ==
    LET asked(caps) == ctx.requested_capabilities \cap caps # {}
        found(need) == \E c \in classification : c.dimensions.requires[need]
        estimates == {Estimate(ctx)}
                     \cup {c.dimensions.estimated_context_tokens : c \in classification}
    IN [needs |->
          {need \in {"tools", "vision", "structured_output", "web"} :
              \/ found(need) \/ need \in ctx.supports
              \/ need = "tools" /\ (ctx.tool_count > 0 \/ asked({"tools", "tool_use"}))
              \/ need = "vision" /\ asked({"vision", "multimodal"})
              \/ need = "structured_output" /\ asked({"structured_output", "json"})
              \/ need = "web" /\ asked({"web", "search"})}
          \cup (ctx.requested_capabilities \ StandardCapabilities),
        min_context_tokens |-> CHOOSE n \in estimates : \A k \in estimates : k <= n,
        excluded_providers |-> TextsOf(ctx.excluded_providers),
        excluded_models |-> TextsOf(ctx.excluded_models)]

\* The declared keywords that stand for a need the record has no flag for.
Keywords(need) ==
    CASE need = "structured_output" -> {"structured_output", "json"}
      [] need = "web" -> {"web", "search"}
      [] OTHER -> {need}

Has(model, need) == need \in model.supports \/ Keywords(need) \cap model.declared # {}

Compatible(model, listed, req) ==
    /\ \E p \in listed : p.provider_id = model.provider_id /\ p.status = "ACTIVE"
    /\ model.status = "ACTIVE"
    /\ lower(model.provider_id) \notin req.excluded_providers
    /\ lower(model.model_id) \notin req.excluded_models
    /\ model.context_window >= req.min_context_tokens
    /\ \A need \in req.needs : Has(model, need)

\* Models and providers are listed under the catalog's lock, one list after
\* the other: listed holds what each answered.
resolve(ctx, classification, listed) ==
    LET req == _extract_requirements(ctx, classification)
    IN {model \in listed.models : Compatible(model, listed.providers, req)}

-----------------------------------------------------------------------------
(***************************************************************************)
(* The router.                                                             *)
(***************************************************************************)
\* A strategy given by the caller, else a known one of the context's
\* metadata, else the requester's preferences.
_determine_strategy(ctx, strategy) ==
    IF strategy # {} THEN CHOOSE s \in strategy : TRUE
    ELSE IF ctx.routing_strategy \cap Strategies # {}
    THEN CHOOSE s \in ctx.routing_strategy \cap Strategies : TRUE
    ELSE IF ctx.preferred_models # <<>> \/ ctx.preferred_providers # <<>> THEN "preference"
    ELSE "balanced"

Unranked == 9999

Preference(id, names) ==
    LET found == SelectInSeq(names, LAMBDA n : lower(n.text) = lower(id))
    IN IF found = 0 THEN Unranked ELSE found - 1

\* The key a candidate is sorted by, the least first.
SortKey(model, ctx, strategy, complex) ==
    LET choice == Preference(model.model_id, ctx.preferred_models)
        owner == Preference(model.provider_id, ctx.preferred_providers)
        window == model.context_window
        skills == Cardinality(model.declared)
        zero(holds) == IF holds THEN 0 ELSE 1
        says(keywords) == keywords \cap model.declared # {}
        fits == complex /\ says({"reasoning", "coder", "coding"})
    IN CASE strategy = "preference" -> <<choice, owner, -window, -skills>>
         [] strategy = "workload_fit" -> <<zero(fits), choice, owner, -window, -skills>>
         [] strategy = "low_latency" ->
                <<zero(says({"streaming", "sse"})), choice, owner, window>>
         [] strategy = "cost_efficient" -> <<choice, owner, -skills, window>>
         [] OTHER -> <<zero(choice # Unranked \/ owner # Unranked), choice, owner,
                       -skills, -window>>

Precedes(k, l) ==
    \E i \in DOMAIN k : k[i] < l[i] /\ \A j \in 1..(i - 1) : k[j] = l[j]

\* The candidates, the one with the least key first.
_sort_candidates(candidates, key) ==
    [i \in 1..Cardinality(candidates) |->
       CHOOSE m \in candidates :
          Cardinality({n \in candidates : Precedes(key[n], key[m])}) = i - 1]

\* Whether the sort key can be computed: WORKLOAD_FIT asks a classification
\* that is not complex for a name router.py never imports (line 157).
Sortable(strategy, classification) ==
    strategy = "workload_fit" =>
        \A c \in classification : c.complexity.level \in {"HIGH", "VERY_HIGH"}

\* The targets of an execution, the one to run first; nothing where it raises.
route(ctx, candidates, classification, strategy) ==
    LET active == _determine_strategy(ctx, strategy)
        key == [model \in candidates |-> SortKey(model, ctx, active, classification # {})
                                         \o <<Rank(model.provider_id), Rank(model.model_id)>>]
    IN IF candidates = {} \/ ~Sortable(active, classification) THEN {}
       ELSE {_sort_candidates(candidates, key)}
=============================================================================
