----------------------------- MODULE MCPipeline -----------------------------
(* One execution through the pipeline, the catalog being seeded or already  *)
(* seeded, while administrators change catalog and adapters.                *)
EXTENDS Pipeline

MCLowered == [t \in {"OpenAI", "GPT-4o"} |-> IF t = "OpenAI" THEN "openai" ELSE "gpt-4o"]

MCAlphabet ==
    <<"GPT-4o", "OpenAI", "anthropic", "claude-3-7-sonnet", "deepseek", "deepseek-v3",
      "gemini-2.0-flash", "google", "gpt-4o", "litellm", "litellm/gpt-4o", "openai">>

Padded(text) == [text |-> text, padded |-> TRUE]

MCSubmittedProviders ==
    {[ProviderRecord("openai", {"HTTP"}) EXCEPT !.status = "DISABLED"],
     [ProviderRecord("OpenAI", {}) EXCEPT !.provider_id = Padded("OpenAI")],
     ProviderRecord("deepseek", {"http"}),
     ProviderRecord("litellm", {"http"}),
     [ProviderRecord("google", {}) EXCEPT !.keys = {"api_key"}]}

MCSubmittedModels ==
    {ModelRecord("GPT-4o", "OpenAI", 128000, 4096, {"tools"}, {"web", "coding"}),
     [ModelRecord("deepseek-v3", "deepseek", 8000, 4096, {}, {}) EXCEPT !.status = "DISABLED"],
     ModelRecord("litellm/gpt-4o", "litellm", 300000, 4096, {"vision"}, {"browsing", "sse"}),
     ModelRecord("gpt-4o", "openai", 0, 4096, {}, {})}

Request ==
    [request_id |-> Name("r"), task_id |-> Name("t"), workload_hint |-> {}, agent_id |-> {},
     workflow_id |-> {}, step_index |-> 0, supports |-> {}, min_context_tokens |-> {},
     max_latency_ms |-> {}, preferred_providers |-> <<>>, excluded_providers |-> <<>>,
     preferred_models |-> <<>>, excluded_models |-> <<>>, policy |-> {},
     message_count |-> 1, tool_count |-> 0]

Complex ==
    [Request EXCEPT !.tool_count = 6, !.step_index = 3, !.min_context_tokens = {100000},
                    !.message_count = 11, !.supports = {"vision"},
                    !.excluded_providers = <<Padded("anthropic"), Name("OpenAI")>>]

Requests ==
    {[Request EXCEPT !.preferred_models = <<Name("gpt-4O"), Padded("gpt-4o")>>],
     Complex,
     [Request EXCEPT !.excluded_models = <<Padded("GPT-4o"), Name("")>>,
                     !.preferred_providers = <<Name("deepseek"), Name("openai")>>],
     [Request EXCEPT !.supports = {"structured_output"}, !.workload_hint = {Padded("coding")}],
     [Request EXCEPT !.request_id = Name("")]}

\* What the lifecycle service asks of the others.
Asking(request) ==
    [request |-> request, words |-> {}, routing_strategy |-> {}, classified |-> TRUE,
     strategy |-> {}]

Preferring == [Request EXCEPT !.preferred_models = <<Name("gpt-4o")>>]

MCAsked ==
    {Asking(r) : r \in Requests}
    \cup {[Asking(Request) EXCEPT !.words = w] :
             w \in {{"search", "tool_use"}, {"multimodal", "streaming"}}}
    \cup {[Asking(Request) EXCEPT !.words = w, !.classified = c] :
             w \in {{"json", "coding"}, {"web"}, {"browsing"}}, c \in BOOLEAN}
    \cup {[Asking(Preferring) EXCEPT !.routing_strategy = s] :
             s \in {{"cost_efficient"}, {"fastest"}}}
    \cup {[Asking([Request EXCEPT !.min_context_tokens = {64001}]) EXCEPT !.strategy = {s}] :
             s \in Strategies}
    \cup {[Asking(Complex) EXCEPT !.classified = c, !.strategy = {"workload_fit"}] : c \in BOOLEAN}

Adapter(pid, kind, supported, flags) ==
    [provider_id |-> pid, kind |-> kind, supported |-> supported, flags |-> flags]

MCOffered ==
    {Adapter(Padded("OpenAI"), "mock", {"gpt-4o"}, {}),
     Adapter(Name("openai"), "mock", {}, {}),
     Adapter(Name("litellm"), "litellm", {}, {"installed"}),
     Adapter(Name("litellm"), "litellm", {}, {"allow_simulation"}),
     Adapter(Name("litellm"), "litellm", {}, {})}

Tokens(i, o, t) == [failed |-> FALSE, input |-> i, output |-> o, total |-> t]
MCAnswers == {Tokens(1, 2, 0), Failure({503}, FALSE, FALSE), Failure({400}, TRUE, FALSE)}

\* The catalog as seeding leaves it, LiteLLM's models added or not.
Filled(extra) ==
    /\ providers = {normalize_provider_record(DefaultProviders[i]) : i \in 1..4}
                   \cup {normalize_provider_record(p) : p \in extra.providers}
    /\ models = {normalize_model_record(DefaultModels[i]) : i \in 1..4}
                \cup {normalize_model_record(m) : m \in extra.models}
    /\ seeding = [at |-> 9, missing |-> FALSE] /\ changes = 0

LiteLLM == [providers |-> {p \in MCSubmittedProviders : p.provider_id.text = "litellm"},
            models |-> {m \in MCSubmittedModels : m.provider_id.text = "litellm"}]

MCInit ==
    /\ CatalogInit \/ Filled(Unlisted) \/ Filled(LiteLLM)
    /\ adapters \in {{}, {Adapter(Name("openai"), "mock", {"gpt-4o"}, {}),
                          Adapter(Name("litellm"), "litellm", {}, {"installed"})}}
    /\ ExecuteInit

\* Executions start when the seeding is over.
MCNext == PipelineNext /\ (\A e \in Executions : pc'[e] # "start" => Seeded)

MCSpec == MCInit /\ [][MCNext]_pipeline_vars
=============================================================================
