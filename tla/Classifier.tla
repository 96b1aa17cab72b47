----------------------------- MODULE Classifier -----------------------------
(***************************************************************************)
(* The rule-based workload classifier (infuse/classifier/): a function of  *)
(* the execution context.  Texts are folded to lower case; a score is in   *)
(* hundredths.                                                             *)
(***************************************************************************)
EXTENDS Integers, Sequences, FiniteSets

HINTS ==
    [CODING |-> {"code", "coding", "dev", "software", "programming"},
     REASONING |-> {"reasoning", "logic", "math"},
     CONVERSATIONAL |-> {"chat", "conversation", "fast-chat", "dialogue"},
     TOOL_USE |-> {"tools", "tool_use", "agent", "functions"},
     WEB_ENABLED |-> {"web", "search", "research", "browsing"},
     MULTIMODAL |-> {"vision", "image", "multimodal"},
     EXTRACTION |-> {"extract", "extraction", "scraping"},
     TRANSFORMATION |-> {"transform", "transformation", "translation"},
     STRUCTURED_GENERATION |-> {"json", "structured", "schema"},
     WORKFLOW_EXECUTION |-> {"workflow", "pipeline", "step"}]

\* A hint is a text of the table, or the name of a category in any case,
\* which stands here as the category itself.
Hinted(hints) ==
    {c \in DOMAIN HINTS : \E h \in hints : h.text \in HINTS[c] \cup {c}}

Requires(ctx) ==
    LET asked(caps) == ctx.requested_capabilities \cap caps # {} IN
    [tools |-> "tools" \in ctx.supports \/ ctx.tool_count > 0 \/ asked({"tools", "tool_use"}),
     web |-> asked({"web", "search", "browsing"}),
     vision |-> "vision" \in ctx.supports \/ asked({"vision", "multimodal"}),
     structured_output |-> \/ "structured_output" \in ctx.supports
                           \/ asked({"structured_output", "json"})]

\* What an unhinted context shows of its kind, the first sign first.
Signs(ctx) ==
    LET r == Requires(ctx) IN
    <<<<"MULTIMODAL", r.vision>>, <<"TOOL_USE", r.tools>>, <<"WEB_ENABLED", r.web>>,
      <<"STRUCTURED_GENERATION", r.structured_output>>,
      <<"WORKFLOW_EXECUTION", ctx.step_index > 0 \/ ctx.workflow_id # {}>>,
      <<"CONVERSATIONAL", ctx.message_count > 0>>, <<"UNKNOWN", TRUE>>>>

_resolve_categories(ctx) ==
    LET signs == Signs(ctx)
        first == CHOOSE i \in DOMAIN signs :
                     signs[i][2] /\ \A j \in 1..(i - 1) : ~signs[j][2]
        hinted == Hinted(ctx.workload_hint)
        primary == IF hinted = {} THEN signs[first][1] ELSE CHOOSE c \in hinted : TRUE
    IN [category |-> primary,
        secondary |-> {signs[i][1] : i \in {i \in 1..5 : signs[i][2]}} \ {primary}]

Level(n, low, medium) == IF n <= low THEN "LOW" ELSE IF n <= medium THEN "MEDIUM" ELSE "HIGH"

Estimate(ctx) == IF ctx.min_context_tokens = {} THEN 0 ELSE CHOOSE n \in ctx.min_context_tokens : TRUE

_compute_dimensions(ctx) ==
    [requires |-> Requires(ctx),
     tool_intensity |-> IF ctx.tool_count = 0 THEN "NONE" ELSE Level(ctx.tool_count, 2, 5),
     context_intensity |-> Level(Estimate(ctx), 4000, 16000),
     latency_sensitivity |-> IF \E ms \in ctx.max_latency_ms : ms <= 1000 THEN "HIGH"
                             ELSE IF \E ms \in ctx.max_latency_ms : ms <= 5000 THEN "MEDIUM"
                             ELSE "LOW",
     estimated_context_tokens |-> Estimate(ctx),
     message_count |-> ctx.message_count, tool_count |-> ctx.tool_count]

AtMost15(n) == IF n < 15 THEN n ELSE 15

Score(ctx, d) ==
    LET if(holds, n) == IF holds THEN n ELSE 0
        total == 10 + if(d.requires.tools, 20)
                 + if(d.requires.tools /\ d.tool_count > 2, AtMost15((d.tool_count - 2) * 5))
                 + if(d.requires.web, 15) + if(d.requires.vision, 20)
                 + if(d.requires.structured_output, 10)
                 + if(ctx.step_index > 0, AtMost15(ctx.step_index * 5))
                 + if(d.estimated_context_tokens > 8000, 10)
                 + if(d.estimated_context_tokens > 32000, 10)
                 + if(d.message_count > 4, 8) + if(d.message_count > 10, 7)
    IN if(total <= 100, total) + if(total > 100, 100)

_compute_complexity(ctx, d) ==
    LET score == Score(ctx, d) IN
    [score |-> score, level |-> IF score < 30 THEN "LOW" ELSE IF score < 60 THEN "MODERATE"
                                ELSE IF score < 85 THEN "HIGH" ELSE "VERY_HIGH"]

classify(ctx) ==
    LET d == _compute_dimensions(ctx)
    IN [kind |-> _resolve_categories(ctx), dimensions |-> d,
        complexity |-> _compute_complexity(ctx, d)]
=============================================================================
