---------------------------- MODULE MCTelemetry -----------------------------
(* Small instances of the observers, the engines and the agent adapters.    *)
(* The initial state picks which of them runs; the others stand still.      *)
EXTENDS TokenObserver, AgentVendors, HealthEngine, Economics, TLC

CONSTANTS x1, x2, p1, p2, t1, t2, a1, a2, u1, u2, k1, k2

VARIABLE subject  \* the component that runs

Subjects == {"tokens", "tools", "web", "health", "economics", "agents"}

telemetry_vars ==
    <<subject, vars, tool_vars, web_vars, health_vars, cost_vars, agent_vars>>

-----------------------------------------------------------------------------
(* Token events, as in MCTokenObserver.                                     *)
TokenEvent(x, id, n, type, authoritative, input, output, total, target) ==
    [execution_id |-> x, event_id |-> id, sequence |-> n, type |-> type,
     authoritative |-> authoritative, input |-> input, output |-> output,
     total |-> total, target |-> target]

TokenEvents ==
    {TokenEvent(x1, "start", 0, "EXECUTION_STARTED", FALSE, None, None, None, p1),
     TokenEvent(x1, "est1", 1, "TOKEN_OBSERVED", FALSE, 10, 2, None, None),
     TokenEvent(x1, "use", 2, "TOKEN_OBSERVED", TRUE, 11, None, None, p2),
     TokenEvent(x1, "est2", 3, "TOKEN_OBSERVED", FALSE, None, 5, None, None),
     TokenEvent(x1, "total", 4, "USAGE_UPDATED", TRUE, None, None, 20, None),
     TokenEvent(x1, "done", 5, "EXECUTION_COMPLETED", FALSE, 12, 7, 19, p2),
     TokenEvent(x1, "fail", 5, "EXECUTION_FAILED", FALSE, 3, 3, 6, p1),
     TokenEvent(x2, "use", 2, "TOKEN_OBSERVED", TRUE, 4, 1, None, None)}

-----------------------------------------------------------------------------
(* Two tools: called with and without ids, answered late, early and badly.  *)
ToolEvent(id, type, tool, call_id, success, error, duration, time) ==
    [execution_id |-> x1, event_id |-> <<id>>, type |-> type, tool |-> tool,
     call_id |-> call_id, success |-> success, error |-> error,
     duration |-> duration, time |-> time, sequence |-> time]

SomeToolEvents ==
    {ToolEvent("c1", "TOOL_CALLED", t1, "id1", NoTool, FALSE, NoTool, 1),
     ToolEvent("d1", "TOOL_COMPLETED", Unknown, "id1", NoTool, FALSE, NoTool, 3),
     ToolEvent("c2", "TOOL_CALLED", t1, NoTool, NoTool, FALSE, NoTool, 2),
     ToolEvent("d2", "TOOL_COMPLETED", t1, NoTool, FALSE, FALSE, 7, 4),
     ToolEvent("c3", "TOOL_CALLED", t2, NoTool, NoTool, FALSE, NoTool, 5),
     ToolEvent("d3", "TOOL_COMPLETED", t2, NoTool, TRUE, TRUE, BadDuration, 6)}

-----------------------------------------------------------------------------
(* Requests to two targets, answered by flag, code and error, or by nothing *)
(* (r1, whose request r2 may have been given to before).                     *)
WebEvent(id, type, url, request_id, code, success, error, duration, time) ==
    [execution_id |-> x1, event_id |-> <<id>>, type |-> type, url |-> url,
     request_id |-> request_id, status_code |-> code, bytes |-> NoWeb,
     success |-> success, error |-> error, duration |-> duration,
     time |-> time, sequence |-> time]

SomeWebEvents ==
    {WebEvent("q1", "WEB_REQUEST", u1, "id1", NoWeb, NoWeb, FALSE, NoWeb, 1),
     WebEvent("r1", "WEB_RESPONSE", NoTarget, "id1", NoWeb, NoWeb, FALSE, NoWeb, 3),
     WebEvent("q2", "WEB_REQUEST", u1, NoWeb, NoWeb, NoWeb, FALSE, NoWeb, 2),
     WebEvent("r2", "WEB_RESPONSE", u1, NoWeb, 404, NoWeb, FALSE, 9, 4),
     WebEvent("q3", "WEB_REQUEST", u2, "id2", NoWeb, NoWeb, FALSE, NoWeb, 5),
     WebEvent("r3", "WEB_RESPONSE", u2, "id2", 503, TRUE, FALSE, BadNumber, 6),
     WebEvent("r4", "WEB_RESPONSE", NoTarget, NoWeb, BadNumber, NoWeb, TRUE, NoWeb, 7)}

-----------------------------------------------------------------------------
(* Two executions of two providers, one of which is written in two ways.    *)
LowerCase(n) == IF n = "P2 " THEN "p2" ELSE IF n = "P1" THEN "p1" ELSE "m"

HealthEvent(x, id, type, provider, duration, status, words, state) ==
    [execution_id |-> x, event_id |-> id, type |-> type, provider |-> provider,
     model |-> IF provider = "P1" THEN "M" ELSE NoHealth, duration |-> duration,
     http_status |-> status, words |-> words, typed |-> words # {}, new_state |-> state]

SomeHealthEvents ==
    {HealthEvent(x1, "s1", "EXECUTION_STARTED", "P1", NoHealth, NoHealth, {}, NoHealth),
     HealthEvent(x1, "e1", "PROVIDER_ERROR", NoHealth, NoHealth, 429, {"TIMEOUT"}, NoHealth),
     HealthEvent(x1, "r1", "RETRY_STARTED", "P2 ", NoHealth, NoHealth, {}, NoHealth),
     HealthEvent(x1, "d1", "EXECUTION_COMPLETED", "P1", 40, NoHealth, {}, NoHealth),
     HealthEvent(x1, "f1", "EXECUTION_FAILED", "P1", NoHealth, 503, {}, NoHealth),
     HealthEvent(x1, "c1", "STATE_CHANGED", NoHealth, NoHealth, NoHealth, {}, "RUNNING"),
     HealthEvent(x2, "d1", "EXECUTION_COMPLETED", "P1", 20, NoHealth, {}, NoHealth),
     HealthEvent(x2, "o1", "TOKEN_OBSERVED", "P2 ", NoHealth, NoHealth, {}, NoHealth)}

-----------------------------------------------------------------------------
(* Two callers, counts with holes, and rates that come and go.              *)
TargetKey(t) == IF t \in {"P1/M", "p1/m"} THEN "p1/m" ELSE t

Tokens(input, output, cached) == [input |-> input, output |-> output, cached |-> cached]

SomeUsages ==
    {[execution_id |-> x1, tokens |-> Tokens(10, 4, NoCost), target |-> "P1/M", sequence |-> 1],
     [execution_id |-> x1, tokens |-> Tokens(20, NoCost, 5), target |-> "p1/m", sequence |-> 2],
     [execution_id |-> x2, tokens |-> Tokens(0, NoCost, NoCost), target |-> NoCost, sequence |-> 1]}

SomeRates ==
    {[target |-> "p1/m", rate |-> Tokens(3, 6, NoCost), unit |-> "PER_1K_TOKENS", currency |-> "USD"],
     [target |-> "p1/m", rate |-> Tokens(NoCost, 2, NoCost), unit |-> "PER_TOKEN", currency |-> "EUR"],
     [target |-> "p2/m", rate |-> Tokens(-1, 2, NoCost), unit |-> "PER_1M_TOKENS", currency |-> "USD"],
     [target |-> "p2/m", rate |-> Tokens(1, 0, 0), unit |-> "PER_1M_TOKENS", currency |-> "USD"]}

-----------------------------------------------------------------------------
(* Every vendor with its own transport, some with the reference one.        *)
Item(name, status, success, duration) ==
    [name |-> name, status |-> status, success |-> success, duration |-> duration]

Page(url, code, duration) == [url |-> url, status_code |-> code, duration |-> duration]

One == [JsonObject EXCEPT !.tools = <<Item(t1, "failed", NoAgent, NoTool)>>]

Line == [JsonObject EXCEPT !.tool = Item(t1, NoAgent, FALSE, 3)]

Browsed == [JsonObject EXCEPT !.web = Page(NoAgent, NoAgent, 4)]

Asked == [JsonObject EXCEPT !.tool_calls = <<Item(NoAgent, "success", FALSE, NoTool)>>,
                            !.web_requests = <<Page(u1, 404, NoWeb)>>]

SomeStdouts ==
    {Stdout(<<>>, JsonArray), Stdout(<<Line>>, One),
     Stdout(<<Browsed>>, [JsonObject EXCEPT !.web_requests = <<Page(u1, 404, NoWeb)>>])}

Setup(vendor, transport, available, flags, custom) ==
    [vendor |-> vendor, transport |-> transport, available |-> available,
     flags |-> flags, custom |-> custom, presets |-> {}, isolates |-> TRUE]

Strict(s) == [s EXCEPT !.isolates = FALSE]

Custom == [parsed |-> Asked, events |-> <<>>]

SomeSetups ==
    {Setup(v, "cli", TRUE, {}, NoAgent) :
        v \in {"codex", "opencode", "hermes", "openclaw", "claude"}}
    \cup {Setup(v, "reference", TRUE, {}, Custom) :
        v \in {"codex", "opencode", "hermes", "openclaw", "lovable", "claude"}}
    \cup {Setup("codex", "cli", FALSE, {}, NoAgent),
          Setup("lovable", "http", TRUE, {}, NoAgent),
          Strict(Setup("codex", "cli", TRUE, {}, NoAgent)),
          Strict(Setup("openclaw", "reference", TRUE, {}, Custom)),
          Strict(Setup("reference", "reference", TRUE, {}, NoAgent)),
          Setup("codex", "reference", TRUE, {"timeout", "fail"}, Custom),
          Setup("reference", "reference", TRUE, {"fail_control"}, NoAgent),
          Setup("reference", "reference", TRUE, {"fail_step"}, NoAgent)}
    \cup {[Setup("reference", "reference", TRUE, {}, NoAgent) EXCEPT !.presets = {k}] :
        k \in {k1, k2}}

SomeOffers == {<<t1, t2>>}

Operation(action, hard) == [execution_id |-> x1, action |-> action, hard |-> hard]

SomeControls == {Operation("STOP", FALSE), Operation("STOP", TRUE), Operation("SWITCH", FALSE)}

-----------------------------------------------------------------------------
TelemetryInit ==
    /\ subject \in Subjects
    /\ Init /\ ToolInit /\ WebInit /\ HealthInit /\ CostInit
    /\ AgentInit
    /\ subject # "agents" => setup = Setup("reference", "reference", TRUE, {"fail_step"}, NoAgent)
                             /\ agent_bus = "open"

TelemetryNext ==
    /\ UNCHANGED subject
    /\ \/ /\ subject = "tokens" /\ Next
          /\ UNCHANGED <<tool_vars, web_vars, health_vars, cost_vars, agent_vars>>
       \/ /\ subject = "tools" /\ ToolNext
          /\ UNCHANGED <<vars, web_vars, health_vars, cost_vars, agent_vars>>
       \/ /\ subject = "web" /\ WebNext
          /\ UNCHANGED <<vars, tool_vars, health_vars, cost_vars, agent_vars>>
       \/ /\ subject = "health" /\ HealthNext
          /\ UNCHANGED <<vars, tool_vars, web_vars, cost_vars, agent_vars>>
       \/ /\ subject = "economics" /\ CostNext
          /\ UNCHANGED <<vars, tool_vars, web_vars, health_vars, agent_vars>>
       \/ /\ subject = "agents" /\ AgentNext
          /\ UNCHANGED <<vars, health_vars, cost_vars>>

Same == Permutations({a1, a2}) \cup Permutations({k1, k2})

TelemetrySpec == TelemetryInit /\ [][TelemetryNext]_telemetry_vars
=============================================================================
