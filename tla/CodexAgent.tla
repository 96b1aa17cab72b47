----------------------------- MODULE CodexAgent -----------------------------
(***************************************************************************)
(* The Codex adapter (infuse/agents/codex).  The CLI streams JSON lines:   *)
(* the last object is taken for the result, and activity is read from that *)
(* object and again from every line.                                       *)
(***************************************************************************)
EXTENDS AgentSteps

codex_capability == AgentCapability({"CONTINUE", "STOP"}, TRUE, TRUE, FALSE, FALSE)

codex_supports_action(action) == ActionSupported(codex_capability, action)

codex_attach_execution(a, x) == SessionAttached(a, x)

codex_detach_execution(a, x) == SessionDetached(a, x)

codex_begin_step(a, x, k) == StepCounted(a, x, k)

codex_launch(p, x, run) == ProcessRegistered(p, x, run)

codex_forget(p, x) == ProcessForgotten(p, x)

codex_cancel_execution(p, x) == ProcessTerminated(p, x)

codex_terminate_session(p, x) == ProcessKilled(p, x)

codex_parse(stdout) ==
    IF stdout.lines # <<>>
    THEN [error |-> NoAgent, out |-> [parsed |-> Last(stdout.lines), events |-> stdout.lines]]
    ELSE WholeOutput(stdout)

codex_listed_tools(out) ==
    IF out.parsed = NoAgent THEN NoAgent
    ELSE IF out.parsed.tools # NoAgent THEN out.parsed.tools ELSE out.parsed.tool_calls

\* Line numbers in their order.
InOrder(I) ==
    [n \in 1..Cardinality(I) |-> CHOOSE i \in I : Cardinality({j \in I : j < i}) = n - 1]

codex_tool_list(out) ==
    LET lines == InOrder({i \in DOMAIN out.events : out.events[i].tool # NoAgent})
    IN Listed(codex_listed_tools(out))
       \o [n \in DOMAIN lines |-> out.events[lines[n]].tool]

codex_web_list(out) ==
    LET lines == InOrder({i \in DOMAIN out.events : out.events[i].web # NoAgent})
    IN Listed(IF out.parsed = NoAgent THEN NoAgent ELSE out.parsed.web_requests)
       \o [n \in DOMAIN lines |-> out.events[lines[n]].web]

codex_events(x, k, now, out) ==
    ActivityOf(x, k, now, codex_tool_list(out), codex_web_list(out))

codex_response(out, offered) == AnsweredTools(codex_listed_tools(out), offered)

codex_receive_control(a, op) == ControlReceived(a, op)

codex_execute_control(op) == ControlAnswer(codex_supports_action(op.action), op)

codex_reference_execute(r) ==
    ReferenceOutput(r, [parsed |-> JsonObject, events |-> <<JsonObject>>])

codex_reference_cancel(r, x) == ReferenceCancelled(r, x)

codex_reference_terminate(r, x) == ReferenceTerminated(r, x)

codex_reference_clear(r) == ReferenceTransport({}, NoAgent)
=============================================================================
