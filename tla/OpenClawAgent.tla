--------------------------- MODULE OpenClawAgent ----------------------------
(***************************************************************************)
(* The OpenClaw adapter (infuse/agents/openclaw).  The CLI prints text or  *)
(* one JSON object, whose tools and web requests are published.            *)
(***************************************************************************)
EXTENDS AgentSteps

openclaw_capability == AgentCapability({"CONTINUE", "STOP"}, TRUE, TRUE, FALSE, FALSE)

openclaw_supports_action(action) == ActionSupported(openclaw_capability, action)

openclaw_attach_execution(a, x) == SessionAttached(a, x)

openclaw_detach_execution(a, x) == SessionDetached(a, x)

openclaw_begin_step(a, x, k) == StepCounted(a, x, k)

openclaw_launch(p, x, run) == ProcessRegistered(p, x, run)

openclaw_forget(p, x) == ProcessForgotten(p, x)

openclaw_cancel_execution(p, x) == ProcessTerminated(p, x)

openclaw_terminate_session(p, x) == ProcessKilled(p, x)

openclaw_parse(stdout) == WholeOutput(stdout)

openclaw_events(x, k, now, out) ==
    IF out.parsed = NoAgent THEN <<StepCompleted(x, k, now)>>
    ELSE ActivityOf(x, k, now, Listed(out.parsed.tools), Listed(out.parsed.web_requests))

openclaw_response(out, offered) ==
    AnsweredTools(IF out.parsed = NoAgent THEN NoAgent ELSE out.parsed.tools, offered)

openclaw_receive_control(a, op) == ControlReceived(a, op)

openclaw_execute_control(op) == ControlAnswer(openclaw_supports_action(op.action), op)

openclaw_reference_execute(r) == ReferenceOutput(r, [parsed |-> JsonObject, events |-> <<>>])

openclaw_reference_cancel(r, x) == ReferenceCancelled(r, x)

openclaw_reference_terminate(r, x) == ReferenceTerminated(r, x)

openclaw_reference_clear(r) == ReferenceTransport({}, NoAgent)
=============================================================================
