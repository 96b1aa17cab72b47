---------------------------- MODULE HermesAgent -----------------------------
(***************************************************************************)
(* The Hermes adapter (infuse/agents/hermes).  The CLI prints text or one  *)
(* JSON object, whose tools and web requests are published.                *)
(***************************************************************************)
EXTENDS AgentSteps

hermes_capability == AgentCapability({"CONTINUE", "STOP"}, TRUE, TRUE, FALSE, FALSE)

hermes_supports_action(action) == ActionSupported(hermes_capability, action)

hermes_attach_execution(a, x) == SessionAttached(a, x)

hermes_detach_execution(a, x) == SessionDetached(a, x)

hermes_begin_step(a, x, k) == StepCounted(a, x, k)

hermes_launch(p, x, run) == ProcessRegistered(p, x, run)

hermes_forget(p, x) == ProcessForgotten(p, x)

hermes_cancel_execution(p, x) == ProcessTerminated(p, x)

hermes_terminate_session(p, x) == ProcessKilled(p, x)

hermes_parse(stdout) == WholeOutput(stdout)

hermes_events(x, k, now, out) ==
    IF out.parsed = NoAgent THEN <<StepCompleted(x, k, now)>>
    ELSE ActivityOf(x, k, now, Listed(out.parsed.tools), Listed(out.parsed.web_requests))

hermes_response(out, offered) ==
    AnsweredTools(IF out.parsed = NoAgent THEN NoAgent ELSE out.parsed.tools, offered)

hermes_receive_control(a, op) == ControlReceived(a, op)

hermes_execute_control(op) == ControlAnswer(hermes_supports_action(op.action), op)

hermes_reference_execute(r) == ReferenceOutput(r, [parsed |-> JsonObject, events |-> <<>>])

hermes_reference_cancel(r, x) == ReferenceCancelled(r, x)

hermes_reference_terminate(r, x) == ReferenceTerminated(r, x)

hermes_reference_clear(r) == ReferenceTransport({}, NoAgent)
=============================================================================
