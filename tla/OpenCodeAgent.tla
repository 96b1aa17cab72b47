--------------------------- MODULE OpenCodeAgent ----------------------------
(***************************************************************************)
(* The OpenCode adapter (infuse/agents/opencode).  The CLI prints one JSON *)
(* object; its tools and web requests are published, its tool_calls only   *)
(* answered.                                                               *)
(***************************************************************************)
EXTENDS AgentSteps

opencode_capability == AgentCapability({"CONTINUE", "STOP"}, TRUE, TRUE, FALSE, FALSE)

opencode_supports_action(action) == ActionSupported(opencode_capability, action)

opencode_attach_execution(a, x) == SessionAttached(a, x)

opencode_detach_execution(a, x) == SessionDetached(a, x)

opencode_begin_step(a, x, k) == StepCounted(a, x, k)

opencode_launch(p, x, run) == ProcessRegistered(p, x, run)

opencode_forget(p, x) == ProcessForgotten(p, x)

opencode_cancel_execution(p, x) == ProcessTerminated(p, x)

opencode_terminate_session(p, x) == ProcessKilled(p, x)

opencode_parse(stdout) == WholeOutput(stdout)

opencode_events(x, k, now, out) ==
    IF out.parsed = NoAgent THEN <<StepCompleted(x, k, now)>>
    ELSE ActivityOf(x, k, now, Listed(out.parsed.tools), Listed(out.parsed.web_requests))

opencode_response(out, offered) ==
    IF out.parsed = NoAgent THEN AnsweredTools(NoAgent, offered)
    ELSE AnsweredTools(IF out.parsed.tools # NoAgent THEN out.parsed.tools
                       ELSE out.parsed.tool_calls, offered)

opencode_receive_control(a, op) == ControlReceived(a, op)

opencode_execute_control(op) == ControlAnswer(opencode_supports_action(op.action), op)

opencode_reference_execute(r) == ReferenceOutput(r, [parsed |-> JsonObject, events |-> <<>>])

opencode_reference_cancel(r, x) == ReferenceCancelled(r, x)

opencode_reference_terminate(r, x) == ReferenceTerminated(r, x)

opencode_reference_clear(r) == ReferenceTransport({}, NoAgent)
=============================================================================
