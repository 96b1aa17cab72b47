---------------------------- MODULE ClaudeAgent -----------------------------
(***************************************************************************)
(* The Claude Code adapter (infuse/agents/claude) as one of the adapters;  *)
(* AgentControl models its steps and controls in full.  It tells the bus   *)
(* that a step completed, and nothing of what the step did.                *)
(***************************************************************************)
EXTENDS AgentSteps

claude_capability == AgentCapability({"CONTINUE", "STOP"}, TRUE, TRUE, FALSE, FALSE)

claude_supports_action(action) == ActionSupported(claude_capability, action)

claude_attach_execution(a, x) == SessionAttached(a, x)

claude_detach_execution(a, x) == SessionDetached(a, x)

claude_begin_step(a, x, k) == StepCounted(a, x, k)

claude_launch(p, x, run) == ProcessRegistered(p, x, run)

claude_forget(p, x) == ProcessForgotten(p, x)

claude_cancel_execution(p, x) == ProcessTerminated(p, x)

claude_terminate_session(p, x) == ProcessKilled(p, x)

claude_parse(stdout) == WholeOutput(stdout)

claude_events(x, k, now, out) == <<StepCompleted(x, k, now)>>

claude_response(out, offered) == AnsweredTools(NoAgent, offered)

claude_receive_control(a, op) == ControlReceived(a, op)

claude_execute_control(op) == ControlAnswer(claude_supports_action(op.action), op)

claude_reference_execute(r) == ReferenceOutput(r, [parsed |-> JsonObject, events |-> <<>>])

claude_reference_cancel(r, x) == ReferenceCancelled(r, x)

claude_reference_terminate(r, x) == ReferenceTerminated(r, x)

claude_reference_clear(r) == ReferenceTransport({}, NoAgent)
=============================================================================
