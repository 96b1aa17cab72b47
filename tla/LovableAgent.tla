---------------------------- MODULE LovableAgent ----------------------------
(***************************************************************************)
(* The Lovable adapter (infuse/agents/lovable).  Its HTTP transport sends  *)
(* nothing yet: without a key it refuses, with one it reports that the     *)
(* service cannot be reached, and no execution is ever active in it.  Only *)
(* the reference transport answers, with an object; its first flag is a    *)
(* refused key where the others have a missing CLI.                        *)
(***************************************************************************)
EXTENDS AgentSteps

lovable_capability == AgentCapability({"CONTINUE", "STOP"}, TRUE, TRUE, FALSE, FALSE)

lovable_supports_action(action) == ActionSupported(lovable_capability, action)

lovable_attach_execution(a, x) == SessionAttached(a, x)

lovable_detach_execution(a, x) == SessionDetached(a, x)

lovable_begin_step(a, x, k) == StepCounted(a, x, k)

lovable_http_execute(has_key) ==
    [error |-> IF has_key THEN "network" ELSE "authentication"]

lovable_cancel_execution(p, x) == ProcessForgotten(p, x)

lovable_terminate_session(p, x) == ProcessForgotten(p, x)

lovable_events(x, k, now, out) ==
    IF out.parsed = NoAgent THEN <<StepCompleted(x, k, now)>>
    ELSE ActivityOf(x, k, now, Listed(out.parsed.tools), Listed(out.parsed.web_requests))

lovable_response(out, offered) ==
    AnsweredTools(IF out.parsed = NoAgent THEN NoAgent ELSE out.parsed.tools, offered)

lovable_receive_control(a, op) == ControlReceived(a, op)

lovable_execute_control(op) == ControlAnswer(lovable_supports_action(op.action), op)

lovable_reference_execute(r) == ReferenceOutput(r, [parsed |-> JsonObject, events |-> <<>>])

lovable_reference_cancel(r, x) == ReferenceCancelled(r, x)

lovable_reference_terminate(r, x) == ReferenceTerminated(r, x)

lovable_reference_clear(r) == ReferenceTransport({}, NoAgent)
=============================================================================
