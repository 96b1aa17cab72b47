--------------------------- MODULE ReferenceAgent ---------------------------
(***************************************************************************)
(* The reference adapter (infuse/agents/reference.py): no transport, every *)
(* capability, and flags that make steps or controls fail.  Unlike the     *)
(* others it holds its lock for a whole step, publishing included, and     *)
(* refuses a step before it counts it.                                     *)
(***************************************************************************)
EXTENDS AgentSteps

reference_capability ==
    AgentCapability({"CONTINUE", "STOP", "THROTTLE", "SWITCH", "OPTIMIZE"},
                    TRUE, TRUE, TRUE, TRUE)

reference_supports_action(action) == ActionSupported(reference_capability, action)

reference_attach_execution(a, x) == SessionAttached(a, x)

reference_detach_execution(a, x) == SessionDetached(a, x)

reference_refuses_step(flags) == flags \cap {"raise_step", "fail_step"} # {}

reference_begin_step(a, x, k) == StepCounted(a, x, k)

reference_events(x, k, now) == <<StepCompleted(x, k, now)>>

\* A preset answer for the step index is given instead.
reference_response(presets, k, offered) ==
    IF k \in presets THEN "preset" ELSE AnsweredTools(NoAgent, offered)

reference_receive_control(a, op) == ControlReceived(a, op)

reference_execute_control(flags, op) ==
    IF "raise_control" \in flags THEN [status |-> "RAISED", signal |-> FALSE]
    ELSE IF "fail_control" \in flags THEN [status |-> "FAILED", signal |-> FALSE]
    ELSE [ControlAnswer(reference_supports_action(op.action), op) EXCEPT !.signal = FALSE]

reference_clear(a) == NoSessions
=============================================================================
