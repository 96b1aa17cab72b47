--------------------------- MODULE MCAgentControl ---------------------------
(* Small instances of AgentControl for TLC.                                *)
EXTENDS AgentControl, TLC

CONSTANTS s1, s2, c1, c2, x1, o1, o2

\* Both steppers work for x1.
SameExecution == s1 :> x1 @@ s2 :> x1

OneStepper == s1 :> x1

Operation(x, action, o, hard) ==
    [execution_id |-> x, action |-> action, operation_id |-> o, hard |-> hard]

\* A soft STOP and a hard one, a THROTTLE under the id of the first and a
\* CONTINUE under the id of the second.
Operations == {Operation(x1, "STOP", o1, FALSE), Operation(x1, "STOP", o2, TRUE),
               Operation(x1, "THROTTLE", o1, FALSE), Operation(x1, "CONTINUE", o2, FALSE)}

OneStop == {Operation(x1, "STOP", o1, FALSE)}

ClaudeActions == {"CONTINUE", "STOP"}

Throttling == {{"CONTINUE", "THROTTLE"}}
=============================================================================
