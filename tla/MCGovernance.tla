---------------------------- MODULE MCGovernance ----------------------------
(* A small instance of Governance for TLC.                                 *)
EXTENDS Governance, TLC

CONSTANTS c1, c2

NoLimits == [l \in Limits |-> None]

\* PolicyActionBindings as declared.
Defaults == [budget_action |-> "OPTIMIZE", token_action |-> "OPTIMIZE",
             request_action |-> "THROTTLE", runtime_action |-> "STOP",
             provider_failure_action |-> "SWITCH", anomaly_action |-> "STOP"]

\* One call, one request, 5 tokens, a cost of 10; anomalies escalate.
SomeLimits ==
    [Unlimited |-> NoLimits,
     Strict    |-> [NoLimits EXCEPT !.max_tool_calls = 1, !.max_tool_failures = 1,
                                    !.max_web_requests = 1, !.max_time = 3,
                                    !.max_total_tokens = 5, !.max_cost = 10]]

SomeActions ==
    [Unlimited |-> Defaults,
     Strict    |-> [Defaults EXCEPT !.anomaly_action = "ESCALATE"]]

SomeLatencies == {3}

Symmetric == Permutations({c1, c2})
=============================================================================
