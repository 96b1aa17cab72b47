----------------------------- MODULE MCEventBus -----------------------------
(* Small instances of EventBus for TLC.                                    *)
EXTENDS EventBus, TLC

CONSTANTS t1, t2

Envelope(id, type, x, n) ==
    [event_id |-> id, type |-> type, execution_id |-> x, sequence |-> n]

\* Two executions; the second envelope of "b" conflicts with the first.
TwoExecutions == {"x", "y"}
Mixed == {Envelope("a", "STARTED", "x", 0), Envelope("b", "COMPLETED", "x", 1),
          Envelope("b", "FAILED", "y", 1)}

Everything == [types |-> {"STARTED", "COMPLETED", "FAILED"}, executions |-> TwoExecutions]
OnlyX == [types |-> {"STARTED", "COMPLETED", "FAILED"}, executions |-> {"x"}]

TwoFilters == {Everything, OnlyX}

Swap == Permutations(Threads)
=============================================================================
