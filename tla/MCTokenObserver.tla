-------------------------- MODULE MCTokenObserver --------------------------
(* Small instances of TokenObserver for TLC.                               *)
EXTENDS TokenObserver, TLC

CONSTANTS x1, x2, p1, p2

Event(x, id, n, type, authoritative, input, output, total, target) ==
    [execution_id |-> x, event_id |-> id, sequence |-> n, type |-> type,
     authoritative |-> authoritative, input |-> input, output |-> output,
     total |-> total, target |-> target]

\* One streamed execution: estimates below, between and above the sequence
\* numbers of its authoritative events; some events are partial.
OneStream ==
    {Event(x1, "start", 0, "EXECUTION_STARTED", FALSE, None, None, None, p1),
     Event(x1, "est1", 1, "TOKEN_OBSERVED", FALSE, 10, 2, None, None),
     Event(x1, "use", 2, "TOKEN_OBSERVED", TRUE, 11, None, None, p2),
     Event(x1, "est2", 3, "TOKEN_OBSERVED", FALSE, None, 5, None, None),
     Event(x1, "total", 4, "USAGE_UPDATED", TRUE, None, None, 20, None),
     Event(x1, "guess", 4, "USAGE_UPDATED", FALSE, 9, 9, 0, None),
     Event(x1, "done", 5, "EXECUTION_COMPLETED", FALSE, 12, 7, 19, p2),
     Event(x1, "fail", 5, "EXECUTION_FAILED", FALSE, 3, 3, 6, p1)}

\* Beside it, a second execution that reuses two of its event ids.
SharedIds ==
    {Event(x2, "use", 2, "TOKEN_OBSERVED", TRUE, 4, 1, None, None),
     Event(x2, "est2", 1, "TOKEN_OBSERVED", FALSE, 3, 0, None, None)}

Streams == OneStream \cup SharedIds
=============================================================================
