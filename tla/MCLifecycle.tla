---------------------------- MODULE MCLifecycle ----------------------------
(* Small instances of Lifecycle for TLC.                                   *)
EXTENDS Lifecycle, FiniteSets, TLC

CONSTANTS e1, e2, c1, c2, x1, x2

Of(ids) == [t \in Threads |-> IF t \in ids THEN x2 ELSE x1]

\* A duplicate call beside a cancellation, and an execution of its own beside
\* one that is cancelled twice.
Racing == {Of({c2}), Of({e2})}

\* Every executor has its own id; cancellers meet on one or go to both.
Own == {Of({e2}), Of({e2, c2})}

\* One execution, cancelled once.
One == {Of({})}
=============================================================================
