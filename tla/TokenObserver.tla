--------------------------- MODULE TokenObserver ---------------------------
(***************************************************************************)
(* The token observer (infuse/observer/observer.py): one summary per       *)
(* execution, aggregated from the token and lifecycle events the bus       *)
(* delivers.  handle_event runs under the observer's lock, so one event is *)
(* one step; threads that publish concurrently make events arrive in any   *)
(* order, and sources beside the bus may hand in the same event again.     *)
(***************************************************************************)
EXTENDS Integers, Sequences, FiniteSets

CONSTANTS
    Executions,   \* execution ids
    Events,       \* the events that may arrive, see EventType below
    None,         \* an absent token count or target
    MaxClears     \* bound: clear calls

Types == {"EXECUTION_STARTED", "TOKEN_OBSERVED", "USAGE_UPDATED",
          "EXECUTION_COMPLETED", "EXECUTION_FAILED"}

Count == Nat \cup {None}

ASSUME ObserverAssumption ==
    /\ None \notin Int
    /\ MaxClears \in Nat
    /\ \A e \in Events :
         /\ e.execution_id \in Executions /\ e.type \in Types /\ e.sequence \in Nat
         /\ e.input \in Count /\ e.output \in Count /\ e.total \in Count
         /\ e.authoritative \in BOOLEAN
    /\ \A e, f \in Events :
         e.event_id = f.event_id /\ e.execution_id = f.execution_id => e = f

VARIABLES
    seen,       \* _seen_events: the events of each execution taken so far
    summaries,  \* _summaries: the token summary of each execution
    cleared     \* how many times the observer was cleared

vars == <<seen, summaries, cleared>>

NewSummary ==
    [input |-> None, output |-> None, total |-> None,
     is_authoritative |-> FALSE, source |-> "UNSPECIFIED", target |-> None,
     events_count |-> 0, last_sequence |-> 0,
     is_finalized |-> FALSE, final_status |-> None, history |-> <<>>]

Init ==
    /\ seen = [x \in Executions |-> {}]
    /\ summaries = [x \in Executions |-> NewSummary]
    /\ cleared = 0

-----------------------------------------------------------------------------
OrZero(n) == IF n = None THEN 0 ELSE n

\* Mutant: an absent count is taken as 0.
Mut_Else(n, old) == OrZero(n)

Else(n, old) == IF n = None THEN old ELSE n

\* A total that is absent or 0 is derived when a component was reported.
DerivedTotal(e) ==
    IF e.total \in {None, 0} /\ ~(e.input = None /\ e.output = None)
    THEN OrZero(e.input) + OrZero(e.output)
    ELSE e.total

Overwrite(s, e) ==
    [s EXCEPT !.input  = Else(e.input, @),
              !.output = Else(e.output, @),
              !.total  = Else(DerivedTotal(e), @),
              !.target = Else(e.target, @)]

Log(s, e, input, output, total, authoritative) ==
    [s EXCEPT !.history = Append(@,
        [event_id |-> e.event_id, input |-> input, output |-> output, total |-> total,
         is_authoritative |-> authoritative])]

Reported(s, e, authoritative) ==
    Log(s, e, e.input, e.output, DerivedTotal(e), authoritative)

_process_execution_started(s, e) == [s EXCEPT !.target = Else(@, e.target)]

\* handle_event has already raised last_sequence to at least e.sequence.
should_update(s, e) ==
    e.authoritative \/ ~s.is_authoritative \/ e.sequence >= s.last_sequence

_process_token_observed(s, e) ==
    LET logged == Reported(s, e, e.authoritative)
    IN IF ~should_update(s, e) THEN logged
       ELSE [Overwrite(logged, e) EXCEPT
                !.is_authoritative = @ \/ e.authoritative,
                !.source = IF e.authoritative THEN "PROVIDER_USAGE"
                           ELSE IF s.is_authoritative THEN @ ELSE "STREAM_ESTIMATE"]

_process_usage_updated(s, e) ==
    [Overwrite(Reported(s, e, e.authoritative), e) EXCEPT
        !.is_authoritative = @ \/ e.authoritative,
        !.source = IF e.authoritative THEN "LIFECYCLE_EVENT" ELSE @]

_process_execution_completed(s, e) ==
    [Overwrite(Reported(s, e, TRUE), e) EXCEPT
        !.is_finalized = TRUE, !.final_status = "COMPLETED",
        !.is_authoritative = TRUE, !.source = "LIFECYCLE_EVENT"]

\* Mutant: a failure marks the source.
Mut_failed_source(s, e) ==
    [Log(s, e, s.input, s.output, s.total, s.is_authoritative) EXCEPT
        !.is_finalized = TRUE, !.final_status = "FAILED", !.source = "FAILED",
        !.target = Else(@, e.target)]

_process_execution_failed(s, e) ==
    [Log(s, e, s.input, s.output, s.total, s.is_authoritative) EXCEPT
        !.is_finalized = TRUE, !.final_status = "FAILED",
        !.target = Else(@, e.target)]

Counted(s, e) ==
    [s EXCEPT !.events_count = @ + 1,
              !.last_sequence = IF @ >= e.sequence THEN @ ELSE e.sequence]

Processed(s, e) ==
    CASE e.type = "EXECUTION_STARTED"   -> _process_execution_started(s, e)
      [] e.type = "TOKEN_OBSERVED"      -> _process_token_observed(s, e)
      [] e.type = "USAGE_UPDATED"       -> _process_usage_updated(s, e)
      [] e.type = "EXECUTION_COMPLETED" -> _process_execution_completed(s, e)
      [] e.type = "EXECUTION_FAILED"    -> _process_execution_failed(s, e)

\* Mutant: replayed events are counted again.
Mut_handle_event(e) ==
    LET x == e.execution_id
    IN /\ seen' = [seen EXCEPT ![x] = @ \cup {e}]
       /\ summaries' = [summaries EXCEPT ![x] = Processed(Counted(@, e), e)]
       /\ UNCHANGED cleared

\* An event id seen before for this execution is ignored.
handle_event(e) ==
    LET x == e.execution_id
    IN /\ e \notin seen[x]
       /\ seen' = [seen EXCEPT ![x] = @ \cup {e}]
       /\ summaries' = [summaries EXCEPT ![x] = Processed(Counted(@, e), e)]
       /\ UNCHANGED cleared

clear ==
    /\ cleared < MaxClears
    /\ cleared' = cleared + 1
    /\ seen' = [x \in Executions |-> {}]
    /\ summaries' = [x \in Executions |-> NewSummary]

Next == (\E e \in Events : handle_event(e)) \/ clear

Spec == Init /\ [][Next]_vars

-----------------------------------------------------------------------------
(***************************************************************************)
(* Properties.                                                             *)
(***************************************************************************)
Sources == {"UNSPECIFIED", "STREAM_ESTIMATE", "PROVIDER_USAGE", "LIFECYCLE_EVENT"}

\* Every variable has its type.
TypeOK ==
    /\ seen \in [Executions -> SUBSET Events]
    /\ cleared \in 0..MaxClears
    /\ DOMAIN summaries = Executions
    /\ \A x \in Executions :
         LET s == summaries[x]
         IN /\ DOMAIN s = DOMAIN NewSummary
            /\ s.input \in Count /\ s.output \in Count /\ s.total \in Count
            /\ s.is_authoritative \in BOOLEAN /\ s.is_finalized \in BOOLEAN
            /\ s.source \in Sources
            /\ s.events_count \in Nat /\ s.last_sequence \in Nat

\* Events that carry counts into the summary.
Carries(e) == e.type \in {"TOKEN_OBSERVED", "USAGE_UPDATED", "EXECUTION_COMPLETED"}

NoFabrication ==
    \A x \in Executions :
        LET s == summaries[x]
            source == {e \in seen[x] : Carries(e)}
        IN /\ s.input # None  => \E e \in source : e.input = s.input
           /\ s.output # None => \E e \in source : e.output = s.output
           /\ s.total # None  => \E e \in source : DerivedTotal(e) = s.total

Vouches(e) ==
    \/ e.type = "EXECUTION_COMPLETED"
    \/ e.type \in {"TOKEN_OBSERVED", "USAGE_UPDATED"} /\ e.authoritative

AuthorityIsEarned ==
    \A x \in Executions :
        /\ summaries[x].is_authoritative <=> \E e \in seen[x] : Vouches(e)
        /\ summaries[x].is_authoritative =>
              summaries[x].source \in {"PROVIDER_USAGE", "LIFECYCLE_EVENT"}

\* In whatever order events arrive: no count is made up, each was reported by
\* an event of this execution or is the total such an event gives; and a
\* summary is authoritative exactly when an authoritative event was taken, and
\* then its source is never that of a stream estimate.
CountsAreEarned == NoFabrication /\ AuthorityIsEarned

\* The history has one record per event that is not a start, whatever is
\* replayed, and the counters of the summary agree with what was taken.
HistoryIsComplete ==
    \A x \in Executions :
        LET s == summaries[x]
        IN /\ {s.history[i].event_id : i \in DOMAIN s.history} =
                {e.event_id : e \in {f \in seen[x] : f.type # "EXECUTION_STARTED"}}
           /\ \A i, j \in DOMAIN s.history :
                s.history[i].event_id = s.history[j].event_id => i = j
           /\ s.events_count = Cardinality(seen[x])
           /\ \A e \in seen[x] : e.sequence <= s.last_sequence

Counts(s) == <<s.input, s.output, s.total>>

Taken(x) == seen'[x] \ seen[x]

Estimate(e) == e.type = "TOKEN_OBSERVED" /\ ~e.authoritative

\* As far as the code keeps that rule: an estimate that arrives behind an
\* event numbered higher leaves the counts of an authoritative summary alone.
DelayedEstimates ==
    [][\A x \in Executions : \A e \in Taken(x) :
         /\ Estimate(e) /\ summaries[x].is_authoritative
         /\ \E f \in seen[x] : f.sequence > e.sequence
         => Counts(summaries'[x]) = Counts(summaries[x])]_vars

\* Once an authoritative usage observation is recorded, subsequent or delayed
\* stream estimates do not overwrite the authoritative summary counts.
Supersession ==
    [][\A x \in Executions : \A e \in Taken(x) :
         Estimate(e) /\ summaries[x].is_authoritative =>
            Counts(summaries'[x]) = Counts(summaries[x])]_vars
=============================================================================
