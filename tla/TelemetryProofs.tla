-------------------------- MODULE TelemetryProofs --------------------------
(***************************************************************************)
(* Theorems about what reads the events of executions, for any executions, *)
(* events, names, counts, rates, callers and bounds, in whatever order the *)
(* events arrive and however often they are replayed: the token observer   *)
(* (TokenObserver), the tool observer (ToolObserver), the web observer     *)
(* (WebObserver), the economics engine (Economics) and the health engine   *)
(* (HealthEngine).  They have no state in common; the invariant of each is *)
(* about its own state alone.                                              *)
(*                                                                         *)
(* CostsAreEarned follows from what a caller holds between its steps       *)
(* (CallerInv).  HealthAgrees is not inductive: that a provider's totals   *)
(* are its executions' outcomes also needs that no execution changes       *)
(* provider after a terminal event that names one (TerminalProvidersKept), *)
(* that an aggregate with a greatest latency has a least one, and that the *)
(* set of terminal events handled is finite, so that it can be counted.    *)
(***************************************************************************)
EXTENDS TokenObserver, ToolObserver, WebObserver, HealthEngine, Economics,
        WellFoundedInduction, FiniteSetTheorems, SequenceTheorems, TLAPS

-----------------------------------------------------------------------------
(***************************************************************************)
(* Type correctness.                                                       *)
(***************************************************************************)
Targets  == {e.target : e \in Events} \cup {None}
EventIds == {e.event_id : e \in Events}

Entry == [event_id : EventIds, input : Count, output : Count, total : Count,
          is_authoritative : BOOLEAN]

Summary ==
    [input : Count, output : Count, total : Count, is_authoritative : BOOLEAN,
     source : Sources, target : Targets, events_count : Nat, last_sequence : Nat,
     is_finalized : BOOLEAN, final_status : {None, "COMPLETED", "FAILED"},
     history : Seq(Entry)]

\* TypeOK, with the shape of targets and histories; and events stay with the
\* execution they are about.
TypeInv ==
    /\ seen \in [Executions -> SUBSET Events]
    /\ summaries \in [Executions -> Summary]
    /\ cleared \in 0..MaxClears
    /\ \A x \in Executions : \A e \in seen[x] : e.execution_id = x

LEMMA NewType == NewSummary \in Summary
BY ObserverAssumption DEF NewSummary, Summary, Count, Sources, Targets

LEMMA EventType ==
    ASSUME NEW e \in Events
    PROVE  /\ e.execution_id \in Executions /\ e.event_id \in EventIds /\ e.sequence \in Nat
           /\ e.input \in Count /\ e.output \in Count /\ e.total \in Count
           /\ DerivedTotal(e) \in Count
           /\ e.target \in Targets /\ e.authoritative \in BOOLEAN /\ e.type \in Types
<1>1. OrZero(e.input) \in Nat /\ OrZero(e.output) \in Nat
    BY ObserverAssumption DEF OrZero, Count
<1>2. OrZero(e.input) + OrZero(e.output) \in Nat
    BY <1>1
<1>3. DerivedTotal(e) \in Count
    BY <1>2, ObserverAssumption DEF DerivedTotal, Count
<1> QED
    BY <1>3, ObserverAssumption DEF EventIds, Targets

LEMMA CountedEffect ==
    ASSUME NEW s \in Summary, NEW e \in Events
    PROVE  /\ Counted(s, e) \in Summary
           /\ Counted(s, e).events_count = s.events_count + 1
           /\ Counted(s, e).last_sequence >= s.last_sequence
           /\ Counted(s, e).last_sequence >= e.sequence
           /\ Counted(s, e).history = s.history
           /\ Counted(s, e).input = s.input
           /\ Counted(s, e).output = s.output
           /\ Counted(s, e).total = s.total
           /\ Counted(s, e).is_authoritative = s.is_authoritative
           /\ Counted(s, e).source = s.source
<1> DEFINE n == IF s.last_sequence >= e.sequence THEN s.last_sequence ELSE e.sequence
<1>1. s.events_count + 1 \in Nat /\ n \in Nat /\ n >= s.last_sequence /\ n >= e.sequence
    BY EventType DEF Summary
<1>2. Counted(s, e) = [s EXCEPT !.events_count = s.events_count + 1, !.last_sequence = n]
    BY DEF Counted, Summary
<1> HIDE DEF n
<1> QED
    BY <1>1, <1>2 DEF Summary

\* What becomes of the rest of a summary when its history gets an entry.
Logged(s, e, t) ==
    \E h \in Entry : h.event_id = e.event_id /\ t.history = Append(s.history, h)

Same(s, t) ==
    /\ t.is_authoritative = s.is_authoritative
    /\ t.source = s.source
    /\ t.events_count = s.events_count
    /\ t.last_sequence = s.last_sequence

LEMMA LogEffect ==
    ASSUME NEW s \in Summary, NEW e \in Events,
           NEW i \in Count, NEW o \in Count, NEW n \in Count, NEW a \in BOOLEAN
    PROVE  /\ Log(s, e, i, o, n, a) \in Summary
           /\ Logged(s, e, Log(s, e, i, o, n, a))
           /\ Same(s, Log(s, e, i, o, n, a))
           /\ Log(s, e, i, o, n, a).input = s.input
           /\ Log(s, e, i, o, n, a).output = s.output
           /\ Log(s, e, i, o, n, a).total = s.total
<1> DEFINE h == [event_id |-> e.event_id, input |-> i, output |-> o, total |-> n,
                 is_authoritative |-> a]
           t == Log(s, e, i, o, n, a)
<1>1. h \in Entry /\ h.event_id = e.event_id
    BY EventType DEF Entry
<1>2. t = [s EXCEPT !.history = Append(s.history, h)]
    BY DEF Log, Summary
<1>3. Append(s.history, h) \in Seq(Entry)
    BY <1>1 DEF Summary
<1> HIDE DEF h, t
<1>4. /\ t \in Summary /\ Same(s, t) /\ t.history = Append(s.history, h)
      /\ t.input = s.input /\ t.output = s.output /\ t.total = s.total
    BY <1>2, <1>3 DEF Summary, Same
<1>5. Logged(s, e, t)
    BY <1>1, <1>4 DEF Logged
<1> QED
    BY <1>4, <1>5 DEF t

\* What a report that is taken over does.
LEMMA TakenEffect ==
    ASSUME NEW s \in Summary, NEW e \in Events, NEW a \in BOOLEAN
    PROVE  /\ Reported(s, e, a) \in Summary
           /\ Logged(s, e, Reported(s, e, a))
           /\ Same(s, Reported(s, e, a))
           /\ Reported(s, e, a).input = s.input
           /\ Reported(s, e, a).output = s.output
           /\ Reported(s, e, a).total = s.total
           /\ Overwrite(Reported(s, e, a), e) \in Summary
           /\ Logged(s, e, Overwrite(Reported(s, e, a), e))
           /\ Same(s, Overwrite(Reported(s, e, a), e))
           /\ Overwrite(Reported(s, e, a), e).input \in {s.input, e.input}
           /\ Overwrite(Reported(s, e, a), e).output \in {s.output, e.output}
           /\ Overwrite(Reported(s, e, a), e).total \in {s.total, DerivedTotal(e)}
<1> DEFINE r == Reported(s, e, a)
           t == Overwrite(r, e)
<1>1. e.input \in Count /\ e.output \in Count /\ DerivedTotal(e) \in Count
    BY EventType
<1>2. /\ r \in Summary /\ Logged(s, e, r) /\ Same(s, r)
      /\ r.input = s.input /\ r.output = s.output /\ r.total = s.total
    BY <1>1, LogEffect DEF Reported
<1> HIDE DEF r
<1> DEFINE i == Else(e.input, r.input)
           o == Else(e.output, r.output)
           n == Else(DerivedTotal(e), r.total)
           g == Else(e.target, r.target)
<1>3. i \in Count /\ o \in Count /\ n \in Count /\ g \in Targets
    BY <1>1, <1>2, EventType DEF Else, Summary
<1>4. i \in {s.input, e.input} /\ o \in {s.output, e.output} /\ n \in {s.total, DerivedTotal(e)}
    BY <1>2 DEF Else
<1>5. t = [r EXCEPT !.input = i, !.output = o, !.total = n, !.target = g]
    BY <1>2 DEF Overwrite, Summary
<1> HIDE DEF i, o, n, g, t
<1>6. /\ t \in Summary /\ t.history = r.history /\ Same(r, t)
      /\ t.input = i /\ t.output = o /\ t.total = n
    BY <1>2, <1>3, <1>5 DEF Summary, Same
<1>7. Same(s, t) /\ Logged(s, e, t)
    BY <1>2, <1>6 DEF Same, Logged
<1> QED
    BY <1>2, <1>4, <1>6, <1>7 DEF r, t

\* What handling an event may do to a summary.
Effect(s, e, t) ==
    /\ t \in Summary
    /\ t.events_count = s.events_count
    /\ t.last_sequence = s.last_sequence
    /\ e.type = "EXECUTION_STARTED" => t.history = s.history
    /\ e.type # "EXECUTION_STARTED" => Logged(s, e, t)
    /\ t.input # s.input => Carries(e) /\ t.input = e.input
    /\ t.output # s.output => Carries(e) /\ t.output = e.output
    /\ t.total # s.total => Carries(e) /\ t.total = DerivedTotal(e)
    /\ t.is_authoritative <=> s.is_authoritative \/ Vouches(e)
    /\ t.is_authoritative =>
          \/ t.source \in {"PROVIDER_USAGE", "LIFECYCLE_EVENT"}
          \/ s.is_authoritative /\ t.source = s.source

\* The mark a handler leaves on the summary o it has brought up to date.
LEMMA MarkEffect ==
    ASSUME NEW s \in Summary, NEW e \in Events, NEW o \in Summary, Carries(e),
           e.type # "EXECUTION_STARTED", Logged(s, e, o), Same(s, o),
           o.input \in {s.input, e.input},
           o.output \in {s.output, e.output},
           o.total \in {s.total, DerivedTotal(e)},
           NEW a \in BOOLEAN, a <=> s.is_authoritative \/ Vouches(e),
           NEW c \in Sources,
           a => \/ c \in {"PROVIDER_USAGE", "LIFECYCLE_EVENT"}
                \/ s.is_authoritative /\ c = s.source
    PROVE  Effect(s, e, [o EXCEPT !.is_authoritative = a, !.source = c])
<1> DEFINE t == [o EXCEPT !.is_authoritative = a, !.source = c]
<1>1. /\ t \in Summary /\ t.is_authoritative = a /\ t.source = c
      /\ t.input = o.input /\ t.output = o.output /\ t.total = o.total
      /\ t.history = o.history
      /\ t.events_count = o.events_count /\ t.last_sequence = o.last_sequence
    BY DEF Summary
<1> HIDE DEF t
<1>2. Logged(s, e, t)
    BY <1>1 DEF Logged
<1>3. Effect(s, e, t)
    BY <1>1, <1>2 DEF Effect, Same
<1> QED
    BY <1>3 DEF t

LEMMA StartedEffect ==
    ASSUME NEW s \in Summary, NEW e \in Events, e.type = "EXECUTION_STARTED"
    PROVE  Effect(s, e, _process_execution_started(s, e))
<1> DEFINE t == _process_execution_started(s, e)
           g == Else(s.target, e.target)
<1>1. g \in Targets
    BY EventType DEF Else, Summary
<1>2. t = [s EXCEPT !.target = g]
    BY DEF _process_execution_started, Summary
<1> HIDE DEF g, t
<1>3. ~Vouches(e)
    BY DEF Vouches
<1>4. /\ t \in Summary /\ t.is_authoritative = s.is_authoritative /\ t.source = s.source
      /\ t.input = s.input /\ t.output = s.output /\ t.total = s.total
      /\ t.history = s.history
      /\ t.events_count = s.events_count /\ t.last_sequence = s.last_sequence
    BY <1>1, <1>2 DEF Summary
<1>5. Effect(s, e, t)
    BY <1>3, <1>4 DEF Effect
<1> QED
    BY <1>5 DEF t

LEMMA ObservedEffect ==
    ASSUME NEW s \in Summary, NEW e \in Events, e.type = "TOKEN_OBSERVED"
    PROVE  Effect(s, e, _process_token_observed(s, e))
<1> DEFINE b == e.authoritative
           r == Reported(s, e, b)
           o == Overwrite(r, e)
           a == o.is_authoritative \/ b
           c == IF b THEN "PROVIDER_USAGE"
                ELSE IF s.is_authoritative THEN o.source ELSE "STREAM_ESTIMATE"
<1>1. b \in BOOLEAN /\ Carries(e) /\ (Vouches(e) <=> b)
    BY EventType DEF Carries, Vouches
<1>2. /\ r \in Summary /\ Logged(s, e, r) /\ Same(s, r)
      /\ r.input = s.input /\ r.output = s.output /\ r.total = s.total
      /\ o \in Summary /\ Logged(s, e, o) /\ Same(s, o)
      /\ o.input \in {s.input, e.input}
      /\ o.output \in {s.output, e.output}
      /\ o.total \in {s.total, DerivedTotal(e)}
    BY <1>1, TakenEffect
<1>3. CASE ~should_update(s, e)
  <2>1. _process_token_observed(s, e) = r
      BY <1>3 DEF _process_token_observed
  <2>2. s.is_authoritative /\ ~Vouches(e)
      BY <1>1, <1>3 DEF should_update, Summary
  <2> HIDE DEF r
  <2>3. Effect(s, e, r)
      BY <1>2, <2>2 DEF Effect, Same
  <2> QED
      BY <2>1, <2>3
<1>4. CASE should_update(s, e)
  <2>1. _process_token_observed(s, e) = [o EXCEPT !.is_authoritative = a, !.source = c]
      BY <1>2, <1>4 DEF _process_token_observed, Summary
  <2> HIDE DEF r, o
  <2>2. a \in BOOLEAN /\ (a <=> s.is_authoritative \/ Vouches(e))
      BY <1>1, <1>2 DEF Summary, Same
  <2>3. /\ c \in Sources
        /\ a => \/ c \in {"PROVIDER_USAGE", "LIFECYCLE_EVENT"}
                \/ s.is_authoritative /\ c = s.source
    <3>1. o.source = s.source /\ o.source \in Sources /\ o.is_authoritative = s.is_authoritative
        BY <1>2 DEF Summary, Same
    <3>2. CASE b
        BY <3>2 DEF Sources
    <3>3. CASE ~b /\ s.is_authoritative
      <4>1. c = o.source
          BY <3>3
      <4> QED
          BY <3>1, <3>3, <4>1
    <3>4. CASE ~b /\ ~s.is_authoritative
      <4>1. c = "STREAM_ESTIMATE" /\ ~a
          BY <3>1, <3>4
      <4> QED
          BY <4>1 DEF Sources
    <3> QED
        BY <3>2, <3>3, <3>4
  <2> HIDE DEF a, b, c
  <2>4. Effect(s, e, [o EXCEPT !.is_authoritative = a, !.source = c])
      BY <1>1, <1>2, <2>2, <2>3, MarkEffect
  <2> QED
      BY <2>1, <2>4
<1> QED
    BY <1>3, <1>4

LEMMA UpdatedEffect ==
    ASSUME NEW s \in Summary, NEW e \in Events, e.type = "USAGE_UPDATED"
    PROVE  Effect(s, e, _process_usage_updated(s, e))
<1> DEFINE b == e.authoritative
           o == Overwrite(Reported(s, e, b), e)
           a == o.is_authoritative \/ b
           c == IF b THEN "LIFECYCLE_EVENT" ELSE o.source
<1>1. b \in BOOLEAN /\ Carries(e) /\ (Vouches(e) <=> b)
    BY EventType DEF Carries, Vouches
<1>2. /\ o \in Summary /\ Logged(s, e, o) /\ Same(s, o)
      /\ o.input \in {s.input, e.input}
      /\ o.output \in {s.output, e.output}
      /\ o.total \in {s.total, DerivedTotal(e)}
    BY <1>1, TakenEffect
<1>3. _process_usage_updated(s, e) = [o EXCEPT !.is_authoritative = a, !.source = c]
    BY <1>2 DEF _process_usage_updated, Summary
<1> HIDE DEF o
<1>4. a \in BOOLEAN /\ (a <=> s.is_authoritative \/ Vouches(e))
    BY <1>1, <1>2 DEF Summary, Same
<1>5. /\ c \in Sources
      /\ a => \/ c \in {"PROVIDER_USAGE", "LIFECYCLE_EVENT"}
              \/ s.is_authoritative /\ c = s.source
  <2>1. o.source = s.source /\ o.source \in Sources /\ o.is_authoritative = s.is_authoritative
      BY <1>2 DEF Summary, Same
  <2>2. CASE b
      BY <2>2 DEF Sources
  <2>3. CASE ~b
    <3>1. c = o.source /\ (a <=> s.is_authoritative)
        BY <2>1, <2>3
    <3> QED
        BY <2>1, <3>1
  <2> QED
      BY <2>2, <2>3
<1> HIDE DEF a, b, c
<1>6. Effect(s, e, [o EXCEPT !.is_authoritative = a, !.source = c])
    BY <1>1, <1>2, <1>4, <1>5, MarkEffect
<1> QED
    BY <1>3, <1>6

LEMMA CompletedEffect ==
    ASSUME NEW s \in Summary, NEW e \in Events, e.type = "EXECUTION_COMPLETED"
    PROVE  Effect(s, e, _process_execution_completed(s, e))
<1> DEFINE o == Overwrite(Reported(s, e, TRUE), e)
           p == [o EXCEPT !.is_finalized = TRUE, !.final_status = "COMPLETED"]
<1>1. Carries(e) /\ Vouches(e)
    BY DEF Carries, Vouches
<1>2. /\ o \in Summary /\ Logged(s, e, o) /\ Same(s, o)
      /\ o.input \in {s.input, e.input}
      /\ o.output \in {s.output, e.output}
      /\ o.total \in {s.total, DerivedTotal(e)}
    BY TakenEffect
<1>3. _process_execution_completed(s, e) =
        [p EXCEPT !.is_authoritative = TRUE, !.source = "LIFECYCLE_EVENT"]
    BY <1>2 DEF _process_execution_completed, Summary
<1> HIDE DEF o
<1>4. /\ p \in Summary /\ p.history = o.history /\ Same(o, p)
      /\ p.input = o.input /\ p.output = o.output /\ p.total = o.total
    BY <1>2 DEF Summary, Same
<1> HIDE DEF p
<1>5. Logged(s, e, p) /\ Same(s, p)
    BY <1>2, <1>4 DEF Logged, Same
<1> DEFINE a == TRUE
           c == "LIFECYCLE_EVENT"
<1>6. /\ a \in BOOLEAN /\ (a <=> s.is_authoritative \/ Vouches(e))
      /\ c \in Sources /\ c \in {"PROVIDER_USAGE", "LIFECYCLE_EVENT"}
    BY <1>1 DEF Sources
<1>7. _process_execution_completed(s, e) = [p EXCEPT !.is_authoritative = a, !.source = c]
    BY <1>3
<1>8. /\ p.input \in {s.input, e.input}
      /\ p.output \in {s.output, e.output}
      /\ p.total \in {s.total, DerivedTotal(e)}
    BY <1>2, <1>4
<1> HIDE DEF a, c
<1>9. Effect(s, e, [p EXCEPT !.is_authoritative = a, !.source = c])
    BY <1>1, <1>4, <1>5, <1>6, <1>8, MarkEffect
<1> QED
    BY <1>7, <1>9

LEMMA FailedEffect ==
    ASSUME NEW s \in Summary, NEW e \in Events, e.type = "EXECUTION_FAILED"
    PROVE  Effect(s, e, _process_execution_failed(s, e))
<1> DEFINE r == Log(s, e, s.input, s.output, s.total, s.is_authoritative)
           g == Else(r.target, e.target)
           t == _process_execution_failed(s, e)
<1>1. /\ s.input \in Count /\ s.output \in Count /\ s.total \in Count
      /\ s.is_authoritative \in BOOLEAN /\ ~Vouches(e)
    BY DEF Summary, Vouches
<1>2. /\ r \in Summary /\ Logged(s, e, r) /\ Same(s, r)
      /\ r.input = s.input /\ r.output = s.output /\ r.total = s.total
    BY <1>1, LogEffect
<1>3. t = [r EXCEPT !.is_finalized = TRUE, !.final_status = "FAILED", !.target = g]
    BY <1>2 DEF _process_execution_failed, Summary
<1> HIDE DEF r, t
<1>4. g \in Targets
    BY <1>2, EventType DEF Else, Summary
<1> HIDE DEF g
<1>5. /\ t \in Summary /\ t.history = r.history /\ Same(r, t)
      /\ t.input = r.input /\ t.output = r.output /\ t.total = r.total
    BY <1>2, <1>3, <1>4 DEF Summary, Same
<1>6. Logged(s, e, t)
    BY <1>2, <1>5 DEF Logged
<1>7. Effect(s, e, t)
    BY <1>1, <1>2, <1>5, <1>6 DEF Effect, Same
<1> QED
    BY <1>7 DEF t

LEMMA ProcessedEffect ==
    ASSUME NEW s \in Summary, NEW e \in Events
    PROVE  Effect(s, e, Processed(s, e))
<1>1. e.type \in Types
    BY EventType
<1>2. CASE e.type = "EXECUTION_STARTED"
    BY <1>2, StartedEffect DEF Processed
<1>3. CASE e.type = "TOKEN_OBSERVED"
    BY <1>3, ObservedEffect DEF Processed
<1>4. CASE e.type = "USAGE_UPDATED"
    BY <1>4, UpdatedEffect DEF Processed
<1>5. CASE e.type = "EXECUTION_COMPLETED"
    BY <1>5, CompletedEffect DEF Processed
<1>6. CASE e.type = "EXECUTION_FAILED"
    BY <1>6, FailedEffect DEF Processed
<1> QED
    BY <1>1, <1>2, <1>3, <1>4, <1>5, <1>6 DEF Types

-----------------------------------------------------------------------------
(***************************************************************************)
(* What a summary owes to the events it was made from.                     *)
(***************************************************************************)
Earned(s, S) ==
    /\ s.input # None  => \E e \in S : Carries(e) /\ e.input = s.input
    /\ s.output # None => \E e \in S : Carries(e) /\ e.output = s.output
    /\ s.total # None  => \E e \in S : Carries(e) /\ DerivedTotal(e) = s.total
    /\ s.is_authoritative <=> \E e \in S : Vouches(e)
    /\ s.is_authoritative => s.source \in {"PROVIDER_USAGE", "LIFECYCLE_EVENT"}

Entered(h, S) ==
    /\ \A i \in DOMAIN h :
          \E e \in S : e.type # "EXECUTION_STARTED" /\ e.event_id = h[i].event_id
    /\ \A e \in S : e.type # "EXECUTION_STARTED" =>
          \E i \in DOMAIN h : h[i].event_id = e.event_id
    /\ \A i, j \in DOMAIN h : h[i].event_id = h[j].event_id => i = j

Tallied(s, S) ==
    /\ IsFiniteSet(S)
    /\ s.events_count = Cardinality(S)
    /\ \A e \in S : e.sequence <= s.last_sequence

\* The inductive invariant: a summary is earned from, and complete for, the
\* set of events its execution has taken.
SummaryInv ==
    \A x \in Executions :
        /\ Earned(summaries[x], seen[x])
        /\ Entered(summaries[x].history, seen[x])
        /\ Tallied(summaries[x], seen[x])

\* A fresh summary owes nothing.
LEMMA FreshSummary ==
    /\ Earned(NewSummary, {})
    /\ Entered(NewSummary.history, {})
    /\ Tallied(NewSummary, {})
<1>1. /\ NewSummary.input = None /\ NewSummary.output = None /\ NewSummary.total = None
      /\ NewSummary.is_authoritative = FALSE /\ NewSummary.events_count = 0
      /\ NewSummary.history = <<>>
    BY DEF NewSummary
<1>2. IsFiniteSet({}) /\ Cardinality({}) = 0
    BY FS_EmptySet
<1>3. DOMAIN NewSummary.history = {}
    BY <1>1
<1> QED
    BY <1>1, <1>2, <1>3 DEF Earned, Entered, Tallied

LEMMA EarnedStep ==
    ASSUME NEW s \in Summary, NEW S \in SUBSET Events, NEW e \in Events, NEW t,
           Effect(s, e, t), Earned(s, S)
    PROVE  Earned(t, S \cup {e})
<1>1. t.input # None => \E f \in S \cup {e} : Carries(f) /\ f.input = t.input
    BY DEF Effect, Earned
<1>2. t.output # None => \E f \in S \cup {e} : Carries(f) /\ f.output = t.output
    BY DEF Effect, Earned
<1>3. t.total # None => \E f \in S \cup {e} : Carries(f) /\ DerivedTotal(f) = t.total
    BY DEF Effect, Earned
<1>4. t.is_authoritative <=> \E f \in S \cup {e} : Vouches(f)
    BY DEF Effect, Earned
<1>5. t.is_authoritative => t.source \in {"PROVIDER_USAGE", "LIFECYCLE_EVENT"}
    BY DEF Effect, Earned
<1> QED
    BY <1>1, <1>2, <1>3, <1>4, <1>5 DEF Earned

LEMMA EnteredStep ==
    ASSUME NEW s \in Summary, NEW S \in SUBSET Events, NEW e \in Events, NEW t,
           Effect(s, e, t), Entered(s.history, S),
           \A f \in S : f.event_id # e.event_id
    PROVE  Entered(t.history, S \cup {e})
<1>1. CASE e.type = "EXECUTION_STARTED"
    BY <1>1 DEF Effect, Entered
<1>2. CASE e.type # "EXECUTION_STARTED"
  <2>1. PICK h \in Entry : h.event_id = e.event_id /\ t.history = Append(s.history, h)
      BY <1>2 DEF Effect, Logged
  <2> DEFINE old == s.history
             new == t.history
             n == Len(s.history)
  <2>2. /\ old \in Seq(Entry) /\ n \in Nat /\ DOMAIN old = 1..n
        /\ DOMAIN new = 1..(n + 1) /\ new[n + 1] = h
        /\ \A i \in 1..n : new[i] = old[i]
      BY <2>1 DEF Summary
  <2>3. \A i \in DOMAIN new : i = n + 1 \/ i \in DOMAIN old
      BY <2>2
  <2>4. \A i \in DOMAIN old : i \in DOMAIN new /\ new[i] = old[i] /\ i # n + 1
      BY <2>2
  <2>5. n + 1 \in DOMAIN new /\ new[n + 1].event_id = e.event_id
      BY <2>1, <2>2
  <2> HIDE DEF old, new, n
  <2>6. Entered(old, S)
      BY DEF old
  <2>7. \A i \in DOMAIN old : old[i].event_id # e.event_id
      BY <2>6 DEF Entered
  <2>8. \A i \in DOMAIN new :
           \E f \in S \cup {e} : f.type # "EXECUTION_STARTED" /\ f.event_id = new[i].event_id
      BY <1>2, <2>3, <2>4, <2>5, <2>6 DEF Entered
  <2>9. \A f \in S \cup {e} : f.type # "EXECUTION_STARTED" =>
           \E i \in DOMAIN new : new[i].event_id = f.event_id
      BY <2>4, <2>5, <2>6 DEF Entered
  <2>10. \A i, j \in DOMAIN new : new[i].event_id = new[j].event_id => i = j
      BY <2>3, <2>4, <2>5, <2>6, <2>7 DEF Entered
  <2> QED
      BY <2>8, <2>9, <2>10 DEF Entered, new
<1> QED
    BY <1>1, <1>2

\* What a step that takes e does to the summary of its execution.
LEMMA TakeStep ==
    ASSUME NEW s \in Summary, NEW S \in SUBSET Events, NEW e \in Events, e \notin S,
           \A f \in S : f.execution_id = e.execution_id,
           Earned(s, S), Entered(s.history, S), Tallied(s, S)
    PROVE  /\ Processed(Counted(s, e), e) \in Summary
           /\ Earned(Processed(Counted(s, e), e), S \cup {e})
           /\ Entered(Processed(Counted(s, e), e).history, S \cup {e})
           /\ Tallied(Processed(Counted(s, e), e), S \cup {e})
<1> DEFINE c == Counted(s, e)
           t == Processed(c, e)
<1>1. /\ c \in Summary
      /\ c.events_count = s.events_count + 1
      /\ c.last_sequence >= s.last_sequence
      /\ c.last_sequence >= e.sequence
      /\ c.history = s.history
      /\ c.input = s.input /\ c.output = s.output /\ c.total = s.total
      /\ c.is_authoritative = s.is_authoritative /\ c.source = s.source
    BY CountedEffect
<1> HIDE DEF c
<1>2. Effect(c, e, t)
    BY <1>1, ProcessedEffect
<1> HIDE DEF t
<1>3. Earned(c, S) /\ Entered(c.history, S)
    BY <1>1 DEF Earned
<1>4. \A f \in S : f.event_id # e.event_id
    BY ObserverAssumption
<1>5. Earned(t, S \cup {e}) /\ Entered(t.history, S \cup {e})
    BY <1>1, <1>2, <1>3, <1>4, EarnedStep, EnteredStep
<1>6. IsFiniteSet(S \cup {e}) /\ Cardinality(S \cup {e}) = Cardinality(S) + 1
    BY FS_AddElement DEF Tallied
<1>7. \A f \in S \cup {e} : f.sequence <= t.last_sequence
  <2>1. /\ s.last_sequence \in Nat /\ c.last_sequence \in Nat
        /\ t.last_sequence = c.last_sequence
      BY <1>1, <1>2 DEF Summary, Effect
  <2>2. \A f \in S \cup {e} : f.sequence \in Nat
      BY EventType
  <2> QED
      BY <1>1, <2>1, <2>2 DEF Tallied
<1>8. Tallied(t, S \cup {e})
    BY <1>1, <1>2, <1>6, <1>7 DEF Tallied, Effect
<1> QED
    BY <1>2, <1>5, <1>8 DEF Effect, t, c

-----------------------------------------------------------------------------
(***************************************************************************)
(* The invariant.                                                          *)
(***************************************************************************)
LEMMA InitSummary == Init => TypeInv /\ SummaryInv
BY NewType, FreshSummary, ObserverAssumption DEF Init, TypeInv, SummaryInv

LEMMA HandleSummary ==
    ASSUME TypeInv, SummaryInv, NEW e \in Events, handle_event(e)
    PROVE  TypeInv' /\ SummaryInv'
<1> DEFINE x == e.execution_id
           t == Processed(Counted(summaries[x], e), e)
           S == seen[x] \cup {e}
<1>1. x \in Executions /\ seen[x] \in SUBSET Events /\ summaries[x] \in Summary
    BY EventType DEF TypeInv
<1>2. /\ e \notin seen[x]
      /\ seen' = [seen EXCEPT ![x] = S]
      /\ summaries' = [summaries EXCEPT ![x] = t]
      /\ cleared' = cleared
    BY <1>1 DEF handle_event, TypeInv
<1>3. t \in Summary /\ Earned(t, S) /\ Entered(t.history, S) /\ Tallied(t, S)
    BY <1>1, <1>2, TakeStep DEF TypeInv, SummaryInv
<1>4. S \in SUBSET Events /\ \A f \in S : f.execution_id = x
    BY <1>1 DEF TypeInv
<1> HIDE DEF x, t, S
<1>5. TypeInv'
    BY <1>1, <1>2, <1>3, <1>4 DEF TypeInv
<1>6. /\ seen'[x] = S /\ summaries'[x] = t
      /\ \A y \in Executions : y # x => seen'[y] = seen[y] /\ summaries'[y] = summaries[y]
    BY <1>1, <1>2 DEF TypeInv
<1>7. SummaryInv'
    BY <1>3, <1>6 DEF SummaryInv
<1> QED
    BY <1>5, <1>7

LEMMA NextSummary == TypeInv /\ SummaryInv /\ [Next]_vars => TypeInv' /\ SummaryInv'
<1> SUFFICES ASSUME TypeInv, SummaryInv, [Next]_vars
             PROVE  TypeInv' /\ SummaryInv'
    OBVIOUS
<1>1. CASE UNCHANGED vars
    BY <1>1 DEF vars, TypeInv, SummaryInv
<1>2. ASSUME NEW e \in Events, handle_event(e)
      PROVE  TypeInv' /\ SummaryInv'
    BY <1>2, HandleSummary
<1>3. CASE clear
    BY <1>3, NewType, FreshSummary, ObserverAssumption DEF clear, TypeInv, SummaryInv
<1> QED
    BY <1>1, <1>2, <1>3 DEF Next

\* Type correctness of the observer.
THEOREM TypeCorrect == Spec => []TypeOK
<1>1. TypeInv => TypeOK
  <2> SUFFICES ASSUME TypeInv, NEW x \in Executions
               PROVE  /\ DOMAIN summaries[x] = DOMAIN NewSummary
                      /\ summaries[x].input \in Count /\ summaries[x].output \in Count
                      /\ summaries[x].total \in Count
                      /\ summaries[x].is_authoritative \in BOOLEAN
                      /\ summaries[x].is_finalized \in BOOLEAN
                      /\ summaries[x].source \in Sources
                      /\ summaries[x].events_count \in Nat
                      /\ summaries[x].last_sequence \in Nat
      BY DEF TypeInv, TypeOK
  <2>1. summaries[x] \in Summary
      BY DEF TypeInv
  <2>2. \A s \in Summary : DOMAIN s = DOMAIN NewSummary
      BY DEF Summary, NewSummary
  <2> QED
      BY <2>1, <2>2 DEF Summary
<1> QED
    BY <1>1, InitSummary, NextSummary, PTL DEF Spec

\* In whatever order events arrive, every count of a summary was reported for
\* its execution, and it is authoritative exactly when it was vouched for.
THEOREM CountsStayEarned == Spec => []CountsAreEarned
<1>1. SummaryInv => CountsAreEarned
    BY DEF SummaryInv, Earned, CountsAreEarned, NoFabrication, AuthorityIsEarned
<1> QED
    BY <1>1, InitSummary, NextSummary, PTL DEF Spec

\* However events are reordered and replayed, the history has one record for
\* each that is not a start, and the counters agree with what was taken.
THEOREM HistoryStaysComplete == Spec => []HistoryIsComplete
<1>1. SummaryInv => HistoryIsComplete
  <2> SUFFICES ASSUME SummaryInv, NEW x \in Executions
               PROVE  {summaries[x].history[i].event_id : i \in DOMAIN summaries[x].history} =
                         {e.event_id : e \in {f \in seen[x] : f.type # "EXECUTION_STARTED"}}
      BY DEF SummaryInv, Entered, Tallied, HistoryIsComplete
  <2>1. Entered(summaries[x].history, seen[x])
      BY DEF SummaryInv
  <2> QED
      BY <2>1 DEF Entered
<1> QED
    BY <1>1, InitSummary, NextSummary, PTL DEF Spec

\* An estimate numbered below the sequence of the summary it meets, if that is
\* authoritative, is logged and no more.
LEMMA DelayedIsLogged ==
    ASSUME NEW s \in Summary, NEW e \in Events, Estimate(e), s.is_authoritative,
           e.sequence < s.last_sequence
    PROVE  Counts(Processed(Counted(s, e), e)) = Counts(s)
<1> DEFINE c == Counted(s, e)
<1>1. /\ c \in Summary /\ c.last_sequence >= s.last_sequence
      /\ c.input = s.input /\ c.output = s.output /\ c.total = s.total
      /\ c.is_authoritative = s.is_authoritative
    BY CountedEffect
<1> HIDE DEF c
<1>2. ~(e.sequence >= c.last_sequence)
    BY <1>1, EventType DEF Summary
<1>3. ~should_update(c, e)
    BY <1>1, <1>2 DEF should_update, Estimate
<1>4. Processed(c, e) = Reported(c, e, e.authoritative)
    BY <1>3 DEF Processed, _process_token_observed, Estimate
<1>5. /\ Reported(c, e, e.authoritative).input = c.input
      /\ Reported(c, e, e.authoritative).output = c.output
      /\ Reported(c, e, e.authoritative).total = c.total
    BY <1>1, EventType, TakenEffect
<1> QED
    BY <1>1, <1>4, <1>5 DEF Counts, c

\* Of the documented rule that estimates never overwrite authoritative counts
\* this is the half the code keeps: whatever arrived before and however often,
\* an estimate behind an event already taken leaves them alone.
THEOREM DelayedNeverOverwrite == Spec => DelayedEstimates
<1>1. ASSUME TypeInv, SummaryInv, [Next]_vars
      PROVE  [\A x \in Executions : \A e \in Taken(x) :
                 /\ Estimate(e) /\ summaries[x].is_authoritative
                 /\ \E f \in seen[x] : f.sequence > e.sequence
                 => Counts(summaries'[x]) = Counts(summaries[x])]_vars
  <2> SUFFICES ASSUME NEW x \in Executions, NEW e \in Taken(x),
                      Estimate(e), summaries[x].is_authoritative,
                      NEW f \in seen[x], f.sequence > e.sequence
               PROVE  Counts(summaries'[x]) = Counts(summaries[x])
      OBVIOUS
  <2>1. /\ summaries[x] \in Summary /\ seen[x] \subseteq Events
        /\ Tallied(summaries[x], seen[x])
      BY <1>1 DEF TypeInv, SummaryInv
  <2>2. e \notin seen[x] /\ e \in seen'[x]
      BY DEF Taken
  <2>3. PICK g \in Events : handle_event(g)
    <3>1. ~UNCHANGED vars
        BY <2>2 DEF vars
    <3>2. ~clear
        BY <2>2 DEF clear
    <3> QED
        BY <1>1, <3>1, <3>2 DEF Next
  <2>4. g = e /\ x = e.execution_id
      BY <1>1, <2>2, <2>3, EventType DEF handle_event, TypeInv
  <2>5. summaries'[x] = Processed(Counted(summaries[x], e), e)
      BY <1>1, <2>3, <2>4 DEF handle_event, TypeInv
  <2>6. e \in Events /\ e.sequence < summaries[x].last_sequence
    <3>1. f.sequence <= summaries[x].last_sequence
        BY <2>1 DEF Tallied
    <3>2. f.sequence \in Nat /\ e.sequence \in Nat /\ summaries[x].last_sequence \in Nat
        BY <2>1, <2>3, <2>4, EventType DEF Summary
    <3> QED
        BY <2>3, <2>4, <3>1, <3>2
  <2> QED
      BY <2>1, <2>5, <2>6, DelayedIsLogged
<1> QED
    BY <1>1, InitSummary, NextSummary, PTL DEF Spec, DelayedEstimates

-----------------------------------------------------------------------------
(***************************************************************************)
(* Facts about numbers and counts that tools and web requests share.       *)
(***************************************************************************)
\* Every set of numbers has a least one.
LEMMA LeastElement ==
    ASSUME NEW S, S \subseteq Nat, S # {}
    PROVE  \E m \in S : \A n \in S : m <= n
<1> DEFINE R == OpToRel(<, Nat)
<1>1. IsWellFoundedOn(R, Nat)
    BY NatLessThanWellFounded
<1>2. PICK m \in S : \A n \in S : <<n, m>> \notin R
  <2> HIDE DEF R
  <2> QED
      BY <1>1, WFMin
<1>3. ASSUME NEW n \in S
      PROVE  m <= n
  <2>1. <<n, m>> \in Nat \X Nat
      OBVIOUS
  <2>2. ~ (n < m)
      BY <1>2, <2>1 DEF OpToRel
  <2> QED
      BY <2>2
<1> QED
    BY <1>2, <1>3

\* An index found by a search is one that passes the test, and the first.
LEMMA FirstIndex ==
    ASSUME NEW n \in Nat, NEW I \in SUBSET (1 .. n), NEW m, m = (IF I # {} THEN Min(I) ELSE 0)
    PROVE  IF I = {} THEN m = 0 ELSE m \in I /\ m # 0
<1>1. ASSUME I # {}
      PROVE  m \in I
  <2>1. I \subseteq Nat
      OBVIOUS
  <2>2. PICK k \in I : \A j \in I : k <= j
      BY <1>1, <2>1, LeastElement
  <2> QED
      BY <1>1, <2>2 DEF Min
<1>2. CASE I = {}
    BY <1>2
<1>3. CASE I # {}
  <2>1. m \in 1 .. n
      BY <1>1, <1>3
  <2> QED
      BY <1>1, <1>3, <2>1
<1> QED
    BY <1>2, <1>3

\* A, B and C are disjoint and make up 1 .. n.
Parts(n, A, B, C) == A \cup B \cup C = 1 .. n /\ A \cap B = {} /\ (A \cup B) \cap C = {}

\* Every number is counted once.
LEMMA ThreeParts ==
    ASSUME NEW n \in Nat, NEW A, NEW B, NEW C, Parts(n, A, B, C)
    PROVE  /\ n = Cardinality(A) + Cardinality(B) + Cardinality(C)
           /\ \A D : D = A \cup B => Cardinality(D) = Cardinality(A) + Cardinality(B)
           /\ Cardinality(A) \in Nat /\ Cardinality(B) \in Nat /\ Cardinality(C) \in Nat
           /\ Cardinality(C) = 0 <=> C = {}
<1> USE DEF Parts
<1>1. IsFiniteSet(1 .. n) /\ Cardinality(1 .. n) = n
    BY FS_Interval
<1>2. A \in SUBSET (1 .. n) /\ B \in SUBSET (1 .. n) /\ C \in SUBSET (1 .. n)
    OBVIOUS
<1>3. IsFiniteSet(A) /\ IsFiniteSet(B) /\ IsFiniteSet(C)
    BY <1>1, <1>2, FS_Subset
<1>4. /\ IsFiniteSet(A \cup B)
      /\ Cardinality(A \cup B) = Cardinality(A) + Cardinality(B) - Cardinality(A \cap B)
    BY <1>3, FS_Union
<1>5. Cardinality((A \cup B) \cup C)
        = Cardinality(A \cup B) + Cardinality(C) - Cardinality((A \cup B) \cap C)
    BY <1>3, <1>4, FS_Union
<1>6. Cardinality({}) = 0
    BY FS_EmptySet
<1>7. Cardinality(A) \in Nat /\ Cardinality(B) \in Nat /\ Cardinality(C) \in Nat
    BY <1>3, FS_CardinalityType
<1>8. Cardinality(C) = 0 <=> C = {}
    BY <1>3, FS_EmptySet
<1> DEFINE AB == A \cup B
           ABC == AB \cup C
<1>9. AB \cap C = {} /\ ABC = 1 .. n /\ A \cap B = {}
    OBVIOUS
<1>10. Cardinality(A \cap B) = 0 /\ Cardinality(AB \cap C) = 0 /\ Cardinality(ABC) = n
    BY <1>1, <1>6, <1>9, Zenon
<1>11. Cardinality(AB) = Cardinality(A) + Cardinality(B) - Cardinality(A \cap B)
    BY <1>4
<1>12. Cardinality(ABC) = Cardinality(AB) + Cardinality(C) - Cardinality(AB \cap C)
    BY <1>5
<1> HIDE DEF AB, ABC
<1>13. /\ n = Cardinality(A) + Cardinality(B) + Cardinality(C)
       /\ Cardinality(AB) = Cardinality(A) + Cardinality(B)
    BY <1>7, <1>10, <1>11, <1>12
<1>14. \A D : D = A \cup B => Cardinality(D) = Cardinality(A) + Cardinality(B)
    BY <1>13 DEF AB
<1> QED
    BY <1>7, <1>8, <1>13, <1>14

-----------------------------------------------------------------------------
(***************************************************************************)
(* Tool invocations.                                                       *)
(***************************************************************************)
ToolEventIds == {e.event_id : e \in ToolEvents}
ToolNames == {e.tool : e \in ToolEvents}
InvocationKeys ==
    {"id", "call", "comp"} \X ({e.call_id : e \in ToolEvents} \cup ToolEventIds)
ToolTimes == {e.time : e \in ToolEvents} \cup {NoTool}
ToolDurations ==
    {ToolDuration(e.duration) : e \in ToolEvents}
      \cup {Elapsed(from, to) : from \in ToolTimes, to \in ToolTimes} \cup {NoTool}
Statuses == {"CALLED", "COMPLETED", "FAILED"}

Invocation ==
    [key : InvocationKeys, tool : ToolNames, status : Statuses, success : BOOLEAN \cup {NoTool},
     failed : BOOLEAN, duration : ToolDurations, started : ToolTimes, completed : ToolTimes,
     call_event : ToolEventIds \cup {NoTool}, completion_event : ToolEventIds \cup {NoTool}]

\* The events with call id k among those of execution x that were seen.
SeenWith(x, past, type, k) ==
    {e \in ToolEvents : e.execution_id = x /\ e.event_id \in past /\ e.type = type
                        /\ e.call_id = k /\ k # NoTool}

Calls(x, past, r) == SeenWith(x, past, "TOOL_CALLED", r.key[2])
Completions(x, past, r) == SeenWith(x, past, "TOOL_COMPLETED", r.key[2])

\* The completions without a call id that were seen.
Nameless(x, past) ==
    {p \in ToolEvents : p.execution_id = x /\ p.event_id \in past /\ p.type = "TOOL_COMPLETED"
                        /\ p.call_id = NoTool}

\* The completion that has the id of a call of p's tool was seen.
Superseded(x, past, p) ==
    \E d, c \in ToolEvents :
       /\ d.execution_id = x /\ d.event_id \in past /\ d.type = "TOOL_COMPLETED"
       /\ c.execution_id = x /\ c.event_id \in past /\ c.type = "TOOL_CALLED"
       /\ d.call_id = c.call_id /\ c.call_id # NoTool /\ p.tool \in {c.tool, Unknown}

\* An invocation with a call id tells the call and the completion of that id.
Told(x, past, r) ==
    /\ Calls(x, past, r) = {} => r.call_event = NoTool /\ Completions(x, past, r) # {}
    /\ \A c \in Calls(x, past, r) :
         /\ r.call_event = c.event_id
         /\ Completions(x, past, r) = {} => r.tool = c.tool
    /\ \A d \in Completions(x, past, r) :
         /\ r.completion_event = d.event_id /\ r.success = Succeeded(d) /\ r.status # "CALLED"
         /\ d.tool # Unknown => r.tool = d.tool
         /\ d.tool = Unknown => /\ Calls(x, past, r) = {} => r.tool = Unknown
                                /\ \A c \in Calls(x, past, r) : r.tool = c.tool

\* What the status of an invocation says.
OutcomeShown(r) ==
    \/ r.status = "CALLED" /\ r.success = NoTool /\ r.completion_event = NoTool
    \/ r.status = "COMPLETED" /\ r.success = TRUE
    \/ r.status = "FAILED" /\ r.success = FALSE

\* An open invocation names the tool of its call.
OpenIsNamed(x, r) ==
    r.status = "CALLED" =>
        \E c \in ToolEvents : /\ c.execution_id = x /\ r.call_event = c.event_id
                              /\ r.tool = c.tool

\* The two events of an invocation agree on its tool, unless an id joins them.
EventsAgree(x, r) ==
    \A c, d \in ToolEvents :
        /\ c.execution_id = x /\ d.execution_id = x
        /\ r.call_event = c.event_id /\ r.completion_event = d.event_id
        /\ d.call_id = NoTool
        => d.tool \in {c.tool, Unknown} \/ c.tool = Unknown

\* An invocation that tells a completion without a call id is one of its tool.
OfItsTool(x, past, r) ==
    \A p \in Nameless(x, past) : r.completion_event = p.event_id =>
        /\ p.tool # Unknown => r.tool = p.tool
        /\ r.key[1] = "id" => \E c \in Calls(x, past, r) : p.tool \in {c.tool, Unknown}

InvocationInv(x, past, r) ==
    /\ r.key[1] = "id" => Told(x, past, r)
    /\ r.key[1] = "call" => r.key[2] \in past
    /\ r.key[1] = "comp" => r.call_event = NoTool
    /\ r.completion_event \in past \cup {NoTool}
    /\ OfItsTool(x, past, r)
    /\ OutcomeShown(r)
    /\ OpenIsNamed(x, r)
    /\ EventsAgree(x, r)

\* All invocations of an execution: one for each call id that was seen, and one
\* at most for each completion.
InvocationsInv(x, past, invs) ==
    /\ invs \in Seq(Invocation)
    /\ \A i \in DOMAIN invs : InvocationInv(x, past, invs[i])
    /\ \A i, j \in DOMAIN invs : invs[i].key[1] = "id" /\ invs[i].key = invs[j].key => i = j
    /\ \A i, j \in DOMAIN invs :
         invs[i].completion_event = invs[j].completion_event
         /\ invs[i].completion_event # NoTool => i = j
    /\ \A e \in ToolEvents :
         e.execution_id = x /\ e.event_id \in past /\ e.call_id # NoTool =>
             \E i \in DOMAIN invs : invs[i].key = <<"id", e.call_id>>
    /\ \A p \in Nameless(x, past) :
         \/ \E i \in DOMAIN invs : invs[i].completion_event = p.event_id
         \/ Superseded(x, past, p)

ActivityInv(x, a) ==
    /\ InvocationsInv(x, a.seen, a.invocations)
    /\ a.summary = _recalculate_summary(a.invocations)

ToolInv ==
    /\ tools = [x \in ToolExecutions |-> tools[x]]
    /\ \A x \in ToolExecutions : ActivityInv(x, tools[x])

-----------------------------------------------------------------------------
LEMMA KeyFound ==
    ASSUME NEW invs \in Seq(Invocation), NEW key
    PROVE  LET i == IndexOfKey(invs, key)
           IN \/ i = 0 /\ \A j \in DOMAIN invs : invs[j].key # key
              \/ i # 0 /\ i \in DOMAIN invs /\ invs[i].key = key
<1> DEFINE I == {j \in 1 .. Len(invs) : invs[j].key = key}
<1>1. IndexOfKey(invs, key) = IF I # {} THEN Min(I) ELSE 0
    BY DEF IndexOfKey, SelectInSeq
<1>2. Len(invs) \in Nat /\ DOMAIN invs = 1 .. Len(invs)
    OBVIOUS
<1>3. IF I = {} THEN IndexOfKey(invs, key) = 0
      ELSE IndexOfKey(invs, key) \in I /\ IndexOfKey(invs, key) # 0
    BY <1>1, <1>2, FirstIndex
<1> QED
    BY <1>2, <1>3

LEMMA OpenFound ==
    ASSUME NEW invs \in Seq(Invocation), NEW e
    PROVE  LET i == OpenMatch(invs, e)
           IN \/ i = 0
              \/ /\ i # 0 /\ i \in DOMAIN invs /\ invs[i].status = "CALLED"
                 /\ e.tool \in {invs[i].tool, Unknown}
<1> DEFINE I == {j \in 1 .. Len(invs) :
                   invs[j].status = "CALLED" /\ e.tool \in {invs[j].tool, Unknown}}
<1>1. OpenMatch(invs, e) = IF I # {} THEN Min(I) ELSE 0
    BY DEF OpenMatch, SelectInSeq
<1>2. Len(invs) \in Nat /\ DOMAIN invs = 1 .. Len(invs)
    OBVIOUS
<1>3. IF I = {} THEN OpenMatch(invs, e) = 0
      ELSE OpenMatch(invs, e) \in I /\ OpenMatch(invs, e) # 0
    BY <1>1, <1>2, FirstIndex
<1> QED
    BY <1>2, <1>3

-----------------------------------------------------------------------------
(***************************************************************************)
(* What an event makes of one invocation.                                  *)
(***************************************************************************)
LEMMA EventTyped ==
    ASSUME NEW e \in ToolEvents
    PROVE  /\ e.event_id \in ToolEventIds /\ e.tool \in ToolNames /\ e.time \in ToolTimes
           /\ e.event_id # NoTool /\ NoTool \in ToolDurations /\ NoTool \in ToolTimes
           /\ ToolDuration(e.duration) \in ToolDurations /\ Succeeded(e) \in BOOLEAN
           /\ e.call_id \in {f.call_id : f \in ToolEvents} \cup ToolEventIds
           /\ \A from, to \in ToolTimes : Elapsed(from, to) \in ToolDurations
BY ToolAssumption DEF ToolEventIds, ToolNames, ToolTimes, ToolDurations, Succeeded

LEMMA NewInvocationIs ==
    ASSUME NEW e \in ToolEvents, NEW key \in InvocationKeys, NEW status \in Statuses
    PROVE  LET r == NewInvocation(e, key, status)
           IN /\ r \in Invocation /\ r.key = key /\ r.tool = e.tool /\ r.status = status
              /\ r.success = NoTool /\ r.call_event = NoTool /\ r.completion_event = NoTool
BY EventTyped DEF NewInvocation, Invocation

LEMMA FirstCallIs ==
    ASSUME NEW e \in ToolEvents
    PROVE  LET r == FirstCall(e)
           IN /\ r \in Invocation /\ r.key = CallKey(e) /\ r.tool = e.tool /\ r.status = "CALLED"
              /\ r.success = NoTool /\ r.call_event = e.event_id /\ r.completion_event = NoTool
<1> DEFINE b == NewInvocation(e, CallKey(e), "CALLED")
           r == [b EXCEPT !.started = e.time, !.call_event = e.event_id]
<1>1. CallKey(e) \in InvocationKeys
    BY EventTyped DEF CallKey, InvocationKeys
<1>2. /\ b \in Invocation /\ b.key = CallKey(e) /\ b.tool = e.tool /\ b.status = "CALLED"
      /\ b.success = NoTool /\ b.call_event = NoTool /\ b.completion_event = NoTool
    BY <1>1, NewInvocationIs DEF Statuses
<1>3. FirstCall(e) = r
    BY DEF FirstCall
<1> HIDE DEF b
<1>4. r \in Invocation
    BY <1>2, EventTyped DEF Invocation
<1>5. /\ r.key = b.key /\ r.tool = b.tool /\ r.status = b.status /\ r.success = b.success
      /\ r.call_event = e.event_id /\ r.completion_event = b.completion_event
    BY <1>2 DEF Invocation
<1> QED
    BY <1>2, <1>3, <1>4, <1>5

LEMMA LateCallIs ==
    ASSUME NEW e \in ToolEvents, NEW r \in Invocation
    PROVE  LET n == LateCall(r, e)
           IN /\ n \in Invocation /\ n.key = r.key /\ n.status = r.status /\ n.success = r.success
              /\ n.completion_event = r.completion_event
              /\ n.call_event = (IF r.call_event = NoTool THEN e.event_id ELSE r.call_event)
              /\ n.tool = (IF r.tool = Unknown THEN e.tool ELSE r.tool)
<1> DEFINE started == IF r.started = NoTool THEN e.time ELSE r.started
           call_event == IF r.call_event = NoTool THEN e.event_id ELSE r.call_event
           tool == IF r.tool = Unknown THEN e.tool ELSE r.tool
           duration == IF r.duration = NoTool /\ r.completed # NoTool
                       THEN Elapsed(started, r.completed) ELSE r.duration
           n == [r EXCEPT !.started = started, !.call_event = call_event, !.tool = tool,
                          !.duration = duration]
<1>1. LateCall(r, e) = n
    BY DEF LateCall
<1>2. started \in ToolTimes /\ call_event \in ToolEventIds \cup {NoTool} /\ tool \in ToolNames
    BY EventTyped DEF Invocation
<1>3. duration \in ToolDurations
    BY <1>2, EventTyped DEF Invocation
<1> HIDE DEF started, call_event, tool, duration
<1>4. n \in Invocation
    BY <1>2, <1>3 DEF Invocation
<1>5. /\ n.key = r.key /\ n.status = r.status /\ n.success = r.success
      /\ n.completion_event = r.completion_event /\ n.call_event = call_event /\ n.tool = tool
    BY DEF Invocation
<1> HIDE DEF n
<1> QED
    BY <1>1, <1>4, <1>5 DEF call_event, tool

LEMMA CompletedIs ==
    ASSUME NEW e \in ToolEvents, NEW r \in Invocation
    PROVE  LET n == Completed(r, e)
           IN /\ n \in Invocation /\ n.key = r.key /\ n.call_event = r.call_event
              /\ n.completion_event = e.event_id /\ n.success = Succeeded(e)
              /\ n.status = (IF Succeeded(e) THEN "COMPLETED" ELSE "FAILED")
              /\ n.tool = (IF e.tool # Unknown THEN e.tool ELSE r.tool)
<1> DEFINE tool == IF e.tool # Unknown THEN e.tool ELSE r.tool
           status == IF Succeeded(e) THEN "COMPLETED" ELSE "FAILED"
           ok == Succeeded(e)
           duration == IF e.duration # NoTool THEN ToolDuration(e.duration)
                       ELSE IF r.started # NoTool THEN Elapsed(r.started, e.time) ELSE r.duration
           n == [r EXCEPT !.completion_event = e.event_id, !.completed = e.time, !.tool = tool,
                          !.status = status, !.success = ok, !.failed = ~ok,
                          !.duration = duration]
<1>1. Completed(r, e) = n
    BY DEF Completed
<1>2. tool \in ToolNames /\ status \in Statuses /\ ok \in BOOLEAN
    BY EventTyped DEF Invocation, Statuses
<1>3. duration \in ToolDurations
    BY EventTyped DEF Invocation
<1> HIDE DEF tool, status, ok, duration
<1>4. n \in Invocation
    BY <1>2, <1>3, EventTyped DEF Invocation
<1>5. /\ n.key = r.key /\ n.call_event = r.call_event /\ n.completion_event = e.event_id
      /\ n.success = ok /\ n.status = status /\ n.tool = tool
    BY DEF Invocation
<1> HIDE DEF n
<1> QED
    BY <1>1, <1>4, <1>5 DEF ok, status, tool

-----------------------------------------------------------------------------
(***************************************************************************)
(* What an event makes of the invocations of its execution.                *)
(***************************************************************************)
\* The events with a call id change only with an event that has this id.
LEMMA SeenGrows ==
    ASSUME NEW e \in ToolEvents, NEW past, e.event_id \notin past
    PROVE  \A type, k :
             /\ SeenWith(e.execution_id, past \cup {e.event_id}, type, k) =
                  SeenWith(e.execution_id, past, type, k) \cup
                    (IF e.type = type /\ e.call_id = k /\ k # NoTool THEN {e} ELSE {})
             /\ e.type = type /\ e.call_id = k => SeenWith(e.execution_id, past, type, k) = {}
<1> SUFFICES ASSUME NEW type, NEW k
             PROVE  /\ SeenWith(e.execution_id, past \cup {e.event_id}, type, k) =
                         SeenWith(e.execution_id, past, type, k) \cup
                           (IF e.type = type /\ e.call_id = k /\ k # NoTool THEN {e} ELSE {})
                    /\ e.type = type /\ e.call_id = k =>
                         SeenWith(e.execution_id, past, type, k) = {}
    OBVIOUS
<1> QED
    BY ToolAssumption DEF SeenWith

LEMMA NamelessGrows ==
    ASSUME NEW e \in ToolEvents, NEW past, e.event_id \notin past
    PROVE  /\ \A p \in Nameless(e.execution_id, past \cup {e.event_id}) :
                \/ p \in Nameless(e.execution_id, past)
                \/ p = e /\ e.type = "TOOL_COMPLETED" /\ e.call_id = NoTool
           /\ \A p \in Nameless(e.execution_id, past) : p.event_id \in past
           /\ \A p : Superseded(e.execution_id, past, p) =>
                       Superseded(e.execution_id, past \cup {e.event_id}, p)
<1>1. \A p \in Nameless(e.execution_id, past \cup {e.event_id}) :
        \/ p \in Nameless(e.execution_id, past)
        \/ p = e /\ e.type = "TOOL_COMPLETED" /\ e.call_id = NoTool
    BY ToolAssumption DEF Nameless
<1>2. \A p \in Nameless(e.execution_id, past) : p.event_id \in past
    BY DEF Nameless
<1>3. \A p : Superseded(e.execution_id, past, p) =>
               Superseded(e.execution_id, past \cup {e.event_id}, p)
    BY DEF Superseded
<1> QED
    BY <1>1, <1>2, <1>3

\* An invocation without the id of an event keeps what it tells.
LEMMA OthersStay ==
    ASSUME NEW e \in ToolEvents, NEW past, e.event_id \notin past,
           NEW r \in Invocation, InvocationInv(e.execution_id, past, r),
           r.key[1] = "id" => e.call_id = NoTool \/ r.key[2] # e.call_id
    PROVE  InvocationInv(e.execution_id, past \cup {e.event_id}, r)
<1> DEFINE x == e.execution_id
           now == past \cup {e.event_id}
<1>1. r.key[1] = "id" => /\ Calls(x, now, r) = Calls(x, past, r)
                         /\ Completions(x, now, r) = Completions(x, past, r)
  <2> SUFFICES ASSUME r.key[1] = "id"
               PROVE  /\ Calls(x, now, r) = Calls(x, past, r)
                      /\ Completions(x, now, r) = Completions(x, past, r)
      OBVIOUS
  <2> DEFINE k == r.key[2]
  <2>1. ~ (e.call_id = k /\ k # NoTool)
      OBVIOUS
  <2> HIDE DEF k
  <2>2. ASSUME NEW type
        PROVE  SeenWith(x, now, type, k) = SeenWith(x, past, type, k)
    <3>1. SeenWith(x, now, type, k) = SeenWith(x, past, type, k) \cup
            (IF e.type = type /\ e.call_id = k /\ k # NoTool THEN {e} ELSE {})
        BY SeenGrows
    <3> QED
        BY <2>1, <3>1
  <2> QED
      BY <2>2 DEF Calls, Completions, k
<1>2. r.key[1] = "id" => Told(x, now, r)
  <2>1. r.key[1] = "id" => Told(x, past, r)
      BY DEF InvocationInv
  <2> HIDE DEF now
  <2> QED
      BY <1>1, <2>1 DEF Told
<1>3. OfItsTool(x, now, r)
  <2> SUFFICES ASSUME NEW p \in Nameless(x, now), r.completion_event = p.event_id
               PROVE  /\ p.tool # Unknown => r.tool = p.tool
                      /\ r.key[1] = "id" =>
                           \E c \in Calls(x, now, r) : p.tool \in {c.tool, Unknown}
      BY DEF OfItsTool
  <2>1. r.completion_event \in past
      BY ToolAssumption DEF InvocationInv, Nameless
  <2>2. p \in Nameless(x, past)
      BY <2>1, NamelessGrows
  <2>3. OfItsTool(x, past, r)
      BY DEF InvocationInv
  <2> HIDE DEF now
  <2> QED
      BY <1>1, <2>2, <2>3 DEF OfItsTool
<1> QED
    BY <1>2, <1>3 DEF InvocationInv

\* What is asked of an invocation that takes the place of another, or a new
\* one.
TakesPlace(x, past, now, n, old, e) ==
    /\ n.completion_event \in {old, e.event_id}
    /\ \A p \in Nameless(x, past) :
         old = p.event_id => n.completion_event = p.event_id \/ Superseded(x, now, p)
    /\ e.type = "TOOL_COMPLETED" /\ e.call_id = NoTool => n.completion_event = e.event_id

\* Replacing an invocation by one with its key, or appending one with a new
\* key, keeps the invocations in order.
LEMMA ReplacedInv ==
    ASSUME NEW e \in ToolEvents, NEW past, e.event_id \notin past, NEW invs,
           InvocationsInv(e.execution_id, past, invs), NEW i \in DOMAIN invs, NEW r \in Invocation,
           r.key = invs[i].key, InvocationInv(e.execution_id, past \cup {e.event_id}, r),
           e.call_id # NoTool => r.key = <<"id", e.call_id>>,
           TakesPlace(e.execution_id, past, past \cup {e.event_id}, r,
                      invs[i].completion_event, e)
    PROVE  InvocationsInv(e.execution_id, past \cup {e.event_id}, ReplaceAt(invs, i, r))
<1> DEFINE x == e.execution_id
           now == past \cup {e.event_id}
           n == ReplaceAt(invs, i, r)
<1>1. invs \in Seq(Invocation)
    BY DEF InvocationsInv
<1>2. /\ n \in Seq(Invocation) /\ DOMAIN n = DOMAIN invs
      /\ \A j \in DOMAIN invs : n[j] = IF j = i THEN r ELSE invs[j]
    BY <1>1 DEF ReplaceAt
<1>3. \A j \in DOMAIN invs : n[j].key = invs[j].key
    BY <1>2
<1>4. ASSUME NEW j \in DOMAIN invs, j # i
      PROVE  InvocationInv(x, now, invs[j])
  <2>1. InvocationInv(x, past, invs[j]) /\ invs[j] \in Invocation
      BY <1>1 DEF InvocationsInv
  <2>2. invs[j].key[1] = "id" => e.call_id = NoTool \/ invs[j].key[2] # e.call_id
    <3> SUFFICES ASSUME invs[j].key[1] = "id", e.call_id # NoTool, invs[j].key[2] = e.call_id
                 PROVE  FALSE
        OBVIOUS
    <3>1. invs[j].key = <<"id", e.call_id>>
        BY <2>1 DEF Invocation, InvocationKeys
    <3>2. invs[j].key = invs[i].key
        BY <3>1
    <3> QED
        BY <1>4, <3>2 DEF InvocationsInv
  <2> QED
      BY <2>1, <2>2, OthersStay
<1>5. \A j \in DOMAIN n : InvocationInv(x, now, n[j])
    BY <1>2, <1>4
<1>6. \A j, k \in DOMAIN n : n[j].key[1] = "id" /\ n[j].key = n[k].key => j = k
    BY <1>2, <1>3 DEF InvocationsInv
<1>7. ASSUME NEW f \in ToolEvents, f.execution_id = x, f.event_id \in now, f.call_id # NoTool
      PROVE  \E j \in DOMAIN n : n[j].key = <<"id", f.call_id>>
  <2>1. CASE f.event_id \in past
    <3>1. PICK j \in DOMAIN invs : invs[j].key = <<"id", f.call_id>>
        BY <1>7, <2>1 DEF InvocationsInv
    <3> QED
        BY <1>2, <1>3, <3>1
  <2>2. CASE f.event_id = e.event_id
    <3>1. f = e
        BY <1>7, <2>2, ToolAssumption
    <3> QED
        BY <1>2, <1>7, <3>1
  <2> QED
      BY <1>7, <2>1, <2>2
<1>8. \A j \in DOMAIN invs : invs[j].completion_event \in past \cup {NoTool}
    BY DEF InvocationsInv, InvocationInv
<1>9. ASSUME NEW j \in DOMAIN n, NEW k \in DOMAIN n,
             n[j].completion_event = n[k].completion_event, n[j].completion_event # NoTool
      PROVE  j = k
  <2>1. r.completion_event \in {invs[i].completion_event, e.event_id}
      BY DEF TakesPlace
  <2>2. \A m \in DOMAIN invs : invs[m].completion_event # e.event_id
      BY <1>8, ToolAssumption
  <2>3. \A l, m \in DOMAIN invs :
          invs[l].completion_event = invs[m].completion_event
          /\ invs[l].completion_event # NoTool => l = m
      BY DEF InvocationsInv
  <2> HIDE DEF n
  <2> QED
      BY <1>2, <1>9, <2>1, <2>2, <2>3
<1>10. ASSUME NEW p \in Nameless(x, now)
       PROVE  \/ \E j \in DOMAIN n : n[j].completion_event = p.event_id
              \/ Superseded(x, now, p)
  <2>1. CASE p = e /\ e.type = "TOOL_COMPLETED" /\ e.call_id = NoTool
    <3>1. r.completion_event = e.event_id
        BY <2>1 DEF TakesPlace
    <3> HIDE DEF n
    <3> QED
        BY <1>2, <2>1, <3>1
  <2>2. CASE p \in Nameless(x, past)
    <3>1. CASE Superseded(x, past, p)
        BY <3>1, NamelessGrows
    <3>2. CASE \E j \in DOMAIN invs : invs[j].completion_event = p.event_id
      <4>1. PICK j \in DOMAIN invs : invs[j].completion_event = p.event_id
          BY <3>2
      <4>2. CASE j = i
        <5>1. r.completion_event = p.event_id \/ Superseded(x, now, p)
            BY <2>2, <4>1, <4>2 DEF TakesPlace
        <5> HIDE DEF n
        <5> QED
            BY <1>2, <5>1
      <4>3. CASE j # i
        <5> HIDE DEF n
        <5> QED
            BY <1>2, <4>1, <4>3
      <4> QED
          BY <4>2, <4>3
    <3> QED
        BY <2>2, <3>1, <3>2 DEF InvocationsInv
  <2> QED
      BY <2>1, <2>2, NamelessGrows
<1> HIDE DEF n, now
<1>11. InvocationsInv(x, now, n)
    BY <1>2, <1>5, <1>6, <1>7, <1>9, <1>10 DEF InvocationsInv
<1> QED
    BY <1>11 DEF n, now

LEMMA AppendedInv ==
    ASSUME NEW e \in ToolEvents, NEW past, e.event_id \notin past, NEW invs,
           InvocationsInv(e.execution_id, past, invs), NEW r \in Invocation,
           InvocationInv(e.execution_id, past \cup {e.event_id}, r),
           IF e.call_id # NoTool THEN r.key = <<"id", e.call_id>> ELSE r.key[1] # "id",
           \A i \in DOMAIN invs : r.key[1] = "id" => invs[i].key # r.key,
           TakesPlace(e.execution_id, past, past \cup {e.event_id}, r, NoTool, e)
    PROVE  InvocationsInv(e.execution_id, past \cup {e.event_id}, Append(invs, r))
<1> DEFINE x == e.execution_id
           now == past \cup {e.event_id}
           n == Append(invs, r)
           last == Len(invs) + 1
<1>1. invs \in Seq(Invocation) /\ DOMAIN invs = 1 .. Len(invs) /\ Len(invs) \in Nat
    BY DEF InvocationsInv
<1>2. /\ n \in Seq(Invocation) /\ DOMAIN n = 1 .. last /\ n[last] = r
      /\ \A j \in DOMAIN invs : n[j] = invs[j] /\ j \in DOMAIN n
      /\ \A j \in DOMAIN n : j = last \/ j \in DOMAIN invs
      /\ last \in DOMAIN n
    BY <1>1
<1>3. ASSUME NEW j \in DOMAIN invs
      PROVE  InvocationInv(x, now, invs[j])
  <2>1. InvocationInv(x, past, invs[j]) /\ invs[j] \in Invocation
      BY <1>1 DEF InvocationsInv
  <2>2. invs[j].key[1] = "id" => e.call_id = NoTool \/ invs[j].key[2] # e.call_id
    <3> SUFFICES ASSUME invs[j].key[1] = "id", e.call_id # NoTool, invs[j].key[2] = e.call_id
                 PROVE  FALSE
        OBVIOUS
    <3>1. invs[j].key = <<"id", e.call_id>>
        BY <2>1 DEF Invocation, InvocationKeys
    <3> QED
        BY <3>1
  <2> QED
      BY <2>1, <2>2, OthersStay
<1>8. \A j \in DOMAIN invs : invs[j].completion_event \in past \cup {NoTool}
    BY DEF InvocationsInv, InvocationInv
<1>9. \A m \in DOMAIN invs : invs[m].completion_event # e.event_id
    BY <1>8, ToolAssumption
<1>10. r.completion_event \in {NoTool, e.event_id}
    BY DEF TakesPlace
<1> HIDE DEF n, last, now
<1>4. \A j \in DOMAIN n : InvocationInv(x, now, n[j])
    BY <1>2, <1>3 DEF now
<1>5. ASSUME NEW j \in DOMAIN n, NEW k \in DOMAIN n, n[j].key[1] = "id", n[j].key = n[k].key
      PROVE  j = k
    BY <1>2, <1>5 DEF InvocationsInv
<1>6. ASSUME NEW f \in ToolEvents, f.execution_id = x, f.event_id \in now, f.call_id # NoTool
      PROVE  \E j \in DOMAIN n : n[j].key = <<"id", f.call_id>>
  <2>1. CASE f.event_id \in past
    <3>1. PICK j \in DOMAIN invs : invs[j].key = <<"id", f.call_id>>
        BY <1>6, <2>1 DEF InvocationsInv
    <3> QED
        BY <1>2, <3>1
  <2>2. CASE f.event_id = e.event_id
    <3>1. f = e
        BY <1>6, <2>2, ToolAssumption
    <3> QED
        BY <1>2, <1>6, <3>1
  <2> QED
      BY <1>6, <2>1, <2>2 DEF now
<1>11. ASSUME NEW j \in DOMAIN n, NEW k \in DOMAIN n,
              n[j].completion_event = n[k].completion_event, n[j].completion_event # NoTool
       PROVE  j = k
  <2>1. \A l, m \in DOMAIN invs :
          invs[l].completion_event = invs[m].completion_event
          /\ invs[l].completion_event # NoTool => l = m
      BY DEF InvocationsInv
  <2> QED
      BY <1>2, <1>9, <1>10, <1>11, <2>1
<1>12. ASSUME NEW p \in Nameless(x, now)
       PROVE  \/ \E j \in DOMAIN n : n[j].completion_event = p.event_id
              \/ Superseded(x, now, p)
  <2>1. CASE p = e /\ e.type = "TOOL_COMPLETED" /\ e.call_id = NoTool
    <3>1. r.completion_event = e.event_id
        BY <2>1 DEF TakesPlace
    <3> QED
        BY <1>2, <2>1, <3>1
  <2>2. CASE p \in Nameless(x, past)
    <3>1. CASE Superseded(x, past, p)
        BY <3>1, NamelessGrows DEF now
    <3>2. CASE \E j \in DOMAIN invs : invs[j].completion_event = p.event_id
        BY <1>2, <3>2
    <3> QED
        BY <2>2, <3>1, <3>2 DEF InvocationsInv
  <2> QED
      BY <2>1, <2>2, NamelessGrows DEF now
<1>7. InvocationsInv(x, now, n)
    BY <1>2, <1>4, <1>5, <1>6, <1>11, <1>12 DEF InvocationsInv
<1> QED
    BY <1>7 DEF n, now

\* A call is told by an invocation of its own, or completes the invocation
\* that its completion opened.
LEMMA CallInv ==
    ASSUME NEW e \in ToolEvents, NEW past, e.event_id \notin past, e.type = "TOOL_CALLED",
           NEW invs, InvocationsInv(e.execution_id, past, invs)
    PROVE  InvocationsInv(e.execution_id, past \cup {e.event_id}, Call(invs, e))
<1> DEFINE x == e.execution_id
           now == past \cup {e.event_id}
           i == IndexOfKey(invs, CallKey(e))
<1>1. invs \in Seq(Invocation)
    BY DEF InvocationsInv
<1>2. \/ i = 0 /\ \A j \in DOMAIN invs : invs[j].key # CallKey(e)
      \/ i # 0 /\ i \in DOMAIN invs /\ invs[i].key = CallKey(e)
    BY <1>1, KeyFound
<1>3. Call(invs, e) = IF i # 0 THEN ReplaceAt(invs, i, LateCall(invs[i], e))
                      ELSE Append(invs, FirstCall(e))
    BY DEF Call
<1>4. /\ CallKey(e) \in InvocationKeys
      /\ CallKey(e)[1] \in {"id", "call"}
      /\ CallKey(e)[1] = "id" => e.call_id # NoTool /\ CallKey(e)[2] = e.call_id
      /\ CallKey(e)[1] = "call" => e.call_id = NoTool /\ CallKey(e)[2] = e.event_id
      /\ e.call_id # NoTool => CallKey(e) = <<"id", e.call_id>>
      /\ e.call_id = NoTool => CallKey(e)[1] = "call"
    BY EventTyped DEF CallKey, InvocationKeys
<1> HIDE DEF i, now
<1>5. /\ SeenWith(x, now, "TOOL_CALLED", e.call_id) \subseteq {e}
      /\ SeenWith(x, past, "TOOL_CALLED", e.call_id) = {}
      /\ e.call_id # NoTool => SeenWith(x, now, "TOOL_CALLED", e.call_id) = {e}
      /\ SeenWith(x, now, "TOOL_COMPLETED", e.call_id)
           = SeenWith(x, past, "TOOL_COMPLETED", e.call_id)
  <2> DEFINE k == e.call_id
  <2>1. ASSUME NEW type
        PROVE  SeenWith(x, now, type, k) = SeenWith(x, past, type, k) \cup
                 (IF e.type = type /\ e.call_id = k /\ k # NoTool THEN {e} ELSE {})
      BY SeenGrows DEF now
  <2>2. SeenWith(x, past, "TOOL_CALLED", k) = {}
      BY SeenGrows
  <2> HIDE DEF k
  <2> QED
      BY <2>1, <2>2 DEF k
<1>6. CASE i # 0
  <2> DEFINE r == invs[i]
             n == LateCall(r, e)
  <2>1. /\ r \in Invocation /\ InvocationInv(x, past, r) /\ r.key = CallKey(e) /\ i \in DOMAIN invs
      BY <1>1, <1>2, <1>6 DEF InvocationsInv
  <2>2. /\ n \in Invocation /\ n.key = r.key /\ n.status = r.status /\ n.success = r.success
        /\ n.completion_event = r.completion_event
        /\ n.call_event = (IF r.call_event = NoTool THEN e.event_id ELSE r.call_event)
        /\ n.tool = (IF r.tool = Unknown THEN e.tool ELSE r.tool)
      BY <2>1, LateCallIs
  <2> HIDE DEF r, n
  <2>3. r.key[1] = "id" /\ e.call_id # NoTool /\ r.key[2] = e.call_id
      BY <1>4, <2>1 DEF InvocationInv
  <2>4. /\ Calls(x, past, r) = {} /\ Calls(x, now, n) = {e}
        /\ Completions(x, now, n) = Completions(x, past, r)
      BY <1>5, <2>2, <2>3 DEF Calls, Completions
  <2>5. Told(x, past, r)
      BY <2>1, <2>3 DEF InvocationInv
  <2>6. PICK d \in Completions(x, past, r) : TRUE
      BY <2>4, <2>5 DEF Told
  <2>7. /\ r.call_event = NoTool /\ r.completion_event = d.event_id /\ r.status # "CALLED"
        /\ d \in ToolEvents /\ d.execution_id = x /\ d.call_id # NoTool
      BY <2>3, <2>4, <2>5, <2>6 DEF Told, Completions, SeenWith
  <2>8. Told(x, now, n)
      BY <2>2, <2>4, <2>5, <2>6, <2>7 DEF Told
  <2>9. EventsAgree(x, n)
      BY <2>2, <2>7, ToolAssumption DEF EventsAgree
  <2>12. OfItsTool(x, now, n)
      BY <2>2, <2>7, ToolAssumption DEF OfItsTool, Nameless
  <2>10. InvocationInv(x, now, n)
      BY <2>1, <2>2, <2>3, <2>7, <2>8, <2>9, <2>12
         DEF InvocationInv, OutcomeShown, OpenIsNamed, now
  <2>11. TakesPlace(x, past, now, n, r.completion_event, e)
      BY <2>2 DEF TakesPlace
  <2>13. e.call_id # NoTool => n.key = <<"id", e.call_id>>
      BY <1>4, <2>1, <2>2
  <2>14. InvocationsInv(x, past \cup {e.event_id}, ReplaceAt(invs, i, n))
      BY <2>1, <2>2, <2>10, <2>11, <2>13, ReplacedInv DEF now, r
  <2> QED
      BY <1>3, <1>6, <2>14 DEF n, r
<1>7. CASE i = 0
  <2> DEFINE n == FirstCall(e)
  <2>1. /\ n \in Invocation /\ n.key = CallKey(e) /\ n.tool = e.tool /\ n.status = "CALLED"
        /\ n.success = NoTool /\ n.call_event = e.event_id /\ n.completion_event = NoTool
      BY FirstCallIs
  <2> HIDE DEF n
  <2>2. \A j \in DOMAIN invs : invs[j].key # n.key
      BY <1>2, <1>7, <2>1
  <2>3. ASSUME n.key[1] = "id"
        PROVE  Told(x, now, n)
    <3>1. e.call_id # NoTool /\ n.key[2] = e.call_id /\ n.key = <<"id", e.call_id>>
        BY <1>4, <2>1, <2>3
    <3>2. SeenWith(x, past, "TOOL_COMPLETED", e.call_id) = {}
      <4> SUFFICES ASSUME NEW d \in SeenWith(x, past, "TOOL_COMPLETED", e.call_id)
                   PROVE  FALSE
          OBVIOUS
      <4>1. d \in ToolEvents /\ d.execution_id = x /\ d.event_id \in past /\ d.call_id = e.call_id
          BY DEF SeenWith
      <4>2. \E j \in DOMAIN invs : invs[j].key = <<"id", d.call_id>>
          BY <3>1, <4>1 DEF InvocationsInv
      <4> QED
          BY <2>2, <3>1, <4>1, <4>2
    <3>3. Calls(x, now, n) = {e} /\ Completions(x, now, n) = {}
        BY <1>5, <3>1, <3>2 DEF Calls, Completions
    <3> QED
        BY <2>1, <3>3 DEF Told
  <2>4. EventsAgree(x, n) /\ OfItsTool(x, now, n)
      BY <2>1, ToolAssumption DEF EventsAgree, OfItsTool, Nameless
  <2>5. InvocationInv(x, now, n)
      BY <1>4, <2>1, <2>3, <2>4 DEF InvocationInv, OutcomeShown, OpenIsNamed, now
  <2>6. TakesPlace(x, past, now, n, NoTool, e)
      BY <2>1, ToolAssumption DEF TakesPlace, Nameless
  <2>7. IF e.call_id # NoTool THEN n.key = <<"id", e.call_id>> ELSE n.key[1] # "id"
      BY <1>4, <2>1
  <2>8. InvocationsInv(x, past \cup {e.event_id}, Append(invs, n))
      BY <2>1, <2>2, <2>5, <2>6, <2>7, AppendedInv DEF now
  <2> QED
      BY <1>3, <1>7, <2>8 DEF n
<1> QED
    BY <1>6, <1>7

\* A completion is told by the invocation of its id, by an open one of its
\* tool, or by one of its own.
LEMMA CompletionInv ==
    ASSUME NEW e \in ToolEvents, NEW past, e.event_id \notin past, e.type = "TOOL_COMPLETED",
           NEW invs, InvocationsInv(e.execution_id, past, invs)
    PROVE  InvocationsInv(e.execution_id, past \cup {e.event_id}, Completion(invs, e))
<1> DEFINE x == e.execution_id
           now == past \cup {e.event_id}
           i == IF e.call_id # NoTool THEN IndexOfKey(invs, <<"id", e.call_id>>)
                ELSE OpenMatch(invs, e)
           key == IF e.call_id # NoTool THEN <<"id", e.call_id>> ELSE <<"comp", e.event_id>>
           new == NewInvocation(e, key, "COMPLETED")
<1>1. invs \in Seq(Invocation)
    BY DEF InvocationsInv
<1>2. Completion(invs, e) = IF i # 0 THEN ReplaceAt(invs, i, Completed(invs[i], e))
                            ELSE Append(invs, Completed(new, e))
    BY DEF Completion
<1>3. e.call_id # NoTool =>
        \/ i = 0 /\ \A j \in DOMAIN invs : invs[j].key # <<"id", e.call_id>>
        \/ i # 0 /\ i \in DOMAIN invs /\ invs[i].key = <<"id", e.call_id>>
    BY <1>1, KeyFound
<1>4. e.call_id = NoTool =>
        \/ i = 0
        \/ /\ i # 0 /\ i \in DOMAIN invs /\ invs[i].status = "CALLED"
           /\ e.tool \in {invs[i].tool, Unknown}
    BY <1>1, OpenFound
<1>5. /\ key \in InvocationKeys /\ key[1] \in {"id", "comp"}
      /\ key[1] = "id" => e.call_id # NoTool /\ key = <<"id", e.call_id>> /\ key[2] = e.call_id
      /\ e.call_id # NoTool => key = <<"id", e.call_id>> /\ key[1] = "id"
      /\ e.call_id = NoTool => key[1] = "comp"
    BY EventTyped DEF InvocationKeys
<1>6. /\ new \in Invocation /\ new.key = key /\ new.tool = e.tool /\ new.call_event = NoTool
    BY <1>5, NewInvocationIs DEF Statuses
<1> HIDE DEF i, now, key, new
<1>7. /\ SeenWith(x, past, "TOOL_COMPLETED", e.call_id) = {}
      /\ e.call_id # NoTool => SeenWith(x, now, "TOOL_COMPLETED", e.call_id) = {e}
      /\ SeenWith(x, now, "TOOL_CALLED", e.call_id) = SeenWith(x, past, "TOOL_CALLED", e.call_id)
  <2> DEFINE k == e.call_id
  <2>1. ASSUME NEW type
        PROVE  SeenWith(x, now, type, k) = SeenWith(x, past, type, k) \cup
                 (IF e.type = type /\ e.call_id = k /\ k # NoTool THEN {e} ELSE {})
      BY SeenGrows DEF now
  <2>2. SeenWith(x, past, "TOOL_COMPLETED", k) = {}
      BY SeenGrows
  <2> HIDE DEF k
  <2> QED
      BY <2>1, <2>2 DEF k
<1>8. ASSUME NEW r \in Invocation
      PROVE  LET n == Completed(r, e)
             IN /\ n \in Invocation /\ n.key = r.key /\ n.call_event = r.call_event
                /\ n.completion_event = e.event_id /\ n.success = Succeeded(e)
                /\ n.status # "CALLED" /\ OutcomeShown(n)
                /\ n.tool = (IF e.tool # Unknown THEN e.tool ELSE r.tool)
    BY CompletedIs, EventTyped DEF OutcomeShown
<1>9. CASE i # 0 /\ e.call_id # NoTool
  <2> DEFINE r == invs[i]
             n == Completed(r, e)
  <2>1. /\ r \in Invocation /\ InvocationInv(x, past, r) /\ i \in DOMAIN invs
        /\ r.key = <<"id", e.call_id>>
      BY <1>1, <1>3, <1>9 DEF InvocationsInv
  <2>2. /\ n \in Invocation /\ n.key = r.key /\ n.call_event = r.call_event
        /\ n.completion_event = e.event_id /\ n.success = Succeeded(e)
        /\ n.status # "CALLED" /\ OutcomeShown(n)
        /\ n.tool = (IF e.tool # Unknown THEN e.tool ELSE r.tool)
      BY <1>8, <2>1
  <2> HIDE DEF r, n
  <2>3. /\ Completions(x, past, r) = {} /\ Completions(x, now, n) = {e}
        /\ Calls(x, now, n) = Calls(x, past, r)
      BY <1>7, <1>9, <2>1, <2>2 DEF Calls, Completions
  <2>4. Told(x, past, r)
      BY <2>1 DEF InvocationInv
  <2>5. Told(x, now, n)
      BY <2>2, <2>3, <2>4 DEF Told
  <2>6. EventsAgree(x, n)
      BY <1>9, <2>2, ToolAssumption, ZenonT(40) DEF EventsAgree
  <2>8. OfItsTool(x, now, n)
      BY <1>9, <2>2, ToolAssumption, ZenonT(40) DEF OfItsTool, Nameless
  <2>7. InvocationInv(x, now, n)
      BY <2>1, <2>2, <2>5, <2>6, <2>8 DEF InvocationInv, OpenIsNamed, now
  <2>9. ASSUME NEW p \in Nameless(x, past), r.completion_event = p.event_id
        PROVE  Superseded(x, now, p)
    <3>1. PICK c \in Calls(x, past, r) : p.tool \in {c.tool, Unknown}
        BY <2>1, <2>9 DEF InvocationInv, OfItsTool
    <3>2. /\ c \in ToolEvents /\ c.execution_id = x /\ c.event_id \in now
          /\ c.type = "TOOL_CALLED" /\ c.call_id = e.call_id
        BY <2>1, <3>1 DEF Calls, SeenWith, now
    <3>3. e.event_id \in now
        BY DEF now
    <3> QED
        BY <1>9, <3>1, <3>2, <3>3 DEF Superseded
  <2>10. TakesPlace(x, past, now, n, r.completion_event, e)
      BY <1>9, <2>2, <2>9 DEF TakesPlace
  <2> QED
      BY <1>2, <1>9, <2>1, <2>2, <2>7, <2>10, ReplacedInv DEF now, n, r
<1>10. CASE i # 0 /\ e.call_id = NoTool
  <2> DEFINE r == invs[i]
             n == Completed(r, e)
  <2>1. /\ r \in Invocation /\ InvocationInv(x, past, r) /\ i \in DOMAIN invs
        /\ r.status = "CALLED" /\ e.tool \in {r.tool, Unknown}
      BY <1>1, <1>4, <1>10 DEF InvocationsInv
  <2>2. /\ n \in Invocation /\ n.key = r.key /\ n.call_event = r.call_event
        /\ n.completion_event = e.event_id /\ n.success = Succeeded(e)
        /\ n.status # "CALLED" /\ OutcomeShown(n)
        /\ n.tool = (IF e.tool # Unknown THEN e.tool ELSE r.tool)
      BY <1>8, <2>1
  <2> HIDE DEF r, n
  <2>3. n.tool = r.tool /\ r.completion_event = NoTool
      BY <2>1, <2>2 DEF InvocationInv, OutcomeShown
  <2>4. InvocationInv(x, now, r)
      BY <1>10, <2>1, OthersStay DEF now
  <2>5. ASSUME r.key[1] = "id"
        PROVE  Told(x, now, n)
    <3>1. Told(x, now, r) /\ Completions(x, now, r) = {}
        BY <2>1, <2>4, <2>5 DEF InvocationInv, Told
    <3>2. Calls(x, now, n) = Calls(x, now, r) /\ Completions(x, now, n) = {}
        BY <2>2, <3>1 DEF Calls, Completions
    <3> QED
        BY <2>2, <2>3, <3>1, <3>2 DEF Told
  <2>6. PICK c \in ToolEvents : /\ c.execution_id = x /\ r.call_event = c.event_id
                                /\ r.tool = c.tool
      BY <2>1 DEF InvocationInv, OpenIsNamed
  <2>7. EventsAgree(x, n)
    <3> SUFFICES ASSUME NEW b \in ToolEvents, NEW d \in ToolEvents,
                        b.execution_id = x, d.execution_id = x,
                        n.call_event = b.event_id, n.completion_event = d.event_id
                 PROVE  d.tool \in {b.tool, Unknown}
        BY DEF EventsAgree
    <3>1. b = c /\ d = e
        BY <2>2, <2>6, ToolAssumption
    <3> QED
        BY <2>1, <2>6, <3>1
  <2>9. OfItsTool(x, now, n)
    <3> SUFFICES ASSUME NEW p \in Nameless(x, now), n.completion_event = p.event_id
                 PROVE  /\ p.tool # Unknown => n.tool = p.tool
                        /\ n.key[1] = "id" =>
                             \E a \in Calls(x, now, n) : p.tool \in {a.tool, Unknown}
        BY DEF OfItsTool
    <3>1. p = e
        BY <2>2, ToolAssumption DEF Nameless
    <3>2. ASSUME n.key[1] = "id"
          PROVE  \E a \in Calls(x, now, n) : p.tool \in {a.tool, Unknown}
      <4>1. Told(x, now, r) /\ Completions(x, now, r) = {}
          BY <2>1, <2>2, <2>4, <3>2 DEF InvocationInv, Told
      <4>2. Calls(x, now, n) = Calls(x, now, r)
          BY <2>2 DEF Calls
      <4> QED
          BY <2>1, <3>1, <4>1, <4>2 DEF Told
    <3> QED
        BY <2>1, <2>2, <3>1, <3>2
  <2>8. InvocationInv(x, now, n)
      BY <2>2, <2>4, <2>5, <2>7, <2>9 DEF InvocationInv, OpenIsNamed, now
  <2>10. TakesPlace(x, past, now, n, r.completion_event, e)
      BY <2>2, <2>3, ToolAssumption DEF TakesPlace, Nameless
  <2> QED
      BY <1>2, <1>10, <2>1, <2>2, <2>8, <2>10, ReplacedInv DEF now, n, r
<1>11. CASE i = 0
  <2> DEFINE n == Completed(new, e)
  <2>1. /\ n \in Invocation /\ n.key = key /\ n.call_event = NoTool
        /\ n.completion_event = e.event_id /\ n.success = Succeeded(e)
        /\ n.status # "CALLED" /\ OutcomeShown(n) /\ n.tool = e.tool
      BY <1>6, <1>8
  <2> HIDE DEF n
  <2>2. \A j \in DOMAIN invs : key[1] = "id" => invs[j].key # key
      BY <1>3, <1>5, <1>11
  <2>3. ASSUME key[1] = "id"
        PROVE  Told(x, now, n)
    <3>1. e.call_id # NoTool /\ n.key[2] = e.call_id /\ key = <<"id", e.call_id>>
        BY <1>5, <2>1, <2>3
    <3>2. SeenWith(x, past, "TOOL_CALLED", e.call_id) = {}
      <4> SUFFICES ASSUME NEW c \in SeenWith(x, past, "TOOL_CALLED", e.call_id)
                   PROVE  FALSE
          OBVIOUS
      <4>1. c \in ToolEvents /\ c.execution_id = x /\ c.event_id \in past /\ c.call_id = e.call_id
          BY DEF SeenWith
      <4>2. \E j \in DOMAIN invs : invs[j].key = <<"id", c.call_id>>
          BY <3>1, <4>1 DEF InvocationsInv
      <4> QED
          BY <2>2, <2>3, <3>1, <4>1, <4>2
    <3>3. Calls(x, now, n) = {} /\ Completions(x, now, n) = {e}
        BY <1>7, <3>1, <3>2 DEF Calls, Completions
    <3> QED
        BY <2>1, <3>3 DEF Told
  <2>4. EventsAgree(x, n)
      BY <2>1, ToolAssumption DEF EventsAgree
  <2>6. OfItsTool(x, now, n)
      BY <1>5, <2>1, ToolAssumption, ZenonT(40) DEF OfItsTool, Nameless
  <2>5. InvocationInv(x, now, n)
      BY <1>5, <2>1, <2>3, <2>4, <2>6 DEF InvocationInv, OpenIsNamed, now
  <2>7. TakesPlace(x, past, now, n, NoTool, e)
      BY <2>1, ToolAssumption DEF TakesPlace, Nameless
  <2> QED
      BY <1>2, <1>5, <1>11, <2>1, <2>2, <2>5, <2>7, AppendedInv DEF now, n
<1> QED
    BY <1>9, <1>10, <1>11

-----------------------------------------------------------------------------
\* The summary counts every invocation once.
LEMMA SummaryTallies ==
    ASSUME NEW invs \in Seq(Invocation), \A i \in DOMAIN invs : OutcomeShown(invs[i])
    PROVE  LET s == _recalculate_summary(invs)
           IN /\ s.total = s.successful + s.failed + s.incomplete
              /\ s.completeness = "COMPLETE" <=> s.total > 0 /\ s.incomplete = 0
<1> DEFINE s == _recalculate_summary(invs)
           A == {i \in DOMAIN invs : invs[i].success = TRUE}
           B == {i \in DOMAIN invs : invs[i].status = "FAILED" \/ invs[i].success = FALSE}
           C == {i \in DOMAIN invs : invs[i].status = "CALLED"}
<1>1. /\ s.total = Len(invs) /\ s.successful = Cardinality(A) /\ s.failed = Cardinality(B)
      /\ s.incomplete = Cardinality(C)
      /\ s.completeness = (IF invs = <<>> THEN "UNKNOWN"
                           ELSE IF C = {} THEN "COMPLETE" ELSE "PARTIAL")
    BY DEF _recalculate_summary
<1>2. Len(invs) \in Nat /\ DOMAIN invs = 1 .. Len(invs) /\ (invs = <<>> <=> Len(invs) = 0)
    OBVIOUS
<1>3. Parts(Len(invs), A, B, C)
    BY <1>2, ToolAssumption DEF OutcomeShown, Parts
<1> HIDE DEF A, B, C, s
<1>4. Len(invs) \in Nat
    OBVIOUS
<1>5. /\ Len(invs) = Cardinality(A) + Cardinality(B) + Cardinality(C)
      /\ Cardinality(C) = 0 <=> C = {}
    BY <1>3, <1>4, ThreeParts
<1> QED
    BY <1>1, <1>2, <1>5 DEF s

LEMMA NoActivityInv ==
    ASSUME NEW x
    PROVE  ActivityInv(x, NoActivity)
<1>1. NoActivity.seen = {} /\ NoActivity.invocations = <<>>
      /\ NoActivity.summary = _recalculate_summary(NoActivity.invocations)
    BY DEF NoActivity
<1> HIDE DEF NoActivity
<1>2. <<>> \in Seq(Invocation) /\ DOMAIN <<>> = {}
    OBVIOUS
<1> QED
    BY <1>1, <1>2 DEF ActivityInv, InvocationsInv, Nameless

LEMMA ToolTakenInv ==
    ASSUME NEW e \in ToolEvents, NEW a, ActivityInv(e.execution_id, a)
    PROVE  ActivityInv(e.execution_id, ToolTaken(a, e))
<1>1. CASE e.event_id \in a.seen
    BY <1>1 DEF ToolTaken
<1>2. CASE e.event_id \notin a.seen
  <2> DEFINE invs == IF e.type = "TOOL_CALLED" THEN Call(a.invocations, e)
                     ELSE Completion(a.invocations, e)
             n == ToolTaken(a, e)
  <2>1. /\ n.seen = a.seen \cup {e.event_id} /\ n.invocations = invs
        /\ n.summary = _recalculate_summary(invs)
      BY <1>2 DEF ToolTaken
  <2>2. InvocationsInv(e.execution_id, a.seen, a.invocations)
      BY DEF ActivityInv
  <2>3. e.type \in {"TOOL_CALLED", "TOOL_COMPLETED"}
      BY ToolAssumption
  <2>4. InvocationsInv(e.execution_id, a.seen \cup {e.event_id}, invs)
      BY <1>2, <2>2, <2>3, CallInv, CompletionInv
  <2> HIDE DEF invs, n
  <2>5. ActivityInv(e.execution_id, n)
      BY <2>1, <2>4 DEF ActivityInv
  <2> QED
      BY <2>5 DEF n
<1> QED
    BY <1>1, <1>2

LEMMA InitTools == ToolInit => ToolInv
BY NoActivityInv DEF ToolInit, ToolInv

LEMMA NextTools == ToolInv /\ [ToolNext]_tool_vars => ToolInv'
<1> SUFFICES ASSUME ToolInv, [ToolNext]_tool_vars
             PROVE  ToolInv'
    OBVIOUS
<1>1. ASSUME NEW e \in ToolEvents, tool_handle_event(e)
      PROVE  ToolInv'
  <2>1. e.execution_id \in ToolExecutions
      BY ToolAssumption
  <2>2. tools' = [x \in ToolExecutions |->
                    IF x = e.execution_id THEN ToolTaken(tools[x], e) ELSE tools[x]]
      BY <1>1 DEF tool_handle_event, ToolInv
  <2>3. ActivityInv(e.execution_id, ToolTaken(tools[e.execution_id], e))
      BY <2>1, ToolTakenInv DEF ToolInv
  <2>4. \A x \in ToolExecutions : ActivityInv(x, tools'[x])
      BY <2>1, <2>2, <2>3 DEF ToolInv
  <2>5. tools' = [x \in ToolExecutions |-> tools'[x]]
      BY <2>2
  <2> QED
      BY <2>4, <2>5 DEF ToolInv, ActivityInv
<1>2. CASE tool_clear
  <2>1. tools' = [x \in ToolExecutions |-> NoActivity]
      BY <1>2 DEF tool_clear
  <2>2. \A x \in ToolExecutions : ActivityInv(x, tools'[x])
      BY <2>1, NoActivityInv
  <2>3. tools' = [x \in ToolExecutions |-> tools'[x]]
      BY <2>1
  <2> QED
      BY <2>2, <2>3 DEF ToolInv, ActivityInv
<1>3. CASE tool_attach_to_bus \/ tool_detach_from_bus \/ UNCHANGED tool_vars
    BY <1>3 DEF tool_attach_to_bus, tool_detach_from_bus, tool_vars, ToolInv, ActivityInv
<1> QED
    BY <1>1, <1>2, <1>3 DEF ToolNext

\* In whatever order calls and completions arrive, with and without ids: an
\* invocation tells the two events of its id, a completion without an id is
\* told once, by an invocation of its tool, unless the completion that has the
\* id took its place, no tool answers for another's call, and the summary
\* counts every invocation once.
THEOREM ToolsAreCorrelated == ToolSpec => []ToolsCorrelated
<1>1. ToolInv => ToolsCorrelated
  <2> SUFFICES ASSUME ToolInv, NEW x \in ToolExecutions
               PROVE  CallsAreTold(x) /\ CompletionsAreTold(x) /\ NamesAgree(x) /\ ToolTally(x)
      BY DEF ToolsCorrelated
  <2> DEFINE invs == tools[x].invocations
             past == tools[x].seen
  <2>1. InvocationsInv(x, past, invs) /\ tools[x].summary = _recalculate_summary(invs)
      BY DEF ToolInv, ActivityInv
  <2>2. invs \in Seq(Invocation) /\ \A i \in DOMAIN invs : InvocationInv(x, past, invs[i])
      BY <2>1 DEF InvocationsInv
  <2>3. Invocations(x) = invs
      BY DEF Invocations
  <2> HIDE DEF invs
  <2>4. CallsAreTold(x)
    <3> SUFFICES ASSUME NEW c \in IdsOf(x, "TOOL_CALLED"), NEW d \in IdsOf(x, "TOOL_COMPLETED"),
                        c.call_id = d.call_id
                 PROVE  \E i \in DOMAIN invs :
                          /\ {j \in DOMAIN invs : invs[j].key = invs[i].key} = {i}
                          /\ invs[i].call_event = c.event_id
                          /\ invs[i].completion_event = d.event_id
                          /\ invs[i].success = Succeeded(d)
                          /\ invs[i].tool = (IF d.tool # Unknown THEN d.tool ELSE c.tool)
                          /\ invs[i].status # "CALLED"
        BY <2>3 DEF CallsAreTold
    <3>1. /\ c \in SeenWith(x, past, "TOOL_CALLED", c.call_id)
          /\ d \in SeenWith(x, past, "TOOL_COMPLETED", c.call_id)
          /\ c \in ToolEvents /\ c.execution_id = x /\ c.event_id \in past /\ c.call_id # NoTool
        BY DEF IdsOf, SeenWith
    <3>2. PICK i \in DOMAIN invs : invs[i].key = <<"id", c.call_id>>
        BY <2>1, <3>1 DEF InvocationsInv
    <3>3. Told(x, past, invs[i])
        BY <2>2, <3>2 DEF InvocationInv
    <3>4. c \in Calls(x, past, invs[i]) /\ d \in Completions(x, past, invs[i])
        BY <3>1, <3>2 DEF Calls, Completions
    <3>5. {j \in DOMAIN invs : invs[j].key = invs[i].key} = {i}
        BY <2>1, <3>2, SMTT(30) DEF InvocationsInv
    <3> QED
        BY <3>3, <3>4, <3>5 DEF Told
  <2>5. NamesAgree(x)
    <3> SUFFICES ASSUME NEW i \in DOMAIN invs, NEW c \in ToolEvents, NEW d \in ToolEvents,
                        c.execution_id = x, d.execution_id = x,
                        invs[i].call_event = c.event_id, invs[i].completion_event = d.event_id,
                        d.call_id = NoTool
                 PROVE  d.tool \in {c.tool, Unknown} \/ c.tool = Unknown
        BY <2>3 DEF NamesAgree
    <3> QED
        BY <2>2 DEF InvocationInv, EventsAgree
  <2>6. ToolTally(x)
    <3>1. \A i \in DOMAIN invs : OutcomeShown(invs[i])
        BY <2>2 DEF InvocationInv
    <3> QED
        BY <2>1, <2>2, <3>1, SummaryTallies DEF ToolTally
  <2>7. CompletionsAreTold(x)
    <3> SUFFICES ASSUME NEW p \in ToolEvents,
                        p.execution_id = x, p.event_id \in past,
                        p.type = "TOOL_COMPLETED", p.call_id = NoTool,
                        ~ Overtaken(x, p)
                 PROVE  \E i \in DOMAIN invs :
                          /\ invs[i].completion_event = p.event_id
                          /\ \A j \in DOMAIN invs :
                               invs[j].completion_event = p.event_id => j = i
                          /\ p.tool # Unknown => invs[i].tool = p.tool
        BY <2>3 DEF CompletionsAreTold
    <3>1. p \in Nameless(x, past) /\ p.event_id # NoTool
        BY ToolAssumption DEF Nameless
    <3>2. ~ Superseded(x, past, p)
        BY DEF Superseded, Overtaken, IdsOf
    <3>3. PICK i \in DOMAIN invs : invs[i].completion_event = p.event_id
        BY <2>1, <3>1, <3>2 DEF InvocationsInv
    <3>4. \A j \in DOMAIN invs : invs[j].completion_event = p.event_id => j = i
        BY <2>1, <3>1, <3>3 DEF InvocationsInv
    <3>5. OfItsTool(x, past, invs[i])
        BY <2>2 DEF InvocationInv
    <3> QED
        BY <3>1, <3>3, <3>4, <3>5 DEF OfItsTool
  <2> QED
      BY <2>4, <2>5, <2>6, <2>7
<1> QED
    BY <1>1, InitTools, NextTools, PTL DEF ToolSpec

-----------------------------------------------------------------------------
(***************************************************************************)
(* Web requests.                                                           *)
(***************************************************************************)
WebEventIds == {e.event_id : e \in WebEvents}
Urls == {e.url : e \in WebEvents}
ActivityKeys ==
    {"id", "req", "resp"} \X ({e.request_id : e \in WebEvents} \cup WebEventIds)
WebTimes == {e.time : e \in WebEvents} \cup {NoWeb}
StatusCodes == {e.status_code : e \in WebEvents} \cup {NoWeb}
WebBytes == {WebNumber(e.bytes) : e \in WebEvents} \cup {NoWeb}
WebDurations ==
    {WebNumber(e.duration) : e \in WebEvents}
      \cup {WebElapsed(from, to) : from \in WebTimes, to \in WebTimes} \cup {NoWeb}
WebStatuses == {"REQUESTED", "COMPLETED", "FAILED"}

WebRecord ==
    [key : ActivityKeys, url : Urls, status : WebStatuses, status_code : StatusCodes,
     bytes : WebBytes, success : BOOLEAN \cup {NoWeb}, duration : WebDurations,
     requested : WebTimes, responded : WebTimes, request_event : WebEventIds \cup {NoWeb},
     response_event : WebEventIds \cup {NoWeb}]

\* The events with request id k among those of execution x that were seen.
WebSeenWith(x, past, type, k) ==
    {e \in WebEvents : e.execution_id = x /\ e.event_id \in past /\ e.type = type
                       /\ e.request_id = k /\ k # NoWeb}

Requests(x, past, a) == WebSeenWith(x, past, "WEB_REQUEST", a.key[2])
Responses(x, past, a) == WebSeenWith(x, past, "WEB_RESPONSE", a.key[2])

\* The responses without a request id that were seen.
Anonymous(x, past) ==
    {p \in WebEvents : p.execution_id = x /\ p.event_id \in past /\ p.type = "WEB_RESPONSE"
                       /\ p.request_id = NoWeb}

\* The response that has the id of a request to p's target was seen.
Overwritten(x, past, p) ==
    \E r, q \in WebEvents :
       /\ r.execution_id = x /\ r.event_id \in past /\ r.type = "WEB_RESPONSE"
       /\ q.execution_id = x /\ q.event_id \in past /\ q.type = "WEB_REQUEST"
       /\ r.request_id = q.request_id /\ q.request_id # NoWeb /\ p.url \in {q.url, NoTarget}

\* A record with a request id tells the request and the response of that id.
RequestTold(x, past, a) ==
    /\ Requests(x, past, a) = {} => a.request_event = NoWeb /\ Responses(x, past, a) # {}
    /\ \A q \in Requests(x, past, a) :
         /\ a.request_event = q.event_id
         /\ Responses(x, past, a) = {} => a.url = q.url
    /\ \A p \in Responses(x, past, a) :
         /\ a.response_event = p.event_id /\ a.status # "REQUESTED"
         /\ p.url # NoTarget => a.url = p.url
         /\ p.url = NoTarget => /\ Requests(x, past, a) = {} => a.url = NoTarget
                                /\ \A q \in Requests(x, past, a) : a.url = q.url

\* The codes that responses without an id left with the request of a record.
CodesLeft(x, past, a) ==
    {r.status_code : r \in {p \in Anonymous(x, past) :
       p.status_code # BadNumber /\ \E q \in Requests(x, past, a) : p.url \in {q.url, NoTarget}}}

\* The outcome of a record with a request id is that of its own response, but
\* for one that says nothing where a failing code was left.
OutcomeTold(x, past, a) ==
    /\ Responses(x, past, a) = {} => a.status_code \in CodesLeft(x, past, a) \cup {NoWeb}
    /\ \A p \in Responses(x, past, a) :
         \/ a.success = Verdict(p)
         \/ /\ a.success = FALSE /\ ~p.error /\ p.success = NoWeb /\ p.status_code = NoWeb
            /\ \E code \in CodesLeft(x, past, a) : Fails(code)

\* What the status of a record says.
WebOutcomeShown(a) ==
    \/ /\ a.status = "REQUESTED" /\ a.success = NoWeb /\ a.response_event = NoWeb
       /\ a.status_code = NoWeb
    \/ a.status = "COMPLETED" /\ a.success = TRUE
    \/ a.status = "FAILED" /\ a.success = FALSE

\* A record that tells a response without an id is one of its target.
OfItsTarget(x, past, a) ==
    \A p \in Anonymous(x, past) : a.response_event = p.event_id =>
        /\ p.url # NoTarget => a.url = p.url
        /\ a.key[1] = "id" => \E q \in Requests(x, past, a) : p.url \in {q.url, NoTarget}

WebRecordInv(x, past, a) ==
    /\ a.key[1] = "id" => RequestTold(x, past, a) /\ OutcomeTold(x, past, a)
    /\ a.key[1] = "req" => a.key[2] \in past
    /\ a.response_event \in past \cup {NoWeb}
    /\ WebOutcomeShown(a)
    /\ OfItsTarget(x, past, a)

\* All records of an execution: one for each request id that was seen, and one
\* at most for each response.
WebRecordsInv(x, past, acts) ==
    /\ acts \in Seq(WebRecord)
    /\ \A i \in DOMAIN acts : WebRecordInv(x, past, acts[i])
    /\ \A i, j \in DOMAIN acts : acts[i].key[1] = "id" /\ acts[i].key = acts[j].key => i = j
    /\ \A i, j \in DOMAIN acts :
         acts[i].response_event = acts[j].response_event /\ acts[i].response_event # NoWeb
         => i = j
    /\ \A e \in WebEvents :
         e.execution_id = x /\ e.event_id \in past /\ e.request_id # NoWeb =>
             \E i \in DOMAIN acts : acts[i].key = <<"id", e.request_id>>
    /\ \A p \in Anonymous(x, past) :
         \/ \E i \in DOMAIN acts : acts[i].response_event = p.event_id
         \/ Overwritten(x, past, p)

WebActivityInv(x, w) ==
    /\ WebRecordsInv(x, w.seen, w.activities)
    /\ w.summary = WebSummary(w.activities)

WebInv ==
    /\ web = [x \in WebExecutions |-> web[x]]
    /\ \A x \in WebExecutions : WebActivityInv(x, web[x])

-----------------------------------------------------------------------------
LEMMA RequestFound ==
    ASSUME NEW acts \in Seq(WebRecord), NEW key
    PROVE  LET i == IndexOfRequest(acts, key)
           IN \/ i = 0 /\ \A j \in DOMAIN acts : acts[j].key # key
              \/ i # 0 /\ i \in DOMAIN acts /\ acts[i].key = key
<1> DEFINE I == {j \in 1 .. Len(acts) : acts[j].key = key}
<1>1. IndexOfRequest(acts, key) = IF I # {} THEN Min(I) ELSE 0
    BY DEF IndexOfRequest, SelectInSeq
<1>2. Len(acts) \in Nat /\ DOMAIN acts = 1 .. Len(acts)
    OBVIOUS
<1>3. IF I = {} THEN IndexOfRequest(acts, key) = 0
      ELSE IndexOfRequest(acts, key) \in I /\ IndexOfRequest(acts, key) # 0
    BY <1>1, <1>2, FirstIndex
<1> QED
    BY <1>2, <1>3

LEMMA OpenRequestFound ==
    ASSUME NEW acts \in Seq(WebRecord), NEW e
    PROVE  LET i == OpenRequest(acts, e)
           IN \/ i = 0
              \/ /\ i # 0 /\ i \in DOMAIN acts /\ acts[i].status = "REQUESTED"
                 /\ e.url \in {acts[i].url, NoTarget}
<1> DEFINE I == {j \in 1 .. Len(acts) :
                   acts[j].status = "REQUESTED" /\ e.url \in {acts[j].url, NoTarget}}
<1>1. OpenRequest(acts, e) = IF I # {} THEN Min(I) ELSE 0
    BY DEF OpenRequest, SelectInSeq
<1>2. Len(acts) \in Nat /\ DOMAIN acts = 1 .. Len(acts)
    OBVIOUS
<1>3. IF I = {} THEN OpenRequest(acts, e) = 0
      ELSE OpenRequest(acts, e) \in I /\ OpenRequest(acts, e) # 0
    BY <1>1, <1>2, FirstIndex
<1> QED
    BY <1>2, <1>3

-----------------------------------------------------------------------------
(***************************************************************************)
(* What an event makes of one record.                                      *)
(***************************************************************************)
LEMMA WebEventTyped ==
    ASSUME NEW e \in WebEvents
    PROVE  /\ e.event_id \in WebEventIds /\ e.url \in Urls /\ e.time \in WebTimes
           /\ e.status_code \in StatusCodes /\ NoWeb \in StatusCodes
           /\ WebNumber(e.bytes) \in WebBytes /\ NoWeb \in WebBytes
           /\ e.event_id # NoWeb /\ NoWeb \in WebDurations /\ NoWeb \in WebTimes
           /\ WebNumber(e.duration) \in WebDurations
           /\ e.request_id \in {f.request_id : f \in WebEvents} \cup WebEventIds
           /\ e.success \in BOOLEAN \cup {NoWeb} /\ e.error \in BOOLEAN
           /\ \A from, to \in WebTimes : WebElapsed(from, to) \in WebDurations
BY WebAssumption DEF WebEventIds, Urls, WebTimes, WebDurations, StatusCodes, WebBytes

LEMMA NewActivityIs ==
    ASSUME NEW e \in WebEvents, NEW key \in ActivityKeys, NEW status \in WebStatuses
    PROVE  LET a == NewActivity(e, key, status)
           IN /\ a \in WebRecord /\ a.key = key /\ a.url = e.url /\ a.status = status
              /\ a.success = NoWeb /\ a.request_event = NoWeb /\ a.response_event = NoWeb
              /\ a.status_code = NoWeb
BY WebEventTyped DEF NewActivity, WebRecord

LEMMA FirstRequestIs ==
    ASSUME NEW e \in WebEvents
    PROVE  LET a == FirstRequest(e)
           IN /\ a \in WebRecord /\ a.key = RequestKey(e) /\ a.url = e.url
              /\ a.status = "REQUESTED" /\ a.success = NoWeb /\ a.status_code = NoWeb
              /\ a.request_event = e.event_id /\ a.response_event = NoWeb
<1> DEFINE b == NewActivity(e, RequestKey(e), "REQUESTED")
           a == [b EXCEPT !.requested = e.time, !.request_event = e.event_id]
<1>1. RequestKey(e) \in ActivityKeys
    BY WebEventTyped DEF RequestKey, ActivityKeys
<1>2. /\ b \in WebRecord /\ b.key = RequestKey(e) /\ b.url = e.url /\ b.status = "REQUESTED"
      /\ b.success = NoWeb /\ b.request_event = NoWeb /\ b.response_event = NoWeb
      /\ b.status_code = NoWeb
    BY <1>1, NewActivityIs DEF WebStatuses
<1>3. FirstRequest(e) = a
    BY DEF FirstRequest
<1> HIDE DEF b
<1>4. a \in WebRecord
    BY <1>2, WebEventTyped DEF WebRecord
<1>5. /\ a.key = b.key /\ a.url = b.url /\ a.status = b.status /\ a.success = b.success
      /\ a.request_event = e.event_id /\ a.response_event = b.response_event
      /\ a.status_code = b.status_code
    BY <1>2 DEF WebRecord
<1> QED
    BY <1>2, <1>3, <1>4, <1>5

LEMMA LateRequestIs ==
    ASSUME NEW e \in WebEvents, NEW a \in WebRecord
    PROVE  LET n == LateRequest(a, e)
           IN /\ n \in WebRecord /\ n.key = a.key /\ n.status = a.status /\ n.success = a.success
              /\ n.response_event = a.response_event /\ n.status_code = a.status_code
              /\ n.request_event = (IF a.request_event = NoWeb THEN e.event_id
                                    ELSE a.request_event)
              /\ n.url = (IF a.url = NoTarget THEN e.url ELSE a.url)
<1> DEFINE requested == IF a.requested = NoWeb THEN e.time ELSE a.requested
           request_event == IF a.request_event = NoWeb THEN e.event_id ELSE a.request_event
           url == IF a.url = NoTarget THEN e.url ELSE a.url
           duration == IF a.duration = NoWeb /\ a.responded # NoWeb
                       THEN WebElapsed(requested, a.responded) ELSE a.duration
           n == [a EXCEPT !.requested = requested, !.request_event = request_event, !.url = url,
                          !.duration = duration]
<1>1. LateRequest(a, e) = n
    BY DEF LateRequest
<1>2. requested \in WebTimes /\ request_event \in WebEventIds \cup {NoWeb} /\ url \in Urls
    BY WebEventTyped DEF WebRecord
<1>3. duration \in WebDurations
    BY <1>2, WebEventTyped DEF WebRecord
<1> HIDE DEF requested, request_event, url, duration
<1>4. n \in WebRecord
    BY <1>2, <1>3 DEF WebRecord
<1>5. /\ n.key = a.key /\ n.status = a.status /\ n.success = a.success
      /\ n.response_event = a.response_event /\ n.request_event = request_event /\ n.url = url
      /\ n.status_code = a.status_code
    BY DEF WebRecord
<1> HIDE DEF n
<1> QED
    BY <1>1, <1>4, <1>5 DEF request_event, url

LEMMA RespondedIs ==
    ASSUME NEW e \in WebEvents, NEW a \in WebRecord
    PROVE  LET n == Responded(a, e)
           IN /\ n \in WebRecord /\ n.key = a.key /\ n.request_event = a.request_event
              /\ n.response_event = e.event_id /\ n.status # "REQUESTED" /\ WebOutcomeShown(n)
              /\ n.status_code = Code(a, e) /\ n.success = Outcome(e, Code(a, e))
              /\ n.url = (IF e.url # NoTarget THEN e.url ELSE a.url)
<1> DEFINE code == Code(a, e)
           ok == Outcome(e, code)
           url == IF e.url # NoTarget THEN e.url ELSE a.url
           bytes == IF e.bytes # NoWeb THEN WebNumber(e.bytes) ELSE a.bytes
           status == IF ok THEN "COMPLETED" ELSE "FAILED"
           duration == IF e.duration # NoWeb THEN WebNumber(e.duration)
                       ELSE IF a.requested # NoWeb THEN WebElapsed(a.requested, e.time)
                       ELSE a.duration
           n == [a EXCEPT !.response_event = e.event_id, !.responded = e.time, !.url = url,
                          !.status_code = code, !.bytes = bytes, !.status = status,
                          !.success = ok, !.duration = duration]
<1>1. Responded(a, e) = n
    BY DEF Responded
<1>2. url \in Urls /\ status \in WebStatuses /\ bytes \in WebBytes
    BY WebEventTyped DEF WebRecord, WebStatuses
<1>3. code \in StatusCodes
    BY WebEventTyped DEF WebRecord, Code
<1>4. ok \in BOOLEAN
    BY WebEventTyped DEF Outcome
<1>5. duration \in WebDurations
    BY WebEventTyped DEF WebRecord
<1>6. status = (IF ok THEN "COMPLETED" ELSE "FAILED")
    OBVIOUS
<1> HIDE DEF url, status, ok, code, bytes, duration
<1>7. n \in WebRecord
    BY <1>2, <1>3, <1>4, <1>5, WebEventTyped DEF WebRecord
<1>8. /\ n.key = a.key /\ n.request_event = a.request_event /\ n.response_event = e.event_id
      /\ n.success = ok /\ n.status = status /\ n.url = url /\ n.status_code = code
    BY DEF WebRecord
<1> HIDE DEF n
<1> QED
    BY <1>1, <1>4, <1>6, <1>7, <1>8 DEF url, ok, code, WebOutcomeShown

\* The outcome of a response is its own, but for a failing code of the record
\* where it says nothing.
LEMMA OutcomeIsOwn ==
    ASSUME NEW e \in WebEvents, NEW a
    PROVE  \/ Outcome(e, Code(a, e)) = Verdict(e)
           \/ /\ Outcome(e, Code(a, e)) = FALSE
              /\ ~e.error /\ e.success = NoWeb /\ e.status_code = NoWeb
              /\ a.status_code # NoWeb /\ a.status_code \notin 200..399
<1>1. e.error \in BOOLEAN /\ e.success \in BOOLEAN \cup {NoWeb} /\ NoWeb \notin BOOLEAN
    BY WebAssumption
<1>2. Outcome(e, Code(a, e)) \in BOOLEAN /\ Verdict(e) \in BOOLEAN
    BY <1>1 DEF Outcome, Verdict
<1>3. CASE e.error \/ e.success # NoWeb
    BY <1>1, <1>3 DEF Outcome, Verdict
<1>4. CASE ~e.error /\ e.success = NoWeb /\ e.status_code # NoWeb
  <2>1. Outcome(e, Code(a, e)) <=> (Code(a, e) # NoWeb => Code(a, e) \in 200..399)
      BY <1>4 DEF Outcome
  <2>2. Verdict(e) <=> ~Fails(e.status_code)
      BY <1>4 DEF Verdict
  <2>3. Code(a, e) = IF e.status_code = BadNumber THEN NoWeb ELSE e.status_code
      BY <1>4 DEF Code
  <2>4. Outcome(e, Code(a, e)) <=> Verdict(e)
      BY <1>4, <2>1, <2>2, <2>3 DEF Fails
  <2> QED
      BY <1>2, <2>4
<1>5. CASE ~e.error /\ e.success = NoWeb /\ e.status_code = NoWeb
  <2>1. Outcome(e, Code(a, e)) <=> (a.status_code # NoWeb => a.status_code \in 200..399)
      BY <1>5 DEF Outcome, Code
  <2>2. Verdict(e) = TRUE
      BY <1>2, <1>5 DEF Verdict, Fails
  <2> QED
      BY <1>2, <1>5, <2>1, <2>2
<1> QED
    BY <1>3, <1>4, <1>5

-----------------------------------------------------------------------------
(***************************************************************************)
(* What an event makes of the records of its execution.                    *)
(***************************************************************************)
\* The events with a request id change only with an event that has this id.
LEMMA WebSeenGrows ==
    ASSUME NEW e \in WebEvents, NEW past, e.event_id \notin past
    PROVE  \A type, k :
             /\ WebSeenWith(e.execution_id, past \cup {e.event_id}, type, k) =
                  WebSeenWith(e.execution_id, past, type, k) \cup
                    (IF e.type = type /\ e.request_id = k /\ k # NoWeb THEN {e} ELSE {})
             /\ e.type = type /\ e.request_id = k =>
                  WebSeenWith(e.execution_id, past, type, k) = {}
<1> SUFFICES ASSUME NEW type, NEW k
             PROVE  /\ WebSeenWith(e.execution_id, past \cup {e.event_id}, type, k) =
                         WebSeenWith(e.execution_id, past, type, k) \cup
                           (IF e.type = type /\ e.request_id = k /\ k # NoWeb THEN {e} ELSE {})
                    /\ e.type = type /\ e.request_id = k =>
                         WebSeenWith(e.execution_id, past, type, k) = {}
    OBVIOUS
<1> QED
    BY WebAssumption DEF WebSeenWith

LEMMA AnonymousGrows ==
    ASSUME NEW e \in WebEvents, NEW past, e.event_id \notin past
    PROVE  /\ \A p \in Anonymous(e.execution_id, past \cup {e.event_id}) :
                \/ p \in Anonymous(e.execution_id, past)
                \/ p = e /\ e.type = "WEB_RESPONSE" /\ e.request_id = NoWeb
           /\ \A p \in Anonymous(e.execution_id, past) : p.event_id \in past
           /\ Anonymous(e.execution_id, past) \subseteq
                Anonymous(e.execution_id, past \cup {e.event_id})
           /\ \A p : Overwritten(e.execution_id, past, p) =>
                       Overwritten(e.execution_id, past \cup {e.event_id}, p)
<1>1. \A p \in Anonymous(e.execution_id, past \cup {e.event_id}) :
        \/ p \in Anonymous(e.execution_id, past)
        \/ p = e /\ e.type = "WEB_RESPONSE" /\ e.request_id = NoWeb
    BY WebAssumption DEF Anonymous
<1>2. \A p \in Anonymous(e.execution_id, past) : p.event_id \in past
    BY DEF Anonymous
<1>3. \A p : Overwritten(e.execution_id, past, p) =>
               Overwritten(e.execution_id, past \cup {e.event_id}, p)
    BY DEF Overwritten
<1>4. Anonymous(e.execution_id, past) \subseteq
        Anonymous(e.execution_id, past \cup {e.event_id})
    BY DEF Anonymous
<1> QED
    BY <1>1, <1>2, <1>3, <1>4

\* What an event adds to the codes that were left.
LEMMA CodesLeftGrow ==
    ASSUME NEW e \in WebEvents, NEW past, e.event_id \notin past, NEW a, NEW b,
           Requests(e.execution_id, past, a)
             \subseteq Requests(e.execution_id, past \cup {e.event_id}, b)
    PROVE  CodesLeft(e.execution_id, past, a)
             \subseteq CodesLeft(e.execution_id, past \cup {e.event_id}, b)
<1> DEFINE x == e.execution_id
           now == past \cup {e.event_id}
<1>1. Anonymous(x, past) \subseteq Anonymous(x, now)
    BY AnonymousGrows
<1> HIDE DEF now
<1>2. ASSUME NEW code \in CodesLeft(x, past, a)
      PROVE  code \in CodesLeft(x, now, b)
  <2>1. PICK r \in Anonymous(x, past), q \in Requests(x, past, a) :
               code = r.status_code /\ r.status_code # BadNumber /\ r.url \in {q.url, NoTarget}
      BY DEF CodesLeft
  <2>2. r \in Anonymous(x, now) /\ q \in Requests(x, now, b)
      BY <1>1 DEF now
  <2> QED
      BY <2>1, <2>2 DEF CodesLeft
<1> QED
    BY <1>2 DEF now

\* A record without the id of an event keeps what it tells.
LEMMA OtherRecordsStay ==
    ASSUME NEW e \in WebEvents, NEW past, e.event_id \notin past,
           NEW a \in WebRecord, WebRecordInv(e.execution_id, past, a),
           a.key[1] = "id" => e.request_id = NoWeb \/ a.key[2] # e.request_id
    PROVE  WebRecordInv(e.execution_id, past \cup {e.event_id}, a)
<1> DEFINE x == e.execution_id
           now == past \cup {e.event_id}
<1>1. a.key[1] = "id" => /\ Requests(x, now, a) = Requests(x, past, a)
                         /\ Responses(x, now, a) = Responses(x, past, a)
  <2> SUFFICES ASSUME a.key[1] = "id"
               PROVE  /\ Requests(x, now, a) = Requests(x, past, a)
                      /\ Responses(x, now, a) = Responses(x, past, a)
      OBVIOUS
  <2> DEFINE k == a.key[2]
  <2>1. ~ (e.request_id = k /\ k # NoWeb)
      OBVIOUS
  <2> HIDE DEF k
  <2>2. ASSUME NEW type
        PROVE  WebSeenWith(x, now, type, k) = WebSeenWith(x, past, type, k)
    <3>1. WebSeenWith(x, now, type, k) = WebSeenWith(x, past, type, k) \cup
            (IF e.type = type /\ e.request_id = k /\ k # NoWeb THEN {e} ELSE {})
        BY WebSeenGrows
    <3> QED
        BY <2>1, <3>1
  <2> QED
      BY <2>2 DEF Requests, Responses, k
<1>2. a.key[1] = "id" => RequestTold(x, now, a)
  <2>1. a.key[1] = "id" => RequestTold(x, past, a)
      BY DEF WebRecordInv
  <2> HIDE DEF now
  <2> QED
      BY <1>1, <2>1 DEF RequestTold
<1>3. OfItsTarget(x, now, a)
  <2> SUFFICES ASSUME NEW p \in Anonymous(x, now), a.response_event = p.event_id
               PROVE  /\ p.url # NoTarget => a.url = p.url
                      /\ a.key[1] = "id" =>
                           \E q \in Requests(x, now, a) : p.url \in {q.url, NoTarget}
      BY DEF OfItsTarget
  <2>1. a.response_event \in past
      BY WebAssumption DEF WebRecordInv, Anonymous
  <2>2. p \in Anonymous(x, past)
      BY <2>1, AnonymousGrows
  <2>3. OfItsTarget(x, past, a)
      BY DEF WebRecordInv
  <2> HIDE DEF now
  <2> QED
      BY <1>1, <2>2, <2>3 DEF OfItsTarget
<1>4. a.key[1] = "id" => OutcomeTold(x, now, a)
  <2> SUFFICES ASSUME a.key[1] = "id"
               PROVE  OutcomeTold(x, now, a)
      OBVIOUS
  <2>1. OutcomeTold(x, past, a)
      BY DEF WebRecordInv
  <2>2. CodesLeft(x, past, a) \subseteq CodesLeft(x, now, a)
      BY <1>1, CodesLeftGrow
  <2> HIDE DEF now
  <2> QED
      BY <1>1, <2>1, <2>2 DEF OutcomeTold
<1> QED
    BY <1>2, <1>3, <1>4 DEF WebRecordInv

\* What is asked of a record that takes the place of another, or a new one.
Replaces(x, past, now, n, old, e) ==
    /\ n.response_event \in {old, e.event_id}
    /\ \A p \in Anonymous(x, past) :
         old = p.event_id => n.response_event = p.event_id \/ Overwritten(x, now, p)
    /\ e.type = "WEB_RESPONSE" /\ e.request_id = NoWeb => n.response_event = e.event_id

LEMMA ReplacedRecords ==
    ASSUME NEW e \in WebEvents, NEW past, e.event_id \notin past, NEW acts,
           WebRecordsInv(e.execution_id, past, acts), NEW i \in DOMAIN acts, NEW a \in WebRecord,
           a.key = acts[i].key, WebRecordInv(e.execution_id, past \cup {e.event_id}, a),
           e.request_id # NoWeb => a.key = <<"id", e.request_id>>,
           Replaces(e.execution_id, past, past \cup {e.event_id}, a, acts[i].response_event, e)
    PROVE  WebRecordsInv(e.execution_id, past \cup {e.event_id}, ReplaceAt(acts, i, a))
<1> DEFINE x == e.execution_id
           now == past \cup {e.event_id}
           n == ReplaceAt(acts, i, a)
<1>1. acts \in Seq(WebRecord)
    BY DEF WebRecordsInv
<1>2. /\ n \in Seq(WebRecord) /\ DOMAIN n = DOMAIN acts
      /\ \A j \in DOMAIN acts : n[j] = IF j = i THEN a ELSE acts[j]
    BY <1>1 DEF ReplaceAt
<1>3. \A j \in DOMAIN acts : n[j].key = acts[j].key
    BY <1>2
<1>4. ASSUME NEW j \in DOMAIN acts, j # i
      PROVE  WebRecordInv(x, now, acts[j])
  <2>1. WebRecordInv(x, past, acts[j]) /\ acts[j] \in WebRecord
      BY <1>1 DEF WebRecordsInv
  <2>2. acts[j].key[1] = "id" => e.request_id = NoWeb \/ acts[j].key[2] # e.request_id
    <3> SUFFICES ASSUME acts[j].key[1] = "id", e.request_id # NoWeb,
                        acts[j].key[2] = e.request_id
                 PROVE  FALSE
        OBVIOUS
    <3>1. acts[j].key = <<"id", e.request_id>>
        BY <2>1 DEF WebRecord, ActivityKeys
    <3>2. acts[j].key = acts[i].key
        BY <3>1
    <3> QED
        BY <1>4, <3>2 DEF WebRecordsInv
  <2> QED
      BY <2>1, <2>2, OtherRecordsStay
<1>5. \A j \in DOMAIN n : WebRecordInv(x, now, n[j])
    BY <1>2, <1>4
<1>6. \A j, k \in DOMAIN n : n[j].key[1] = "id" /\ n[j].key = n[k].key => j = k
    BY <1>2, <1>3 DEF WebRecordsInv
<1>7. ASSUME NEW f \in WebEvents, f.execution_id = x, f.event_id \in now, f.request_id # NoWeb
      PROVE  \E j \in DOMAIN n : n[j].key = <<"id", f.request_id>>
  <2>1. CASE f.event_id \in past
      BY <1>2, <1>3, <1>7, <2>1, ZenonT(40) DEF WebRecordsInv
  <2>2. CASE f.event_id = e.event_id
    <3>1. f = e
        BY <1>7, <2>2, WebAssumption
    <3> QED
        BY <1>2, <1>7, <3>1
  <2> QED
      BY <1>7, <2>1, <2>2
<1>8. \A j \in DOMAIN acts : acts[j].response_event \in past \cup {NoWeb}
    BY DEF WebRecordsInv, WebRecordInv
<1>9. ASSUME NEW j \in DOMAIN n, NEW k \in DOMAIN n,
             n[j].response_event = n[k].response_event, n[j].response_event # NoWeb
      PROVE  j = k
  <2>1. a.response_event \in {acts[i].response_event, e.event_id}
      BY DEF Replaces
  <2>2. \A m \in DOMAIN acts : acts[m].response_event # e.event_id
      BY <1>8, WebAssumption
  <2>3. \A l, m \in DOMAIN acts :
          acts[l].response_event = acts[m].response_event /\ acts[l].response_event # NoWeb => l = m
      BY DEF WebRecordsInv
  <2> HIDE DEF n
  <2> QED
      BY <1>2, <1>9, <2>1, <2>2, <2>3
<1>10. ASSUME NEW p \in Anonymous(x, now)
       PROVE  \/ \E j \in DOMAIN n : n[j].response_event = p.event_id
              \/ Overwritten(x, now, p)
  <2>1. CASE p = e /\ e.type = "WEB_RESPONSE" /\ e.request_id = NoWeb
    <3>1. a.response_event = e.event_id
        BY <2>1 DEF Replaces
    <3> HIDE DEF n
    <3> QED
        BY <1>2, <2>1, <3>1
  <2>2. CASE p \in Anonymous(x, past)
    <3>1. CASE Overwritten(x, past, p)
        BY <3>1, AnonymousGrows
    <3>2. CASE \E j \in DOMAIN acts : acts[j].response_event = p.event_id
      <4>1. PICK j \in DOMAIN acts : acts[j].response_event = p.event_id
          BY <3>2
      <4>2. CASE j = i
        <5>1. a.response_event = p.event_id \/ Overwritten(x, now, p)
            BY <2>2, <4>1, <4>2 DEF Replaces
        <5> HIDE DEF n
        <5> QED
            BY <1>2, <5>1
      <4>3. CASE j # i
        <5> HIDE DEF n
        <5> QED
            BY <1>2, <4>1, <4>3
      <4> QED
          BY <4>2, <4>3
    <3> QED
        BY <2>2, <3>1, <3>2 DEF WebRecordsInv
  <2> QED
      BY <2>1, <2>2, AnonymousGrows
<1> HIDE DEF n, now
<1>11. WebRecordsInv(x, now, n)
    BY <1>2, <1>5, <1>6, <1>7, <1>9, <1>10 DEF WebRecordsInv
<1> QED
    BY <1>11 DEF n, now

LEMMA AppendedRecord ==
    ASSUME NEW e \in WebEvents, NEW past, e.event_id \notin past, NEW acts,
           WebRecordsInv(e.execution_id, past, acts), NEW a \in WebRecord,
           WebRecordInv(e.execution_id, past \cup {e.event_id}, a),
           IF e.request_id # NoWeb THEN a.key = <<"id", e.request_id>> ELSE a.key[1] # "id",
           \A i \in DOMAIN acts : a.key[1] = "id" => acts[i].key # a.key,
           Replaces(e.execution_id, past, past \cup {e.event_id}, a, NoWeb, e)
    PROVE  WebRecordsInv(e.execution_id, past \cup {e.event_id}, Append(acts, a))
<1> DEFINE x == e.execution_id
           now == past \cup {e.event_id}
           n == Append(acts, a)
           last == Len(acts) + 1
<1>1. acts \in Seq(WebRecord) /\ DOMAIN acts = 1 .. Len(acts) /\ Len(acts) \in Nat
    BY DEF WebRecordsInv
<1>2. /\ n \in Seq(WebRecord) /\ DOMAIN n = 1 .. last /\ n[last] = a
      /\ \A j \in DOMAIN acts : n[j] = acts[j] /\ j \in DOMAIN n
      /\ \A j \in DOMAIN n : j = last \/ j \in DOMAIN acts
      /\ last \in DOMAIN n
    BY <1>1
<1>3. ASSUME NEW j \in DOMAIN acts
      PROVE  WebRecordInv(x, now, acts[j])
  <2>1. WebRecordInv(x, past, acts[j]) /\ acts[j] \in WebRecord
      BY <1>1 DEF WebRecordsInv
  <2>2. acts[j].key[1] = "id" => e.request_id = NoWeb \/ acts[j].key[2] # e.request_id
    <3> SUFFICES ASSUME acts[j].key[1] = "id", e.request_id # NoWeb,
                        acts[j].key[2] = e.request_id
                 PROVE  FALSE
        OBVIOUS
    <3>1. acts[j].key = <<"id", e.request_id>>
        BY <2>1 DEF WebRecord, ActivityKeys
    <3> QED
        BY <3>1
  <2> QED
      BY <2>1, <2>2, OtherRecordsStay
<1>4. \A j \in DOMAIN acts : acts[j].response_event \in past \cup {NoWeb}
    BY DEF WebRecordsInv, WebRecordInv
<1>5. \A m \in DOMAIN acts : acts[m].response_event # e.event_id
    BY <1>4, WebAssumption
<1>6. a.response_event \in {NoWeb, e.event_id}
    BY DEF Replaces
<1> HIDE DEF n, last, now
<1>7. \A j \in DOMAIN n : WebRecordInv(x, now, n[j])
    BY <1>2, <1>3 DEF now
<1>8. ASSUME NEW j \in DOMAIN n, NEW k \in DOMAIN n, n[j].key[1] = "id", n[j].key = n[k].key
      PROVE  j = k
    BY <1>2, <1>8 DEF WebRecordsInv
<1>9. ASSUME NEW f \in WebEvents, f.execution_id = x, f.event_id \in now, f.request_id # NoWeb
      PROVE  \E j \in DOMAIN n : n[j].key = <<"id", f.request_id>>
  <2>1. CASE f.event_id \in past
    <3>1. PICK j \in DOMAIN acts : acts[j].key = <<"id", f.request_id>>
        BY <1>9, <2>1 DEF WebRecordsInv
    <3> QED
        BY <1>2, <3>1
  <2>2. CASE f.event_id = e.event_id
    <3>1. f = e
        BY <1>9, <2>2, WebAssumption
    <3> QED
        BY <1>2, <1>9, <3>1
  <2> QED
      BY <1>9, <2>1, <2>2 DEF now
<1>10. ASSUME NEW j \in DOMAIN n, NEW k \in DOMAIN n,
              n[j].response_event = n[k].response_event, n[j].response_event # NoWeb
       PROVE  j = k
  <2>1. \A l, m \in DOMAIN acts :
          acts[l].response_event = acts[m].response_event /\ acts[l].response_event # NoWeb => l = m
      BY DEF WebRecordsInv
  <2> QED
      BY <1>2, <1>5, <1>6, <1>10, <2>1
<1>11. ASSUME NEW p \in Anonymous(x, now)
       PROVE  \/ \E j \in DOMAIN n : n[j].response_event = p.event_id
              \/ Overwritten(x, now, p)
  <2>1. CASE p = e /\ e.type = "WEB_RESPONSE" /\ e.request_id = NoWeb
    <3>1. a.response_event = e.event_id
        BY <2>1 DEF Replaces
    <3> QED
        BY <1>2, <2>1, <3>1
  <2>2. CASE p \in Anonymous(x, past)
    <3>1. CASE Overwritten(x, past, p)
        BY <3>1, AnonymousGrows DEF now
    <3>2. CASE \E j \in DOMAIN acts : acts[j].response_event = p.event_id
        BY <1>2, <3>2
    <3> QED
        BY <2>2, <3>1, <3>2 DEF WebRecordsInv
  <2> QED
      BY <2>1, <2>2, AnonymousGrows DEF now
<1>12. WebRecordsInv(x, now, n)
    BY <1>2, <1>7, <1>8, <1>9, <1>10, <1>11 DEF WebRecordsInv
<1> QED
    BY <1>12 DEF n, now

\* A request is told by a record of its own, or completes the record that the
\* response with its id opened.
LEMMA RequestInv ==
    ASSUME NEW e \in WebEvents, NEW past, e.event_id \notin past, e.type = "WEB_REQUEST",
           NEW acts, WebRecordsInv(e.execution_id, past, acts)
    PROVE  WebRecordsInv(e.execution_id, past \cup {e.event_id}, Request(acts, e))
<1> DEFINE x == e.execution_id
           now == past \cup {e.event_id}
           i == IndexOfRequest(acts, RequestKey(e))
<1>1. acts \in Seq(WebRecord)
    BY DEF WebRecordsInv
<1>2. \/ i = 0 /\ \A j \in DOMAIN acts : acts[j].key # RequestKey(e)
      \/ i # 0 /\ i \in DOMAIN acts /\ acts[i].key = RequestKey(e)
    BY <1>1, RequestFound
<1>3. Request(acts, e) = IF i # 0 THEN ReplaceAt(acts, i, LateRequest(acts[i], e))
                         ELSE Append(acts, FirstRequest(e))
    BY DEF Request
<1>4. /\ RequestKey(e)[1] \in {"id", "req"}
      /\ RequestKey(e)[1] = "id" => e.request_id # NoWeb /\ RequestKey(e)[2] = e.request_id
      /\ RequestKey(e)[1] = "req" => e.request_id = NoWeb /\ RequestKey(e)[2] = e.event_id
      /\ e.request_id # NoWeb => RequestKey(e) = <<"id", e.request_id>>
      /\ e.request_id = NoWeb => RequestKey(e)[1] = "req"
    BY DEF RequestKey
<1> HIDE DEF i, now
<1>5. /\ WebSeenWith(x, past, "WEB_REQUEST", e.request_id) = {}
      /\ e.request_id # NoWeb => WebSeenWith(x, now, "WEB_REQUEST", e.request_id) = {e}
      /\ WebSeenWith(x, now, "WEB_RESPONSE", e.request_id)
           = WebSeenWith(x, past, "WEB_RESPONSE", e.request_id)
  <2> DEFINE k == e.request_id
  <2>1. ASSUME NEW type
        PROVE  WebSeenWith(x, now, type, k) = WebSeenWith(x, past, type, k) \cup
                 (IF e.type = type /\ e.request_id = k /\ k # NoWeb THEN {e} ELSE {})
      BY WebSeenGrows DEF now
  <2>2. WebSeenWith(x, past, "WEB_REQUEST", k) = {}
      BY WebSeenGrows
  <2> HIDE DEF k
  <2> QED
      BY <2>1, <2>2 DEF k
<1>6. CASE i # 0
  <2> DEFINE r == acts[i]
             n == LateRequest(r, e)
  <2>1. /\ r \in WebRecord /\ WebRecordInv(x, past, r) /\ r.key = RequestKey(e)
        /\ i \in DOMAIN acts
      BY <1>1, <1>2, <1>6 DEF WebRecordsInv
  <2>2. /\ n \in WebRecord /\ n.key = r.key /\ n.status = r.status /\ n.success = r.success
        /\ n.response_event = r.response_event /\ n.status_code = r.status_code
        /\ n.request_event = (IF r.request_event = NoWeb THEN e.event_id
                              ELSE r.request_event)
        /\ n.url = (IF r.url = NoTarget THEN e.url ELSE r.url)
      BY <2>1, LateRequestIs
  <2> HIDE DEF r, n
  <2>3. r.key[1] = "id" /\ e.request_id # NoWeb /\ r.key[2] = e.request_id
      BY <1>4, <2>1 DEF WebRecordInv
  <2>4. /\ Requests(x, past, r) = {} /\ Requests(x, now, n) = {e}
        /\ Responses(x, now, n) = Responses(x, past, r)
      BY <1>5, <2>2, <2>3 DEF Requests, Responses
  <2>5. RequestTold(x, past, r) /\ OutcomeTold(x, past, r)
      BY <2>1, <2>3 DEF WebRecordInv
  <2>6. PICK d \in Responses(x, past, r) : TRUE
      BY <2>4, <2>5 DEF RequestTold
  <2>7. /\ r.request_event = NoWeb /\ r.response_event = d.event_id /\ r.status # "REQUESTED"
        /\ d \in WebEvents /\ d.execution_id = x /\ d.request_id # NoWeb
      BY <2>3, <2>4, <2>5, <2>6 DEF RequestTold, Responses, WebSeenWith
  <2>8. RequestTold(x, now, n) /\ OutcomeTold(x, now, n)
    <3>1. RequestTold(x, now, n)
        BY <2>2, <2>4, <2>5, <2>6, <2>7 DEF RequestTold
    <3>2. CodesLeft(x, past, r) = {}
        BY <2>4 DEF CodesLeft
    <3>3. \A p \in Responses(x, past, r) : r.success = Verdict(p)
        BY <2>5, <3>2 DEF OutcomeTold
    <3>4. OutcomeTold(x, now, n)
        BY <2>2, <2>4, <2>6, <3>3 DEF OutcomeTold
    <3> QED
        BY <3>1, <3>4
  <2>9. OfItsTarget(x, now, n)
      BY <2>2, <2>7, WebAssumption DEF OfItsTarget, Anonymous
  <2>10. WebRecordInv(x, now, n)
      BY <2>1, <2>2, <2>3, <2>7, <2>8, <2>9 DEF WebRecordInv, WebOutcomeShown, now
  <2>11. Replaces(x, past, now, n, r.response_event, e)
      BY <2>2 DEF Replaces
  <2> QED
      BY <1>3, <1>4, <1>6, <2>1, <2>2, <2>10, <2>11, ReplacedRecords DEF now, n, r
<1>7. CASE i = 0
  <2> DEFINE n == FirstRequest(e)
  <2>1. /\ n \in WebRecord /\ n.key = RequestKey(e) /\ n.url = e.url /\ n.status = "REQUESTED"
        /\ n.success = NoWeb /\ n.request_event = e.event_id /\ n.response_event = NoWeb
        /\ n.status_code = NoWeb
      BY FirstRequestIs
  <2> HIDE DEF n
  <2>2. \A j \in DOMAIN acts : acts[j].key # n.key
      BY <1>2, <1>7, <2>1
  <2>3. ASSUME n.key[1] = "id"
        PROVE  RequestTold(x, now, n) /\ OutcomeTold(x, now, n)
    <3>1. e.request_id # NoWeb /\ n.key[2] = e.request_id /\ n.key = <<"id", e.request_id>>
        BY <1>4, <2>1, <2>3
    <3>2. WebSeenWith(x, past, "WEB_RESPONSE", e.request_id) = {}
      <4> SUFFICES ASSUME NEW d \in WebSeenWith(x, past, "WEB_RESPONSE", e.request_id)
                   PROVE  FALSE
          OBVIOUS
      <4>1. /\ d \in WebEvents /\ d.execution_id = x /\ d.event_id \in past
            /\ d.request_id = e.request_id
          BY DEF WebSeenWith
      <4>2. \E j \in DOMAIN acts : acts[j].key = <<"id", d.request_id>>
          BY <3>1, <4>1 DEF WebRecordsInv
      <4> QED
          BY <2>2, <3>1, <4>1, <4>2
    <3>3. Requests(x, now, n) = {e} /\ Responses(x, now, n) = {}
        BY <1>5, <3>1, <3>2 DEF Requests, Responses
    <3> QED
        BY <2>1, <3>3 DEF RequestTold, OutcomeTold
  <2>4. OfItsTarget(x, now, n)
      BY <2>1, WebAssumption DEF OfItsTarget, Anonymous
  <2>5. WebRecordInv(x, now, n)
      BY <1>4, <2>1, <2>3, <2>4 DEF WebRecordInv, WebOutcomeShown, now
  <2>6. Replaces(x, past, now, n, NoWeb, e)
      BY <2>1, WebAssumption DEF Replaces, Anonymous
  <2>7. IF e.request_id # NoWeb THEN n.key = <<"id", e.request_id>> ELSE n.key[1] # "id"
      BY <1>4, <2>1
  <2>8. WebRecordsInv(x, past \cup {e.event_id}, Append(acts, n))
      BY <2>1, <2>2, <2>5, <2>6, <2>7, AppendedRecord DEF now
  <2> QED
      BY <1>3, <1>7, <2>8 DEF n
<1> QED
    BY <1>6, <1>7

\* A response is told by the record of its id, by an open one of its target,
\* or by one of its own.
LEMMA ResponseInv ==
    ASSUME NEW e \in WebEvents, NEW past, e.event_id \notin past, e.type = "WEB_RESPONSE",
           NEW acts, WebRecordsInv(e.execution_id, past, acts)
    PROVE  WebRecordsInv(e.execution_id, past \cup {e.event_id}, Response(acts, e))
<1> DEFINE x == e.execution_id
           now == past \cup {e.event_id}
           i == IF e.request_id # NoWeb THEN IndexOfRequest(acts, <<"id", e.request_id>>)
                ELSE OpenRequest(acts, e)
           key == IF e.request_id # NoWeb THEN <<"id", e.request_id>>
                  ELSE <<"resp", e.event_id>>
           new == NewActivity(e, key, "COMPLETED")
<1>1. acts \in Seq(WebRecord)
    BY DEF WebRecordsInv
<1>2. Response(acts, e) = IF i # 0 THEN ReplaceAt(acts, i, Responded(acts[i], e))
                          ELSE Append(acts, Responded(new, e))
    BY DEF Response
<1>3. e.request_id # NoWeb =>
        \/ i = 0 /\ \A j \in DOMAIN acts : acts[j].key # <<"id", e.request_id>>
        \/ i # 0 /\ i \in DOMAIN acts /\ acts[i].key = <<"id", e.request_id>>
    BY <1>1, RequestFound
<1>4. e.request_id = NoWeb =>
        \/ i = 0
        \/ /\ i # 0 /\ i \in DOMAIN acts /\ acts[i].status = "REQUESTED"
           /\ e.url \in {acts[i].url, NoTarget}
    BY <1>1, OpenRequestFound
<1>5. /\ key \in ActivityKeys /\ key[1] \in {"id", "resp"}
      /\ key[1] = "id" => e.request_id # NoWeb /\ key = <<"id", e.request_id>>
                          /\ key[2] = e.request_id
      /\ e.request_id # NoWeb => key = <<"id", e.request_id>> /\ key[1] = "id"
      /\ e.request_id = NoWeb => key[1] = "resp"
    BY WebEventTyped DEF ActivityKeys
<1>6. /\ new \in WebRecord /\ new.key = key /\ new.url = e.url /\ new.request_event = NoWeb
      /\ new.status_code = NoWeb
    BY <1>5, NewActivityIs DEF WebStatuses
<1> HIDE DEF i, now, key, new
<1>7. /\ WebSeenWith(x, past, "WEB_RESPONSE", e.request_id) = {}
      /\ e.request_id # NoWeb => WebSeenWith(x, now, "WEB_RESPONSE", e.request_id) = {e}
      /\ WebSeenWith(x, now, "WEB_REQUEST", e.request_id)
           = WebSeenWith(x, past, "WEB_REQUEST", e.request_id)
  <2> DEFINE k == e.request_id
  <2>1. ASSUME NEW type
        PROVE  WebSeenWith(x, now, type, k) = WebSeenWith(x, past, type, k) \cup
                 (IF e.type = type /\ e.request_id = k /\ k # NoWeb THEN {e} ELSE {})
      BY WebSeenGrows DEF now
  <2>2. WebSeenWith(x, past, "WEB_RESPONSE", k) = {}
      BY WebSeenGrows
  <2> HIDE DEF k
  <2> QED
      BY <2>1, <2>2 DEF k
<1>8. ASSUME NEW r \in WebRecord
      PROVE  LET n == Responded(r, e)
             IN /\ n \in WebRecord /\ n.key = r.key /\ n.request_event = r.request_event
                /\ n.response_event = e.event_id /\ n.status # "REQUESTED" /\ WebOutcomeShown(n)
                /\ n.status_code = Code(r, e) /\ n.success = Outcome(e, Code(r, e))
                /\ n.url = (IF e.url # NoTarget THEN e.url ELSE r.url)
    BY RespondedIs
<1>9. CASE i # 0 /\ e.request_id # NoWeb
  <2> DEFINE r == acts[i]
             n == Responded(r, e)
  <2>1. /\ r \in WebRecord /\ WebRecordInv(x, past, r) /\ i \in DOMAIN acts
        /\ r.key = <<"id", e.request_id>>
      BY <1>1, <1>3, <1>9 DEF WebRecordsInv
  <2>2. /\ n \in WebRecord /\ n.key = r.key /\ n.request_event = r.request_event
        /\ n.response_event = e.event_id /\ n.status # "REQUESTED" /\ WebOutcomeShown(n)
        /\ n.success = Outcome(e, Code(r, e))
        /\ n.url = (IF e.url # NoTarget THEN e.url ELSE r.url)
      BY <1>8, <2>1
  <2> HIDE DEF r, n
  <2>3. /\ Responses(x, past, r) = {} /\ Responses(x, now, n) = {e}
        /\ Requests(x, now, n) = Requests(x, past, r)
      BY <1>7, <1>9, <2>1, <2>2 DEF Requests, Responses
  <2>4. RequestTold(x, past, r) /\ OutcomeTold(x, past, r)
      BY <2>1 DEF WebRecordInv
  <2>5. RequestTold(x, now, n) /\ OutcomeTold(x, now, n)
    <3>1. RequestTold(x, now, n)
        BY <2>2, <2>3, <2>4 DEF RequestTold
    <3>2. r.status_code \in CodesLeft(x, past, r) \cup {NoWeb}
        BY <2>3, <2>4 DEF OutcomeTold
    <3>3. CodesLeft(x, past, r) \subseteq CodesLeft(x, now, n)
        BY <2>3, CodesLeftGrow DEF now
    <3>4. \A code \in CodesLeft(x, past, r) : code # BadNumber
        BY DEF CodesLeft
    <3>5. \/ n.success = Verdict(e)
          \/ /\ n.success = FALSE /\ ~e.error /\ e.success = NoWeb /\ e.status_code = NoWeb
             /\ \E code \in CodesLeft(x, now, n) : Fails(code)
      <4>1. CASE Outcome(e, Code(r, e)) = Verdict(e)
          BY <2>2, <4>1
      <4>2. CASE /\ Outcome(e, Code(r, e)) = FALSE
                 /\ ~e.error /\ e.success = NoWeb /\ e.status_code = NoWeb
                 /\ r.status_code # NoWeb /\ r.status_code \notin 200..399
        <5>1. r.status_code \in CodesLeft(x, now, n) /\ Fails(r.status_code)
            BY <3>2, <3>3, <3>4, <4>2 DEF Fails
        <5> QED
            BY <2>2, <4>2, <5>1
      <4>3. \/ Outcome(e, Code(r, e)) = Verdict(e)
            \/ /\ Outcome(e, Code(r, e)) = FALSE
               /\ ~e.error /\ e.success = NoWeb /\ e.status_code = NoWeb
               /\ r.status_code # NoWeb /\ r.status_code \notin 200..399
          BY OutcomeIsOwn
      <4> QED
          BY <4>1, <4>2, <4>3
    <3>6. OutcomeTold(x, now, n)
        BY <2>3, <3>5 DEF OutcomeTold
    <3> QED
        BY <3>1, <3>6
  <2>6. OfItsTarget(x, now, n)
      BY <1>9, <2>2, WebAssumption, ZenonT(40) DEF OfItsTarget, Anonymous
  <2>7. WebRecordInv(x, now, n)
      BY <2>1, <2>2, <2>5, <2>6 DEF WebRecordInv, now
  <2>8. ASSUME NEW p \in Anonymous(x, past), r.response_event = p.event_id
        PROVE  Overwritten(x, now, p)
    <3>1. PICK q \in Requests(x, past, r) : p.url \in {q.url, NoTarget}
        BY <2>1, <2>8 DEF WebRecordInv, OfItsTarget
    <3>2. /\ q \in WebEvents /\ q.execution_id = x /\ q.event_id \in now
          /\ q.type = "WEB_REQUEST" /\ q.request_id = e.request_id
        BY <2>1, <3>1 DEF Requests, WebSeenWith, now
    <3>3. e.event_id \in now
        BY DEF now
    <3> QED
        BY <1>9, <3>1, <3>2, <3>3 DEF Overwritten
  <2>9. Replaces(x, past, now, n, r.response_event, e)
      BY <1>9, <2>2, <2>8 DEF Replaces
  <2> QED
      BY <1>2, <1>9, <2>1, <2>2, <2>7, <2>9, ReplacedRecords DEF now, n, r
<1>10. CASE i # 0 /\ e.request_id = NoWeb
  <2> DEFINE r == acts[i]
             n == Responded(r, e)
  <2>1. /\ r \in WebRecord /\ WebRecordInv(x, past, r) /\ i \in DOMAIN acts
        /\ r.status = "REQUESTED" /\ e.url \in {r.url, NoTarget}
      BY <1>1, <1>4, <1>10 DEF WebRecordsInv
  <2>2. /\ n \in WebRecord /\ n.key = r.key /\ n.request_event = r.request_event
        /\ n.response_event = e.event_id /\ n.status # "REQUESTED" /\ WebOutcomeShown(n)
        /\ n.url = (IF e.url # NoTarget THEN e.url ELSE r.url) /\ n.status_code = Code(r, e)
      BY <1>8, <2>1
  <2> HIDE DEF r, n
  <2>3. n.url = r.url /\ r.response_event = NoWeb /\ r.status_code = NoWeb
      BY <2>1, <2>2 DEF WebRecordInv, WebOutcomeShown
  <2>4. WebRecordInv(x, now, r)
      BY <1>10, <2>1, OtherRecordsStay DEF now
  <2>5. ASSUME r.key[1] = "id"
        PROVE  /\ Responses(x, now, r) = {} /\ RequestTold(x, now, r)
               /\ Requests(x, now, n) = Requests(x, now, r) /\ Responses(x, now, n) = {}
    <3>1. RequestTold(x, now, r) /\ Responses(x, now, r) = {}
        BY <2>1, <2>4, <2>5 DEF WebRecordInv, RequestTold
    <3> QED
        BY <2>2, <3>1 DEF Requests, Responses
  <2>6. n.key[1] = "id" => RequestTold(x, now, n)
      BY <2>2, <2>3, <2>5 DEF RequestTold
  <2>7. OfItsTarget(x, now, n)
    <3> SUFFICES ASSUME NEW p \in Anonymous(x, now), n.response_event = p.event_id
                 PROVE  /\ p.url # NoTarget => n.url = p.url
                        /\ n.key[1] = "id" =>
                             \E q \in Requests(x, now, n) : p.url \in {q.url, NoTarget}
        BY DEF OfItsTarget
    <3>1. p = e
        BY <2>2, WebAssumption DEF Anonymous
    <3>2. ASSUME n.key[1] = "id"
          PROVE  \E q \in Requests(x, now, n) : p.url \in {q.url, NoTarget}
        BY <2>1, <2>2, <2>5, <3>1, <3>2 DEF RequestTold
    <3> QED
        BY <2>1, <2>2, <3>1, <3>2
  <2>8. ASSUME n.key[1] = "id"
        PROVE  OutcomeTold(x, now, n)
    <3>1. Responses(x, now, n) = {}
        BY <2>2, <2>5, <2>8
    <3>2. n.status_code = NoWeb \/ (n.status_code = e.status_code /\ e.status_code # BadNumber)
        BY <2>2, <2>3 DEF Code
    <3>3. e \in Anonymous(x, now)
        BY <1>10 DEF Anonymous, now
    <3>4. \E q \in Requests(x, now, n) : e.url \in {q.url, NoTarget}
        BY <2>2, <2>7, <2>8, <3>3 DEF OfItsTarget
    <3>5. n.status_code \in CodesLeft(x, now, n) \cup {NoWeb}
        BY <3>2, <3>3, <3>4 DEF CodesLeft
    <3> QED
        BY <3>1, <3>5 DEF OutcomeTold
  <2>10. WebRecordInv(x, now, n)
      BY <2>2, <2>4, <2>6, <2>7, <2>8 DEF WebRecordInv, now
  <2>9. Replaces(x, past, now, n, r.response_event, e)
      BY <2>2, <2>3, WebAssumption DEF Replaces, Anonymous
  <2> QED
      BY <1>2, <1>10, <2>1, <2>2, <2>9, <2>10, ReplacedRecords DEF now, n, r
<1>11. CASE i = 0
  <2> DEFINE n == Responded(new, e)
  <2>1. /\ n \in WebRecord /\ n.key = key /\ n.request_event = NoWeb
        /\ n.response_event = e.event_id /\ n.status # "REQUESTED" /\ WebOutcomeShown(n)
        /\ n.success = Outcome(e, Code(new, e)) /\ n.url = e.url
      BY <1>6, <1>8
  <2> HIDE DEF n
  <2>2. \A j \in DOMAIN acts : key[1] = "id" => acts[j].key # key
      BY <1>3, <1>5, <1>11
  <2>3. ASSUME key[1] = "id"
        PROVE  RequestTold(x, now, n) /\ OutcomeTold(x, now, n)
    <3>1. e.request_id # NoWeb /\ n.key[2] = e.request_id /\ key = <<"id", e.request_id>>
        BY <1>5, <2>1, <2>3
    <3>2. WebSeenWith(x, past, "WEB_REQUEST", e.request_id) = {}
      <4> SUFFICES ASSUME NEW c \in WebSeenWith(x, past, "WEB_REQUEST", e.request_id)
                   PROVE  FALSE
          OBVIOUS
      <4>1. /\ c \in WebEvents /\ c.execution_id = x /\ c.event_id \in past
            /\ c.request_id = e.request_id
          BY DEF WebSeenWith
      <4>2. \E j \in DOMAIN acts : acts[j].key = <<"id", c.request_id>>
          BY <3>1, <4>1 DEF WebRecordsInv
      <4> QED
          BY <2>2, <2>3, <3>1, <4>1, <4>2
    <3>3. Requests(x, now, n) = {} /\ Responses(x, now, n) = {e}
        BY <1>7, <3>1, <3>2 DEF Requests, Responses
    <3>4. n.success = Verdict(e)
        BY <1>6, <2>1, OutcomeIsOwn
    <3> QED
        BY <2>1, <3>3, <3>4 DEF RequestTold, OutcomeTold
  <2>4. OfItsTarget(x, now, n)
      BY <1>5, <2>1, WebAssumption, ZenonT(40) DEF OfItsTarget, Anonymous
  <2>5. WebRecordInv(x, now, n)
      BY <1>5, <2>1, <2>3, <2>4 DEF WebRecordInv, now
  <2>6. Replaces(x, past, now, n, NoWeb, e)
      BY <2>1, WebAssumption DEF Replaces, Anonymous
  <2> QED
      BY <1>2, <1>5, <1>11, <2>1, <2>2, <2>5, <2>6, AppendedRecord DEF now, n
<1> QED
    BY <1>9, <1>10, <1>11

-----------------------------------------------------------------------------
\* The summary counts every request once.
LEMMA WebSummaryTallies ==
    ASSUME NEW acts \in Seq(WebRecord), \A i \in DOMAIN acts : WebOutcomeShown(acts[i])
    PROVE  LET s == WebSummary(acts)
           IN /\ s.total = s.successful + s.failed + s.incomplete
              /\ s.completed = s.successful + s.failed
              /\ s.completeness = "COMPLETE" <=> s.total > 0 /\ s.incomplete = 0
<1> DEFINE s == WebSummary(acts)
           A == {i \in DOMAIN acts : acts[i].success = TRUE}
           B == {i \in DOMAIN acts : acts[i].status = "FAILED" \/ acts[i].success = FALSE}
           C == {i \in DOMAIN acts : acts[i].status = "REQUESTED"}
           D == {i \in DOMAIN acts : acts[i].status \in {"COMPLETED", "FAILED"}}
<1>1. /\ s.total = Len(acts) /\ s.successful = Cardinality(A) /\ s.failed = Cardinality(B)
      /\ s.incomplete = Cardinality(C) /\ s.completed = Cardinality(D)
      /\ s.completeness = (IF acts = <<>> THEN "UNKNOWN"
                           ELSE IF C = {} THEN "COMPLETE" ELSE "PARTIAL")
    BY DEF WebSummary
<1>2. Len(acts) \in Nat /\ DOMAIN acts = 1 .. Len(acts) /\ (acts = <<>> <=> Len(acts) = 0)
    OBVIOUS
<1>3. Parts(Len(acts), A, B, C)
    BY <1>2, WebAssumption DEF WebOutcomeShown, Parts
<1>4. D = A \cup B
  <2>1. \A i \in DOMAIN acts :
          acts[i].status \in {"COMPLETED", "FAILED"}
            <=> acts[i].success = TRUE \/ acts[i].status = "FAILED" \/ acts[i].success = FALSE
      BY WebAssumption DEF WebOutcomeShown
  <2> QED
      BY <2>1
<1> HIDE DEF A, B, C, D, s
<1>5. Len(acts) \in Nat
    OBVIOUS
<1>6. /\ Len(acts) = Cardinality(A) + Cardinality(B) + Cardinality(C)
      /\ Cardinality(D) = Cardinality(A) + Cardinality(B)
      /\ Cardinality(C) = 0 <=> C = {}
    BY <1>3, <1>4, <1>5, ThreeParts
<1> QED
    BY <1>1, <1>2, <1>6 DEF s

LEMMA NoRequestsInv ==
    ASSUME NEW x
    PROVE  WebActivityInv(x, NoRequests)
<1>1. NoRequests.seen = {} /\ NoRequests.activities = <<>>
      /\ NoRequests.summary = WebSummary(NoRequests.activities)
    BY DEF NoRequests
<1> HIDE DEF NoRequests
<1>2. <<>> \in Seq(WebRecord) /\ DOMAIN <<>> = {}
    OBVIOUS
<1> QED
    BY <1>1, <1>2 DEF WebActivityInv, WebRecordsInv, Anonymous

LEMMA WebTakenInv ==
    ASSUME NEW e \in WebEvents, NEW w, WebActivityInv(e.execution_id, w)
    PROVE  WebActivityInv(e.execution_id, WebTaken(w, e))
<1>1. CASE e.event_id \in w.seen
    BY <1>1 DEF WebTaken
<1>2. CASE e.event_id \notin w.seen
  <2> DEFINE acts == IF e.type = "WEB_REQUEST" THEN Request(w.activities, e)
                     ELSE Response(w.activities, e)
             n == WebTaken(w, e)
  <2>1. /\ n.seen = w.seen \cup {e.event_id} /\ n.activities = acts
        /\ n.summary = WebSummary(acts)
      BY <1>2 DEF WebTaken
  <2>2. WebRecordsInv(e.execution_id, w.seen, w.activities)
      BY DEF WebActivityInv
  <2>3. e.type \in {"WEB_REQUEST", "WEB_RESPONSE"}
      BY WebAssumption
  <2>4. WebRecordsInv(e.execution_id, w.seen \cup {e.event_id}, acts)
      BY <1>2, <2>2, <2>3, RequestInv, ResponseInv
  <2> HIDE DEF acts, n
  <2>5. WebActivityInv(e.execution_id, n)
      BY <2>1, <2>4 DEF WebActivityInv
  <2> QED
      BY <2>5 DEF n
<1> QED
    BY <1>1, <1>2

LEMMA InitWeb == WebInit => WebInv
BY NoRequestsInv DEF WebInit, WebInv

LEMMA NextWeb == WebInv /\ [WebNext]_web_vars => WebInv'
<1> SUFFICES ASSUME WebInv, [WebNext]_web_vars
             PROVE  WebInv'
    OBVIOUS
<1>1. ASSUME NEW e \in WebEvents, web_handle_event(e)
      PROVE  WebInv'
  <2>1. e.execution_id \in WebExecutions
      BY WebAssumption
  <2>2. web' = [x \in WebExecutions |->
                  IF x = e.execution_id THEN WebTaken(web[x], e) ELSE web[x]]
      BY <1>1 DEF web_handle_event, WebInv
  <2>3. WebActivityInv(e.execution_id, WebTaken(web[e.execution_id], e))
      BY <2>1, WebTakenInv DEF WebInv
  <2>4. \A x \in WebExecutions : WebActivityInv(x, web'[x])
      BY <2>1, <2>2, <2>3 DEF WebInv
  <2>5. web' = [x \in WebExecutions |-> web'[x]]
      BY <2>2
  <2> QED
      BY <2>4, <2>5 DEF WebInv, WebActivityInv
<1>2. CASE web_clear
  <2>1. web' = [x \in WebExecutions |-> NoRequests]
      BY <1>2 DEF web_clear
  <2>2. \A x \in WebExecutions : WebActivityInv(x, web'[x])
      BY <2>1, NoRequestsInv
  <2>3. web' = [x \in WebExecutions |-> web'[x]]
      BY <2>1
  <2> QED
      BY <2>2, <2>3 DEF WebInv, WebActivityInv
<1>3. CASE web_attach_to_bus \/ web_detach_from_bus \/ UNCHANGED web_vars
    BY <1>3 DEF web_attach_to_bus, web_detach_from_bus, web_vars, WebInv, WebActivityInv
<1> QED
    BY <1>1, <1>2, <1>3 DEF WebNext

\* In whatever order requests and responses arrive, with and without ids: the
\* two events of an id are told by one record, with the outcome of its own
\* response (a failing code left there speaks for one that says nothing), a
\* response without an id is told once, by a record of its target, unless the
\* response that has the id took its place, and the summary counts every
\* request once.
THEOREM WebIsCorrelated == WebSpec => []WebCorrelated
<1>1. WebInv => WebCorrelated
  <2> SUFFICES ASSUME WebInv, NEW x \in WebExecutions
               PROVE  RequestsAreTold(x) /\ ResponsesAreTold(x) /\ WebTally(x)
      BY DEF WebCorrelated
  <2> DEFINE acts == web[x].activities
             past == web[x].seen
  <2>1. WebRecordsInv(x, past, acts) /\ web[x].summary = WebSummary(acts)
      BY DEF WebInv, WebActivityInv
  <2>2. acts \in Seq(WebRecord) /\ \A i \in DOMAIN acts : WebRecordInv(x, past, acts[i])
      BY <2>1 DEF WebRecordsInv
  <2>3. Activities(x) = acts
      BY DEF Activities
  <2> HIDE DEF acts
  <2>4. RequestsAreTold(x)
    <3> SUFFICES ASSUME NEW q \in WebTakenOf(x, "WEB_REQUEST"),
                        NEW p \in WebTakenOf(x, "WEB_RESPONSE"),
                        q.request_id = p.request_id, q.request_id # NoWeb
                 PROVE  \E i \in DOMAIN acts :
                          /\ TellsBoth(x, q, p, acts[i])
                          /\ \A j \in DOMAIN acts : acts[j].key = acts[i].key => j = i
        BY <2>3 DEF RequestsAreTold
    <3>1. /\ q \in WebSeenWith(x, past, "WEB_REQUEST", q.request_id)
          /\ p \in WebSeenWith(x, past, "WEB_RESPONSE", q.request_id)
          /\ q \in WebEvents /\ q.execution_id = x /\ q.event_id \in past
        BY DEF WebTakenOf, WebSeenWith
    <3>2. PICK i \in DOMAIN acts : acts[i].key = <<"id", q.request_id>>
        BY <2>1, <3>1 DEF WebRecordsInv
    <3>3. RequestTold(x, past, acts[i]) /\ OutcomeTold(x, past, acts[i])
        BY <2>2, <3>2 DEF WebRecordInv
    <3>4. q \in Requests(x, past, acts[i]) /\ p \in Responses(x, past, acts[i])
        BY <3>1, <3>2 DEF Requests, Responses
    <3>5. \A j \in DOMAIN acts : acts[j].key = acts[i].key => j = i
      <4>1. acts[i].key[1] = "id"
          BY <3>2
      <4> QED
          BY <2>1, <4>1 DEF WebRecordsInv
    <3>6. ASSUME NEW code \in CodesLeft(x, past, acts[i]), Fails(code)
          PROVE  \E r \in WebTakenOf(x, "WEB_RESPONSE") :
                   r.request_id = NoWeb /\ r.url \in {q.url, NoTarget} /\ Fails(r.status_code)
      <4>1. PICK r \in Anonymous(x, past), f \in Requests(x, past, acts[i]) :
                   code = r.status_code /\ r.url \in {f.url, NoTarget}
          BY DEF CodesLeft
      <4>2. f = q
          BY <3>1, <3>4, <4>1, WebAssumption DEF Requests, WebSeenWith
      <4> QED
          BY <3>6, <4>1, <4>2 DEF Anonymous, WebTakenOf
    <3>7. \/ acts[i].success = Verdict(p)
          \/ acts[i].success = FALSE /\ Misled(x, q, p)
        BY <3>3, <3>4, <3>6 DEF OutcomeTold, Misled
    <3> QED
        BY <3>2, <3>3, <3>4, <3>5, <3>7 DEF RequestTold, TellsBoth
  <2>5. ResponsesAreTold(x)
    <3> SUFFICES ASSUME NEW p \in WebTakenOf(x, "WEB_RESPONSE"), p.request_id = NoWeb,
                        ~ Replaced(x, p)
                 PROVE  \E i \in DOMAIN acts :
                          /\ acts[i].response_event = p.event_id
                          /\ \A j \in DOMAIN acts :
                               acts[j].response_event = p.event_id => j = i
                          /\ p.url # NoTarget => acts[i].url = p.url
        BY <2>3 DEF ResponsesAreTold
    <3>1. p \in Anonymous(x, past) /\ p.event_id # NoWeb
        BY WebAssumption DEF WebTakenOf, Anonymous
    <3>2. ~ Overwritten(x, past, p)
        BY DEF Overwritten, Replaced, WebTakenOf
    <3>3. PICK i \in DOMAIN acts : acts[i].response_event = p.event_id
        BY <2>1, <3>1, <3>2 DEF WebRecordsInv
    <3>4. \A j \in DOMAIN acts : acts[j].response_event = p.event_id => j = i
        BY <2>1, <3>1, <3>3 DEF WebRecordsInv
    <3>5. OfItsTarget(x, past, acts[i])
        BY <2>2 DEF WebRecordInv
    <3> QED
        BY <3>1, <3>3, <3>4, <3>5 DEF OfItsTarget
  <2>6. WebTally(x)
    <3>1. \A i \in DOMAIN acts : WebOutcomeShown(acts[i])
        BY <2>2 DEF WebRecordInv
    <3> QED
        BY <2>1, <2>2, <3>1, WebSummaryTallies DEF WebTally
  <2> QED
      BY <2>4, <2>5, <2>6
<1> QED
    BY <1>1, InitWeb, NextWeb, PTL DEF WebSpec

-----------------------------------------------------------------------------
(***************************************************************************)
(* What calculate looked up is what it stores.                             *)
(***************************************************************************)
RateOrNone == Rates \cup {NoCost}

\* What a caller of calculate holds between its steps: the summary it was
\* called with, a rate, and the rates that were registered meanwhile.
CallerInv(c) ==
    /\ cost_pc[c] \in {"idle", "read", "store"}
    /\ cost_pc[c] # "idle" => usage[c] \in Usages
    /\ cost_pc[c] = "read" => get_rate(usage[c]) \in offered[c]
    /\ cost_pc[c] = "store" => found[c] \in offered[c] \cap RateOrNone

CostInv ==
    /\ rates \in [Keys -> RateOrNone]
    /\ costs = [x \in CostedRuns |-> costs[x]]
    /\ cost_pc = [c \in Callers |-> cost_pc[c]]
    /\ usage = [c \in Callers |-> usage[c]]
    /\ found = [c \in Callers |-> found[c]]
    /\ offered = [c \in Callers |-> offered[c]]
    /\ \A c \in Callers : CallerInv(c)

-----------------------------------------------------------------------------
(***************************************************************************)
(* The calculator.                                                         *)
(***************************************************************************)
\* A dimension has a cost, which is a number, just when it was counted and
\* priced.
LEMMA DimensionCost ==
    ASSUME NEW t \in Int \cup {NoCost}, NEW r \in Int \cup {NoCost}, NEW unit
    PROVE  /\ t # NoCost /\ r # NoCost => calculate_dimension_cost(t, r, unit) \in Int
           /\ ~ (t # NoCost /\ r # NoCost) => calculate_dimension_cost(t, r, unit) = NoCost
<1>1. 1000000 \div Factor(unit) \in Int
  <2>1. Factor(unit) \in {1, 1000, 1000000}
      BY DEF Factor
  <2> QED
      BY <2>1
<1> DEFINE f == 1000000 \div Factor(unit)
<1>2. calculate_dimension_cost(t, r, unit) = IF t = NoCost \/ r = NoCost THEN NoCost ELSE t * r * f
    BY DEF calculate_dimension_cost
<1>3. f \in Int
    BY <1>1
<1> HIDE DEF f
<1>4. \A i, j \in Int : i * j * f \in Int
    BY <1>3
<1> QED
    BY <1>2, <1>4

\* The calculator makes no cost up.
LEMMA CalculatorIsHonest ==
    ASSUME NEW u \in Usages, NEW rate \in RateOrNone
    PROVE  Honest(u, rate, calculate_execution_economics(u, rate))
<1>1. CASE rate = NoCost
    BY <1>1 DEF Honest, calculate_execution_economics, Unpriced, Dimensions
<1>2. CASE rate # NoCost
  <2> DEFINE cost == [d \in Dimensions |->
                        calculate_dimension_cost(u.tokens[d], rate.rate[d], rate.unit)]
             total == CostOrZero(cost["input"]) + CostOrZero(cost["output"]) + CostOrZero(cost["cached"])
             s == calculate_execution_economics(u, rate)
             observed == {d \in Dimensions : u.tokens[d] # NoCost}
             known == {d \in Dimensions : cost[d] # NoCost}
             priced == \A d \in observed : rate.rate[d] # NoCost
  <2>1. /\ s.cost = cost
        /\ s.total = IF known = {} THEN NoCost ELSE total
        /\ s.completeness = (IF observed # {} /\ priced THEN "COMPLETE"
                             ELSE IF known # {} THEN "PARTIAL" ELSE "UNKNOWN")
      BY <1>2 DEF calculate_execution_economics
  <2>2. \A d \in Dimensions :
          /\ u.tokens[d] \in Int \cup {NoCost}
          /\ rate.rate[d] \in Int \cup {NoCost}
      BY <1>2, EconomicsAssumption DEF RateOrNone
  <2>3. \A d \in Dimensions :
          /\ u.tokens[d] # NoCost /\ rate.rate[d] # NoCost => cost[d] \in Int
          /\ ~ (u.tokens[d] # NoCost /\ rate.rate[d] # NoCost) => cost[d] = NoCost
      BY <2>2, DimensionCost
  <2>4. \A d \in Dimensions : cost[d] # NoCost <=> u.tokens[d] # NoCost /\ rate.rate[d] # NoCost
      BY <2>3, EconomicsAssumption
  <2>5. total \in Int
    <3>1. \A d \in Dimensions : CostOrZero(cost[d]) \in Int
        BY <2>3, EconomicsAssumption DEF CostOrZero
    <3> HIDE DEF cost
    <3> QED
        BY <3>1 DEF Dimensions
  <2> HIDE DEF cost, total, s
  <2>6. s.total # NoCost <=> \E d \in Dimensions : s.cost[d] # NoCost
      BY <2>1, <2>5, EconomicsAssumption
  <2>7. s.completeness = "COMPLETE" => priced
      BY <2>1
  <2> QED
      BY <1>2, <2>1, <2>4, <2>6, <2>7 DEF Honest, s
<1> QED
    BY <1>1, <1>2

-----------------------------------------------------------------------------
(***************************************************************************)
(* Calls and rate changes.                                                 *)
(***************************************************************************)
LEMMA RateIsKnown ==
    ASSUME rates \in [Keys -> RateOrNone], NEW u \in Usages
    PROVE  get_rate(u) \in RateOrNone
BY DEF get_rate, RateOrNone

LEMMA InitCost == CostInit => CostInv
BY DEF CostInit, CostInv, CallerInv, RateOrNone

\* A change of the rates is seen by every call in progress.
LEMMA RatesMoveInv ==
    ASSUME CostInv, RatesMove, rates' \in [Keys -> RateOrNone]
    PROVE  CostInv'
<1>1. \A c \in Callers : cost_pc[c] # "idle" =>
        offered'[c] = offered[c] \cup {get_rate(usage[c])'}
    BY DEF RatesMove, get_rate, CostInv
<1>2. UNCHANGED <<costs, cost_pc, usage, found>>
    BY DEF RatesMove
<1>3. offered' = [c \in Callers |-> offered'[c]]
    BY DEF RatesMove
<1>4. ASSUME NEW c \in Callers
      PROVE  CallerInv(c)'
  <2>1. CallerInv(c)
      BY DEF CostInv
  <2> QED
      BY <1>1, <1>2, <2>1 DEF CallerInv
<1> QED
    BY <1>2, <1>3, <1>4 DEF CostInv

LEMMA NextCost == CostInv /\ [CostNext]_cost_vars => CostInv'
<1> SUFFICES ASSUME CostInv, [CostNext]_cost_vars
             PROVE  CostInv'
    OBVIOUS
<1> USE DEF CostInv
<1>1. ASSUME NEW c \in Callers, NEW u \in Usages, calculate(c, u)
      PROVE  CostInv'
  <2>1. get_rate(u)' = get_rate(u)
      BY <1>1 DEF calculate, get_rate
  <2>2. \A d \in Callers : CallerInv(d)'
      BY <1>1, <2>1 DEF calculate, CallerInv, get_rate
  <2> QED
      BY <1>1, <2>2 DEF calculate
<1>2. ASSUME NEW c \in Callers, ReadRate(c)
      PROVE  CostInv'
  <2>1. get_rate(usage[c]) \in offered[c] \cap RateOrNone
      BY <1>2, RateIsKnown DEF ReadRate, CallerInv
  <2>2. \A d \in Callers : CallerInv(d)'
      BY <1>2, <2>1 DEF ReadRate, CallerInv, get_rate
  <2> QED
      BY <1>2, <2>2 DEF ReadRate
<1>3. ASSUME NEW c \in Callers, StoreCosts(c)
      PROVE  CostInv'
  <2>1. \A d \in Callers : CallerInv(d)'
      BY <1>3 DEF StoreCosts, CallerInv, get_rate
  <2>2. costs' = [x \in CostedRuns |-> costs'[x]]
      BY <1>3 DEF StoreCosts
  <2> QED
      BY <1>3, <2>1, <2>2 DEF StoreCosts
<1>4. ASSUME NEW r \in Rates, register_rate(r)
      PROVE  CostInv'
  <2>1. rates' \in [Keys -> RateOrNone]
      BY <1>4 DEF register_rate, Keys, RateOrNone
  <2> QED
      BY <1>4, <2>1, RatesMoveInv DEF register_rate
<1>5. ASSUME NEW k \in Keys, delete_rate(k)
      PROVE  CostInv'
  <2>1. rates' \in [Keys -> RateOrNone]
      BY <1>5 DEF delete_rate, RateOrNone
  <2> QED
      BY <1>5, <2>1, RatesMoveInv DEF delete_rate
<1>6. CASE clear_rates
  <2>1. rates' \in [Keys -> RateOrNone]
      BY <1>6 DEF clear_rates, RateOrNone
  <2> QED
      BY <1>6, <2>1, RatesMoveInv DEF clear_rates
<1>7. CASE clear_costs
    BY <1>7 DEF clear_costs, CallerInv, get_rate
<1>8. CASE UNCHANGED cost_vars
    BY <1>8 DEF cost_vars, CallerInv, get_rate
<1> QED
    BY <1>1, <1>2, <1>3, <1>4, <1>5, <1>6, <1>7, <1>8 DEF CostNext

\* Only storing ends a call, and what it stores is priced with the rate read.
LEMMA StoredIsEarned ==
    ASSUME CostInv, [CostNext]_cost_vars, NEW c \in Callers,
           cost_pc[c] = "store", cost_pc'[c] = "idle"
    PROVE  \E rate \in offered[c] :
             /\ costs'[usage[c].execution_id] = calculate_execution_economics(usage[c], rate)
             /\ Honest(usage[c], rate, costs'[usage[c].execution_id])
<1>1. StoreCosts(c)
  <2>1. ~ UNCHANGED cost_pc
      OBVIOUS
  <2>2. \A d \in Callers, u \in Usages : ~ calculate(d, u)
      BY DEF calculate, CostInv
  <2>3. \A d \in Callers : ~ ReadRate(d)
      BY DEF ReadRate, CostInv
  <2>4. \A d \in Callers : StoreCosts(d) => d = c
      BY DEF StoreCosts, CostInv
  <2> QED
      BY <2>1, <2>2, <2>3, <2>4
      DEF CostNext, cost_vars, register_rate, delete_rate, clear_rates, clear_costs, RatesMove
<1>2. usage[c] \in Usages /\ found[c] \in offered[c] \cap RateOrNone
    BY DEF CostInv, CallerInv
<1>3. usage[c].execution_id \in CostedRuns
    BY <1>2, EconomicsAssumption
<1>4. costs'[usage[c].execution_id] = calculate_execution_economics(usage[c], found[c])
    BY <1>1, <1>3 DEF StoreCosts, CostInv
<1> QED
    BY <1>2, <1>4, CalculatorIsHonest

\* However calls and rate changes interleave, a stored cost was priced with a
\* rate registered during the call and makes nothing up.
THEOREM CostsEarned == CostSpec => CostsAreEarned
<1>1. CostInv /\ [CostNext]_cost_vars =>
        [\A c \in Callers : cost_pc[c] = "store" /\ cost_pc'[c] = "idle" =>
            LET x == usage[c].execution_id
            IN \E rate \in offered[c] :
                 /\ costs'[x] = calculate_execution_economics(usage[c], rate)
                 /\ Honest(usage[c], rate, costs'[x])]_cost_vars
    BY StoredIsEarned
<1> QED
    BY <1>1, InitCost, NextCost, PTL DEF CostSpec, CostsAreEarned
-----------------------------------------------------------------------------
(***************************************************************************)
(* The health engine.                                                      *)
(***************************************************************************)
Providers == {Lower(n) : n \in ProviderNames}
Models == Providers \X {Lower(n) : n \in ModelNames}
HealthEventIds == {e.event_id : e \in HealthEvents}
Milliseconds == Int \cup {NoHealth}
Means == {NoHealth} \cup (Int \X Nat)
Counters == [Categories -> Nat]
AggregateTypes == EndTypes \cup {"PROVIDER_ERROR", "RETRY_STARTED"}

Errors ==
    [event_id : HealthEventIds, category : Categories, provider : ProviderNames \cup {NoHealth}]

HealthSummary ==
    [seen : SUBSET HealthEventIds, provider : ProviderNames \cup {NoHealth},
     model : ModelNames \cup {NoHealth},
     status : {NoHealth, "STARTED", "COMPLETED", "FAILED"} \cup {e.new_state : e \in HealthEvents},
     success : BOOLEAN \cup {NoHealth}, finalized : BOOLEAN, latency : Milliseconds,
     started : BOOLEAN, completeness : {"UNKNOWN", "PARTIAL", "COMPLETE"},
     errors : Seq(Errors), retries : Nat]

Aggregate ==
    [total : Nat, successful : Nat, failed : Nat, provider_errors : Nat, retries : Nat,
     errors : Counters, total_latency : Int, min_latency : Milliseconds,
     max_latency : Milliseconds, avg_latency : Means]

Observations ==
    [executions : [HealthExecutions -> HealthSummary], providers : [Providers -> Aggregate],
     models : [Models -> Aggregate]]

\* An aggregate is whole, and has a least latency when it has a greatest one.
WholeWithLatency(agg) ==
    /\ AggregateIsWhole(agg)
    /\ agg.max_latency = NoHealth <=> agg.min_latency = NoHealth

\* A finalized summary shows its outcome.
ShowsOutcome(s) ==
    s.finalized => /\ s.success \in BOOLEAN
                   /\ s.status = (IF s.success THEN "COMPLETED" ELSE "FAILED")

\* An execution has the provider of its terminal event, or an earlier one.
TerminalProvidersKept ==
    \A e \in Handled(EndTypes) :
       e.provider # NoHealth => health.executions[e.execution_id].provider # NoHealth

HealthInv ==
    /\ health \in Observations
    /\ \A p \in Providers : WholeWithLatency(health.providers[p])
    /\ \A k \in Models : WholeWithLatency(health.models[k])
    /\ \A x \in HealthExecutions : ShowsOutcome(health.executions[x])
    /\ \A e \in Handled(EndTypes) : health.executions[e.execution_id].finalized
    /\ IsFiniteSet(Handled(EndTypes))
    /\ TerminalProvidersKept
    /\ TotalsAreOutcomes

\* An error has one of the categories, whatever its status and words.
LEMMA CategoryIsKnown ==
    ASSUME NEW status, NEW words \in SUBSET (Categories \ {"UNKNOWN"})
    PROVE  classify_error_category(status, words) \in Categories
<1>1. HttpCategory(status) # NoHealth => HttpCategory(status) \in Categories
    BY DEF HttpCategory, Categories
<1>2. CASE words # {}
  <2> DEFINE S == {i \in DOMAIN Precedence : Precedence[i] \in words}
  <2>1. DOMAIN Precedence = 1 .. 7 /\ \A w \in words : \E i \in 1 .. 7 : Precedence[i] = w
    <3>1. /\ Precedence[1] = "TIMEOUT" /\ Precedence[2] = "RATE_LIMIT"
          /\ Precedence[3] = "AUTHENTICATION" /\ Precedence[4] = "UNAVAILABLE"
          /\ Precedence[5] = "INVALID_REQUEST" /\ Precedence[6] = "PROVIDER_ERROR"
          /\ Precedence[7] = "EXECUTION_ERROR" /\ DOMAIN Precedence = 1 .. 7
        BY DEF Precedence
    <3>2. \A w \in words : w \in {"TIMEOUT", "RATE_LIMIT", "AUTHENTICATION", "UNAVAILABLE",
                                  "INVALID_REQUEST", "PROVIDER_ERROR", "EXECUTION_ERROR"}
        BY DEF Categories
    <3> QED
        BY <3>1, <3>2
  <2>2. S \subseteq Nat /\ S # {}
      BY <1>2, <2>1
  <2>3. PICK m \in S : \A n \in S : m <= n
      BY <2>2, LeastElement
  <2>4. Min(S) \in S
      BY <2>3 DEF Min
  <2>5. Precedence[Min(S)] \in words
      BY <2>4
  <2> HIDE DEF S
  <2> QED
      BY <1>1, <1>2, <2>5 DEF classify_error_category, S
<1>3. CASE words = {}
    BY <1>1, <1>3 DEF classify_error_category, Categories
<1> QED
    BY <1>2, <1>3

LEMMA EventCategories ==
    ASSUME NEW e \in HealthEvents
    PROVE  FailureCategory(e) \in Categories /\ ErrorCategory(e) \in Categories
<1>1. e.words \in SUBSET (Categories \ {"UNKNOWN"})
    BY HealthAssumption
<1>2. /\ e.words \cup (IF e.typed THEN {} ELSE {"EXECUTION_ERROR"})
           \in SUBSET (Categories \ {"UNKNOWN"})
      /\ e.words \cup (IF e.typed THEN {} ELSE {"PROVIDER_ERROR"})
           \in SUBSET (Categories \ {"UNKNOWN"})
    BY <1>1 DEF Categories
<1> QED
    BY <1>2, CategoryIsKnown DEF FailureCategory, ErrorCategory

-----------------------------------------------------------------------------
\* Counting one error more adds one to the errors of an aggregate.
LEMMA OneMoreError ==
    ASSUME NEW f \in [Categories -> Nat], NEW c \in Categories, NEW g,
           g = [f EXCEPT ![c] = @ + 1]
    PROVE  /\ g \in [Categories -> Nat]
           /\ g["TIMEOUT"] + g["RATE_LIMIT"] + g["AUTHENTICATION"] + g["UNAVAILABLE"]
                + g["INVALID_REQUEST"] + g["PROVIDER_ERROR"] + g["EXECUTION_ERROR"] + g["UNKNOWN"]
              = f["TIMEOUT"] + f["RATE_LIMIT"] + f["AUTHENTICATION"] + f["UNAVAILABLE"]
                + f["INVALID_REQUEST"] + f["PROVIDER_ERROR"] + f["EXECUTION_ERROR"] + f["UNKNOWN"] + 1
<1>1. \A d \in Categories : f[d] \in Nat /\ g[d] = IF d = c THEN f[d] + 1 ELSE f[d]
    OBVIOUS
<1>2. g \in [Categories -> Nat]
    OBVIOUS
<1> QED
    BY <1>1, <1>2 DEF Categories

\* The latency statistics leave the counts alone and keep the bounds apart.
LEMMA LatencyKeepsCounts ==
    ASSUME NEW agg \in Aggregate, NEW ms \in Milliseconds,
           agg.max_latency = NoHealth <=> agg.min_latency = NoHealth,
           agg.max_latency # NoHealth => agg.min_latency <= agg.max_latency
    PROVE  LET n == _update_latency_stats(agg, ms)
           IN /\ n \in Aggregate
              /\ n.total = agg.total /\ n.successful = agg.successful /\ n.failed = agg.failed
              /\ n.provider_errors = agg.provider_errors /\ n.errors = agg.errors
              /\ n.max_latency = NoHealth <=> n.min_latency = NoHealth
              /\ n.max_latency # NoHealth => n.min_latency <= n.max_latency
<1>1. CASE ms = NoHealth
    BY <1>1 DEF _update_latency_stats
<1>2. CASE ms # NoHealth
  <2> DEFINE low == IF agg.min_latency = NoHealth \/ ms < agg.min_latency THEN ms
                    ELSE agg.min_latency
             high == IF agg.max_latency = NoHealth \/ ms > agg.max_latency THEN ms
                     ELSE agg.max_latency
             mean == IF agg.successful + agg.failed > 0
                     THEN <<agg.total_latency + ms, agg.successful + agg.failed>>
                     ELSE agg.avg_latency
             n == [agg EXCEPT !.total_latency = agg.total_latency + ms, !.min_latency = low,
                              !.max_latency = high, !.avg_latency = mean]
  <2>1. ms \in Int /\ agg.min_latency \in Milliseconds /\ agg.max_latency \in Milliseconds
        /\ agg.total_latency \in Int /\ agg.avg_latency \in Means
        /\ agg.successful \in Nat /\ agg.failed \in Nat
      BY <1>2 DEF Aggregate, Milliseconds
  <2>2. low \in Int /\ high \in Int /\ low <= high
      BY <2>1 DEF Milliseconds
  <2>3. mean \in Means
      BY <2>1 DEF Means
  <2>4. _update_latency_stats(agg, ms) = n
      BY <1>2 DEF _update_latency_stats
  <2> HIDE DEF low, high, mean
  <2>5. n \in Aggregate
    <3>1. low \in Milliseconds /\ high \in Milliseconds /\ agg.total_latency + ms \in Int
        BY <2>1, <2>2 DEF Milliseconds
    <3> QED
        BY <3>1, <2>3 DEF Aggregate
  <2>6. /\ n.total = agg.total /\ n.successful = agg.successful /\ n.failed = agg.failed
        /\ n.provider_errors = agg.provider_errors /\ n.errors = agg.errors
        /\ n.min_latency = low /\ n.max_latency = high
      BY DEF Aggregate
  <2> HIDE DEF n
  <2> QED
      BY <2>2, <2>4, <2>5, <2>6, HealthAssumption
<1> QED
    BY <1>1, <1>2

\* One more outcome, error or retry leaves an aggregate whole.
LEMMA AddedIsWhole ==
    ASSUME NEW agg \in Aggregate, NEW ms \in Milliseconds, WholeWithLatency(agg),
           NEW e \in HealthEvents, e.type \in AggregateTypes
    PROVE  LET n == Added(agg, e, ms)
           IN /\ n \in Aggregate /\ WholeWithLatency(n)
              /\ n.successful = agg.successful + (IF e.type = "EXECUTION_COMPLETED" THEN 1 ELSE 0)
              /\ n.failed = agg.failed + (IF e.type = "EXECUTION_FAILED" THEN 1 ELSE 0)
<1>1. /\ agg.total \in Nat /\ agg.successful \in Nat /\ agg.failed \in Nat
      /\ agg.provider_errors \in Nat /\ agg.retries \in Nat /\ agg.errors \in Counters
    BY DEF Aggregate
<1>2. /\ agg.total = agg.successful + agg.failed
      /\ ErrorsOf(agg) = agg.provider_errors + agg.failed
      /\ agg.max_latency # NoHealth => agg.min_latency <= agg.max_latency
      /\ agg.max_latency = NoHealth <=> agg.min_latency = NoHealth
    BY DEF WholeWithLatency, AggregateIsWhole
<1>3. FailureCategory(e) \in Categories /\ ErrorCategory(e) \in Categories
    BY EventCategories
<1>4. CASE e.type = "EXECUTION_COMPLETED"
  <2> DEFINE b == [agg EXCEPT !.total = @ + 1, !.successful = @ + 1]
  <2>1. /\ b \in Aggregate
        /\ b.total = agg.total + 1 /\ b.successful = agg.successful + 1 /\ b.failed = agg.failed
        /\ b.provider_errors = agg.provider_errors /\ b.errors = agg.errors
        /\ b.max_latency = agg.max_latency /\ b.min_latency = agg.min_latency
    <3>0. agg.total + 1 \in Nat /\ agg.successful + 1 \in Nat /\ agg.retries + 1 \in Nat
        BY <1>1
    <3>1. b \in Aggregate
        BY <3>0 DEF Aggregate
    <3> QED
        BY <3>1 DEF Aggregate
  <2>2. Added(agg, e, ms) = _update_latency_stats(b, ms)
      BY <1>4 DEF Added, CountedSuccess
  <2> HIDE DEF b
  <2> QED
      BY <1>1, <1>2, <1>4, <2>1, <2>2, LatencyKeepsCounts
      DEF WholeWithLatency, AggregateIsWhole, ErrorsOf
<1>5. CASE e.type = "EXECUTION_FAILED"
  <2> DEFINE g == [agg.errors EXCEPT ![FailureCategory(e)] = @ + 1]
             b == [agg EXCEPT !.total = @ + 1, !.failed = @ + 1, !.errors = g]
  <2>0. /\ g \in Counters
        /\ g["TIMEOUT"] + g["RATE_LIMIT"] + g["AUTHENTICATION"] + g["UNAVAILABLE"]
             + g["INVALID_REQUEST"] + g["PROVIDER_ERROR"] + g["EXECUTION_ERROR"] + g["UNKNOWN"]
           = ErrorsOf(agg) + 1
      BY <1>1, <1>3, OneMoreError DEF ErrorsOf, Counters
  <2>1. /\ b \in Aggregate
        /\ b.total = agg.total + 1 /\ b.successful = agg.successful /\ b.failed = agg.failed + 1
        /\ b.provider_errors = agg.provider_errors /\ b.errors = g
        /\ b.max_latency = agg.max_latency /\ b.min_latency = agg.min_latency
    <3> HIDE DEF g
    <3>0. agg.total + 1 \in Nat /\ agg.failed + 1 \in Nat /\ agg.provider_errors + 1 \in Nat
        BY <1>1
    <3>1. b \in Aggregate
        BY <3>0, <2>0 DEF Aggregate
    <3>2. DOMAIN b = DOMAIN agg
        OBVIOUS
    <3> QED
        BY <3>1 DEF Aggregate
  <2>2. Added(agg, e, ms) = _update_latency_stats(b, ms)
      BY <1>5 DEF Added, CountedFailure
  <2> HIDE DEF b, g
  <2> QED
      BY <1>1, <1>2, <1>5, <2>0, <2>1, <2>2, LatencyKeepsCounts
      DEF WholeWithLatency, AggregateIsWhole, ErrorsOf
<1>6. CASE e.type = "PROVIDER_ERROR"
  <2> DEFINE g == [agg.errors EXCEPT ![ErrorCategory(e)] = @ + 1]
             b == [agg EXCEPT !.provider_errors = @ + 1, !.errors = g]
  <2>0. /\ g \in Counters
        /\ g["TIMEOUT"] + g["RATE_LIMIT"] + g["AUTHENTICATION"] + g["UNAVAILABLE"]
             + g["INVALID_REQUEST"] + g["PROVIDER_ERROR"] + g["EXECUTION_ERROR"] + g["UNKNOWN"]
           = ErrorsOf(agg) + 1
      BY <1>1, <1>3, OneMoreError DEF ErrorsOf, Counters
  <2>1. /\ b \in Aggregate
        /\ b.total = agg.total /\ b.successful = agg.successful /\ b.failed = agg.failed
        /\ b.provider_errors = agg.provider_errors + 1 /\ b.errors = g
        /\ b.max_latency = agg.max_latency /\ b.min_latency = agg.min_latency
    <3> HIDE DEF g
    <3>0. agg.total + 1 \in Nat /\ agg.failed + 1 \in Nat /\ agg.provider_errors + 1 \in Nat
        BY <1>1
    <3>1. b \in Aggregate
        BY <3>0, <2>0 DEF Aggregate
    <3>2. DOMAIN b = DOMAIN agg
        OBVIOUS
    <3> QED
        BY <3>1 DEF Aggregate
  <2>2. Added(agg, e, ms) = b
      BY <1>6 DEF Added
  <2> HIDE DEF b, g
  <2> QED
      BY <1>1, <1>2, <1>6, <2>0, <2>1, <2>2 DEF WholeWithLatency, AggregateIsWhole, ErrorsOf
<1>7. CASE e.type = "RETRY_STARTED"
  <2> DEFINE b == [agg EXCEPT !.retries = @ + 1]
  <2>1. /\ b \in Aggregate
        /\ b.total = agg.total /\ b.successful = agg.successful /\ b.failed = agg.failed
        /\ b.provider_errors = agg.provider_errors /\ b.errors = agg.errors
        /\ b.max_latency = agg.max_latency /\ b.min_latency = agg.min_latency
    <3>0. agg.total + 1 \in Nat /\ agg.successful + 1 \in Nat /\ agg.retries + 1 \in Nat
        BY <1>1
    <3>1. b \in Aggregate
        BY <3>0 DEF Aggregate
    <3> QED
        BY <3>1 DEF Aggregate
  <2>2. Added(agg, e, ms) = b
      BY <1>7 DEF Added
  <2> HIDE DEF b
  <2> QED
      BY <1>1, <1>2, <1>7, <2>1, <2>2 DEF WholeWithLatency, AggregateIsWhole, ErrorsOf
<1> QED
    BY <1>4, <1>5, <1>6, <1>7 DEF AggregateTypes, EndTypes

-----------------------------------------------------------------------------
AllWhole(h) ==
    /\ \A p \in Providers : WholeWithLatency(h.providers[p])
    /\ \A k \in Models : WholeWithLatency(h.models[k])

\* n has the counts of h, and one more outcome of provider for a terminal e.
CountedFor(n, h, provider, e) ==
    \A p \in Providers :
       /\ n.providers[p].successful = h.providers[p].successful
            + (IF provider # NoHealth /\ p = Lower(provider) /\ e.type = "EXECUTION_COMPLETED"
               THEN 1 ELSE 0)
       /\ n.providers[p].failed = h.providers[p].failed
            + (IF provider # NoHealth /\ p = Lower(provider) /\ e.type = "EXECUTION_FAILED"
               THEN 1 ELSE 0)

\* An event is aggregated for its provider, and for no other.
LEMMA AggregatedEffect ==
    ASSUME NEW h \in Observations, AllWhole(h), NEW ms \in Milliseconds,
           NEW provider \in ProviderNames \cup {NoHealth}, NEW model \in ModelNames \cup {NoHealth},
           NEW e \in HealthEvents, e.type \in AggregateTypes
    PROVE  LET n == Aggregated(h, provider, model, e, ms)
           IN n \in Observations /\ AllWhole(n) /\ n.executions = h.executions
              /\ CountedFor(n, h, provider, e)
<1>0. /\ h.providers \in [Providers -> Aggregate] /\ h.models \in [Models -> Aggregate]
      /\ h.executions \in [HealthExecutions -> HealthSummary]
    BY DEF Observations
<1>1. \A p \in Providers : h.providers[p].successful \in Nat /\ h.providers[p].failed \in Nat
    BY <1>0 DEF Aggregate
<1>2. CASE provider = NoHealth
    BY <1>1, <1>2 DEF Aggregated, CountedFor
<1>3. CASE provider # NoHealth
  <2> DEFINE q == Lower(provider)
             a == Added(h.providers[q], e, ms)
             ps == [h.providers EXCEPT ![q] = a]
             h1 == [h EXCEPT !.providers = ps]
  <2>1. q \in Providers
      BY <1>3 DEF Providers
  <2>2. /\ a \in Aggregate /\ WholeWithLatency(a)
        /\ a.successful = h.providers[q].successful
                            + (IF e.type = "EXECUTION_COMPLETED" THEN 1 ELSE 0)
        /\ a.failed = h.providers[q].failed + (IF e.type = "EXECUTION_FAILED" THEN 1 ELSE 0)
      BY <1>0, <2>1, AddedIsWhole DEF AllWhole
  <2> HIDE DEF a
  <2>3. /\ ps \in [Providers -> Aggregate]
        /\ \A p \in Providers : ps[p] = IF p = q THEN a ELSE h.providers[p]
      BY <1>0, <2>1, <2>2
  <2> HIDE DEF ps
  <2>4. /\ h1 \in Observations /\ h1.providers = ps /\ h1.models = h.models
        /\ h1.executions = h.executions
      BY <1>0, <2>3 DEF Observations
  <2> HIDE DEF q
  <2>5. \A p \in Providers : WholeWithLatency(ps[p])
      BY <2>2, <2>3 DEF AllWhole
  <2>6. \A n : n.providers = ps => CountedFor(n, h, provider, e)
    <3> SUFFICES ASSUME NEW n, n.providers = ps, NEW p \in Providers
                 PROVE  /\ ps[p].successful = h.providers[p].successful
                             + (IF p = q /\ e.type = "EXECUTION_COMPLETED" THEN 1 ELSE 0)
                        /\ ps[p].failed = h.providers[p].failed
                             + (IF p = q /\ e.type = "EXECUTION_FAILED" THEN 1 ELSE 0)
        BY <1>3 DEF CountedFor, q
    <3> QED
        BY <1>1, <2>2, <2>3
  <2>7. CASE model = NoHealth
    <3>1. Aggregated(h, provider, model, e, ms) = h1
        BY <1>3, <2>7 DEF Aggregated, ps, a, q
    <3> QED
        BY <2>4, <2>5, <2>6, <3>1 DEF AllWhole
  <2>8. CASE model # NoHealth
    <3> DEFINE k == <<q, Lower(model)>>
               b == Added(h.models[k], e, ms)
               mods == [h.models EXCEPT ![k] = b]
               h2 == [h1 EXCEPT !.models = mods]
    <3>1. k \in Models
        BY <2>1, <2>8 DEF Models
    <3>2. b \in Aggregate /\ WholeWithLatency(b)
        BY <1>0, <3>1, AddedIsWhole DEF AllWhole
    <3>3. Aggregated(h, provider, model, e, ms) = h2
        BY <1>3, <2>4, <2>8 DEF Aggregated, ps, a, q
    <3> HIDE DEF b, k, h1
    <3>4. /\ mods \in [Models -> Aggregate]
          /\ \A j \in Models : mods[j] = IF j = k THEN b ELSE h.models[j]
        BY <1>0, <3>1, <3>2
    <3> HIDE DEF mods
    <3>5. /\ h2 \in Observations /\ h2.providers = ps /\ h2.models = mods
          /\ h2.executions = h.executions
        BY <2>4, <3>4 DEF Observations
    <3>6. \A j \in Models : WholeWithLatency(mods[j])
        BY <3>2, <3>4 DEF AllWhole
    <3> HIDE DEF h2
    <3> QED
        BY <2>5, <2>6, <3>3, <3>5, <3>6 DEF AllWhole
  <2> QED
      BY <2>7, <2>8
<1> QED
    BY <1>2, <1>3

\* What handling e makes of the summary s of its execution.
Follows(t, s, e) ==
    /\ t \in HealthSummary
    /\ t.seen = s.seen \cup {e.event_id}
    /\ t.provider = (IF s.provider = NoHealth THEN e.provider ELSE s.provider)
    /\ ShowsOutcome(t)
    /\ t.finalized <=> s.finalized \/ e.type \in EndTypes

LEMMA NamedFollows ==
    ASSUME NEW s \in HealthSummary, ShowsOutcome(s), NEW e \in HealthEvents
    PROVE  LET t == Named(s, e)
           IN /\ t \in HealthSummary /\ t.seen = s.seen \cup {e.event_id}
              /\ t.provider = (IF s.provider = NoHealth THEN e.provider ELSE s.provider)
              /\ ShowsOutcome(t) /\ t.finalized = s.finalized
<1>1. /\ e.event_id \in HealthEventIds /\ e.provider \in ProviderNames \cup {NoHealth}
      /\ e.model \in ModelNames \cup {NoHealth}
    BY HealthAssumption DEF HealthEventIds
<1>2. s.seen \cup {e.event_id} \in SUBSET HealthEventIds
    BY <1>1 DEF HealthSummary
<1> DEFINE provider == IF s.provider = NoHealth THEN e.provider ELSE s.provider
           model == IF s.model = NoHealth THEN e.model ELSE s.model
           t == [s EXCEPT !.seen = s.seen \cup {e.event_id}, !.provider = provider,
                          !.model = model]
<1>3. provider \in ProviderNames \cup {NoHealth} /\ model \in ModelNames \cup {NoHealth}
    BY <1>1 DEF HealthSummary
<1>4. Named(s, e) = t
    BY DEF Named
<1>5. provider = (IF s.provider = NoHealth THEN e.provider ELSE s.provider)
    OBVIOUS
<1> HIDE DEF provider, model
<1>6. t \in HealthSummary
    BY <1>2, <1>3 DEF HealthSummary
<1>7. /\ t.seen = s.seen \cup {e.event_id} /\ t.provider = provider /\ t.success = s.success
      /\ t.finalized = s.finalized /\ t.status = s.status
    BY DEF HealthSummary
<1> HIDE DEF t
<1> QED
    BY <1>4, <1>5, <1>6, <1>7 DEF ShowsOutcome

\* A terminal event finalizes its execution with its outcome.
LEMMA EndedFollows ==
    ASSUME NEW s \in HealthSummary, NEW e \in HealthEvents, NEW outcome \in {"COMPLETED", "FAILED"}
    PROVE  LET t == Ended(s, e, outcome)
           IN /\ t \in HealthSummary /\ t.seen = s.seen /\ t.provider = s.provider
              /\ t.model = s.model /\ t.errors = s.errors
              /\ ShowsOutcome(t) /\ t.finalized
<1> DEFINE latency == IF e.duration # NoHealth THEN e.duration ELSE s.latency
           completeness == IF s.provider = NoHealth THEN s.completeness
                           ELSE IF latency # NoHealth THEN "COMPLETE" ELSE "PARTIAL"
           t == [s EXCEPT !.status = outcome, !.success = (outcome = "COMPLETED"),
                          !.finalized = TRUE, !.latency = latency,
                          !.completeness = completeness]
<1>1. latency \in Milliseconds
    BY HealthAssumption DEF HealthSummary, Milliseconds
<1>2. completeness \in {"UNKNOWN", "PARTIAL", "COMPLETE"}
    BY DEF HealthSummary
<1>3. Ended(s, e, outcome) = t
    BY DEF Ended
<1> HIDE DEF latency, completeness
<1>4. t \in HealthSummary
    BY <1>1, <1>2, ZenonT(40) DEF HealthSummary
<1>5. /\ t.seen = s.seen /\ t.provider = s.provider /\ t.model = s.model /\ t.errors = s.errors
      /\ t.status = outcome /\ t.success = (outcome = "COMPLETED") /\ t.finalized
    BY DEF HealthSummary
<1> HIDE DEF t
<1> QED
    BY <1>3, <1>4, <1>5 DEF ShowsOutcome

\* Handling an event adds it to its execution, and to the aggregates of the
\* execution's provider when it is a terminal one.
LEMMA EventAppliedEffect ==
    ASSUME NEW h \in Observations, AllWhole(h), NEW e \in HealthEvents,
           \A x \in HealthExecutions : ShowsOutcome(h.executions[x])
    PROVE  LET n == EventApplied(h, e)
               x == e.execution_id
           IN /\ n \in Observations /\ AllWhole(n)
              /\ \E t : /\ Follows(t, h.executions[x], e)
                        /\ n.executions = [h.executions EXCEPT ![x] = t]
                        /\ CountedFor(n, h, t.provider, e)
<1> DEFINE x == e.execution_id
           n == EventApplied(h, e)
           s == Named(h.executions[x], e)
           put(t) == [h EXCEPT !.executions[x] = t]
           ended(t) == Aggregated(put(t), t.provider, t.model, e, t.latency)
           met(t) == Aggregated(put(t), Where(e.provider, s.provider), Where(e.model, s.model),
                                e, NoHealth)
           Goal == /\ n \in Observations /\ AllWhole(n)
                   /\ \E t : /\ Follows(t, h.executions[x], e)
                             /\ n.executions = [h.executions EXCEPT ![x] = t]
                             /\ CountedFor(n, h, t.provider, e)
<1> SUFFICES Goal
    OBVIOUS
<1>0. /\ x \in HealthExecutions
      /\ h.providers \in [Providers -> Aggregate] /\ h.models \in [Models -> Aggregate]
      /\ h.executions \in [HealthExecutions -> HealthSummary]
    BY HealthAssumption DEF Observations
<1>1. /\ s \in HealthSummary /\ s.seen = h.executions[x].seen \cup {e.event_id}
      /\ s.provider = (IF h.executions[x].provider = NoHealth THEN e.provider
                       ELSE h.executions[x].provider)
      /\ ShowsOutcome(s) /\ s.finalized = h.executions[x].finalized
    BY <1>0, NamedFollows
<1>2. s.finalized \in BOOLEAN
    BY <1>1 DEF HealthSummary
<1>3. ASSUME NEW t \in HealthSummary
      PROVE  /\ put(t) \in Observations /\ AllWhole(put(t))
             /\ put(t).executions = [h.executions EXCEPT ![x] = t]
             /\ put(t).providers = h.providers
  <2> DEFINE xs == [h.executions EXCEPT ![x] = t]
             p == [h EXCEPT !.executions = xs]
  <2>1. xs \in [HealthExecutions -> HealthSummary]
      BY <1>0
  <2>2. put(t) = p
      OBVIOUS
  <2> HIDE DEF xs
  <2>3. /\ p \in Observations /\ p.executions = xs /\ p.providers = h.providers
        /\ p.models = h.models
      BY <1>0, <2>1 DEF Observations
  <2> HIDE DEF p
  <2> QED
      BY <2>2, <2>3 DEF AllWhole, xs
<1>4. \A p \in Providers : h.providers[p].successful \in Nat /\ h.providers[p].failed \in Nat
    BY <1>0 DEF Aggregate
<1> HIDE DEF s, put, n
<1>5. ASSUME NEW t \in HealthSummary, Follows(t, h.executions[x], e), n = put(t),
             e.type \notin EndTypes
      PROVE  Goal
  <2>1. n.providers = h.providers
      BY <1>3, <1>5
  <2>2. e.type # "EXECUTION_COMPLETED" /\ e.type # "EXECUTION_FAILED"
      BY <1>5 DEF EndTypes
  <2>3. CountedFor(n, h, t.provider, e)
      BY <1>4, <2>1, <2>2 DEF CountedFor
  <2> QED
      BY <1>3, <1>5, <2>3
<1>6. ASSUME NEW t \in HealthSummary, Follows(t, h.executions[x], e), NEW provider, NEW model, NEW ms,
             provider \in ProviderNames \cup {NoHealth}, model \in ModelNames \cup {NoHealth},
             ms \in Milliseconds, n = Aggregated(put(t), provider, model, e, ms),
             e.type \in AggregateTypes, e.type \in EndTypes => provider = t.provider
      PROVE  Goal
  <2>1. PICK g : /\ g = put(t) /\ g \in Observations /\ AllWhole(g)
                 /\ g.executions = [h.executions EXCEPT ![x] = t]
                 /\ g.providers = h.providers
      BY <1>3
  <2>2. n = Aggregated(g, provider, model, e, ms)
      BY <1>6, <2>1
  <2>3. /\ n \in Observations /\ AllWhole(n) /\ n.executions = g.executions
        /\ CountedFor(n, g, provider, e)
      BY <1>6, <2>1, <2>2, AggregatedEffect
  <2>4. CountedFor(n, h, provider, e)
      BY <2>1, <2>3 DEF CountedFor
  <2>5. CountedFor(n, h, t.provider, e)
    <3>1. CASE e.type \in EndTypes
        BY <1>6, <2>4, <3>1
    <3>2. CASE e.type \notin EndTypes
        BY <2>4, <3>2 DEF CountedFor, EndTypes
    <3> QED
        BY <3>1, <3>2
  <2> QED
      BY <1>6, <2>1, <2>3, <2>5
<1>7. /\ e.provider \in ProviderNames \cup {NoHealth} /\ e.model \in ModelNames \cup {NoHealth}
      /\ e.event_id \in HealthEventIds
      /\ FailureCategory(e) \in Categories /\ ErrorCategory(e) \in Categories
      /\ e.new_state \in {f.new_state : f \in HealthEvents}
      /\ NoHealth \in Milliseconds
    BY HealthAssumption, EventCategories DEF HealthEventIds, Milliseconds
<1>8. /\ Where(e.provider, s.provider) \in ProviderNames \cup {NoHealth}
      /\ Where(e.model, s.model) \in ModelNames \cup {NoHealth}
    BY <1>1, <1>7 DEF Where, HealthSummary
<1>9. ASSUME NEW p \in ProviderNames \cup {NoHealth}, NEW c \in Categories
      PROVE  Fault(e, c, p) \in Errors
    BY <1>7 DEF Fault, Errors
<1>10. CASE e.type = "EXECUTION_STARTED"
  <2> DEFINE t == Started(s)
  <2>1. t \in HealthSummary
      BY <1>1 DEF Started, HealthSummary
  <2>2. /\ t.seen = s.seen /\ t.provider = s.provider /\ t.finalized = s.finalized
        /\ t.success = s.success /\ (s.finalized => t.status = s.status)
      BY <1>1 DEF Started, HealthSummary
  <2>3. n = put(t)
      BY <1>10 DEF EventApplied, put, s, n
  <2> HIDE DEF t
  <2>4. Follows(t, h.executions[x], e)
      BY <1>1, <1>2, <1>10, <2>1, <2>2 DEF Follows, ShowsOutcome, EndTypes
  <2> QED
      BY <1>5, <1>10, <2>1, <2>3, <2>4 DEF EndTypes
<1>11. CASE e.type = "EXECUTION_COMPLETED"
  <2> DEFINE t == Ended(s, e, "COMPLETED")
  <2>1. /\ t \in HealthSummary /\ t.seen = s.seen /\ t.provider = s.provider
        /\ ShowsOutcome(t) /\ t.finalized
      BY <1>1, EndedFollows
  <2>2. n = ended(t)
      BY <1>11 DEF EventApplied, put, s, n
  <2> HIDE DEF t
  <2>3. Follows(t, h.executions[x], e)
      BY <1>1, <1>11, <2>1 DEF Follows, EndTypes
  <2>4. /\ t.provider \in ProviderNames \cup {NoHealth} /\ t.model \in ModelNames \cup {NoHealth}
        /\ t.latency \in Milliseconds
      BY <2>1 DEF HealthSummary
  <2> QED
      BY <1>6, <1>11, <2>1, <2>2, <2>3, <2>4 DEF AggregateTypes, EndTypes
<1>12. CASE e.type = "EXECUTION_FAILED"
  <2> DEFINE r == Ended(s, e, "FAILED")
             fault == Fault(e, FailureCategory(e), s.provider)
             t == [r EXCEPT !.errors = Append(@, fault)]
  <2>1. /\ r \in HealthSummary /\ r.seen = s.seen /\ r.provider = s.provider
        /\ ShowsOutcome(r) /\ r.finalized
      BY <1>1, EndedFollows
  <2>2. n = ended(t)
      BY <1>12 DEF EventApplied, put, s, n
  <2>3. fault \in Errors
      BY <1>1, <1>7, <1>9 DEF HealthSummary
  <2> HIDE DEF r, fault
  <2>4. r.errors \in Seq(Errors)
      BY <2>1 DEF HealthSummary
  <2>5. Append(r.errors, fault) \in Seq(Errors)
      BY <2>3, <2>4
  <2>6. t \in HealthSummary
      BY <2>1, <2>5 DEF HealthSummary
  <2>7. /\ t.seen = r.seen /\ t.provider = r.provider /\ t.finalized = r.finalized
        /\ t.success = r.success /\ t.status = r.status
      BY <2>1 DEF HealthSummary
  <2> HIDE DEF t
  <2>8. Follows(t, h.executions[x], e)
      BY <1>1, <1>12, <2>1, <2>6, <2>7 DEF Follows, EndTypes, ShowsOutcome
  <2>9. /\ t.provider \in ProviderNames \cup {NoHealth} /\ t.model \in ModelNames \cup {NoHealth}
        /\ t.latency \in Milliseconds
      BY <2>6 DEF HealthSummary
  <2> QED
      BY <1>6, <1>12, <2>2, <2>6, <2>8, <2>9 DEF AggregateTypes, EndTypes
<1>13. CASE e.type = "PROVIDER_ERROR"
  <2> DEFINE fault == Fault(e, ErrorCategory(e), Where(e.provider, s.provider))
             t == [s EXCEPT !.errors = Append(@, fault)]
  <2>1. n = met(t)
      BY <1>13 DEF EventApplied, put, s, n
  <2>2. fault \in Errors
      BY <1>7, <1>8, <1>9
  <2> HIDE DEF fault
  <2>3. s.errors \in Seq(Errors)
      BY <1>1 DEF HealthSummary
  <2>4. Append(s.errors, fault) \in Seq(Errors)
      BY <2>2, <2>3
  <2>5. t \in HealthSummary
      BY <1>1, <2>4 DEF HealthSummary
  <2>6. /\ t.seen = s.seen /\ t.provider = s.provider /\ t.finalized = s.finalized
        /\ t.success = s.success /\ t.status = s.status
      BY <1>1 DEF HealthSummary
  <2> HIDE DEF t
  <2>7. Follows(t, h.executions[x], e)
      BY <1>1, <1>2, <1>13, <2>5, <2>6 DEF Follows, EndTypes, ShowsOutcome
  <2> QED
      BY <1>6, <1>7, <1>8, <1>13, <2>1, <2>5, <2>7 DEF AggregateTypes, EndTypes
<1>14. CASE e.type = "RETRY_STARTED"
  <2> DEFINE t == [s EXCEPT !.retries = @ + 1]
  <2>1. n = met(t)
      BY <1>14 DEF EventApplied, put, s, n
  <2>2. s.retries + 1 \in Nat
      BY <1>1 DEF HealthSummary
  <2>3. t \in HealthSummary
      BY <1>1, <2>2 DEF HealthSummary
  <2>4. /\ t.seen = s.seen /\ t.provider = s.provider /\ t.finalized = s.finalized
        /\ t.success = s.success /\ t.status = s.status
      BY <1>1 DEF HealthSummary
  <2> HIDE DEF t
  <2>5. Follows(t, h.executions[x], e)
      BY <1>1, <1>2, <1>14, <2>3, <2>4 DEF Follows, EndTypes, ShowsOutcome
  <2> QED
      BY <1>6, <1>7, <1>8, <1>14, <2>1, <2>3, <2>5 DEF AggregateTypes, EndTypes
<1>15. CASE e.type = "STATE_CHANGED"
  <2> DEFINE t == IF s.finalized THEN s ELSE [s EXCEPT !.status = e.new_state]
  <2>1. n = put(t)
      BY <1>15 DEF EventApplied, put, s, n
  <2>2. t \in HealthSummary
      BY <1>1, <1>7 DEF HealthSummary
  <2>3. /\ t.seen = s.seen /\ t.provider = s.provider /\ t.finalized = s.finalized
        /\ t.success = s.success /\ (s.finalized => t.status = s.status)
      BY <1>1 DEF HealthSummary
  <2> HIDE DEF t
  <2>4. Follows(t, h.executions[x], e)
      BY <1>1, <1>2, <1>15, <2>2, <2>3 DEF Follows, EndTypes, ShowsOutcome
  <2> QED
      BY <1>5, <1>15, <2>1, <2>2, <2>4 DEF EndTypes
<1>16. CASE e.type \notin EndTypes \cup {"EXECUTION_STARTED", "PROVIDER_ERROR",
                                        "RETRY_STARTED", "STATE_CHANGED"}
  <2>1. n = put(s)
      BY <1>16 DEF EventApplied, put, s, n, EndTypes
  <2>2. Follows(s, h.executions[x], e)
      BY <1>1, <1>2, <1>16 DEF Follows
  <2> QED
      BY <1>1, <1>5, <1>16, <2>1, <2>2
<1> QED
    BY <1>10, <1>11, <1>12, <1>13, <1>14, <1>15, <1>16 DEF EndTypes

-----------------------------------------------------------------------------
\* Nothing but the observations matters.
LEMMA HealthUnchanged ==
    ASSUME HealthInv, health' = health
    PROVE  HealthInv'
<1>1. \A types : Handled(types)' = Handled(types)
    BY DEF Handled
<1>2. \A p, type : OutcomesOf(p, type)' = OutcomesOf(p, type)
    BY <1>1 DEF OutcomesOf, ServedBy
<1> QED
    BY <1>1, <1>2 DEF HealthInv, TerminalProvidersKept, TotalsAreOutcomes

LEMMA InitHealth ==
    ASSUME NEW h, h = NoObservations
    PROVE  /\ h \in Observations /\ AllWhole(h)
           /\ \A x \in HealthExecutions : ShowsOutcome(h.executions[x]) /\ h.executions[x].seen = {}
           /\ \A p \in Providers : h.providers[p].successful = 0 /\ h.providers[p].failed = 0
<1>1. NoExecution \in HealthSummary
  <2>1. NoHealth \in Milliseconds /\ <<>> \in Seq(Errors)
      BY DEF Milliseconds
  <2> QED
      BY <2>1 DEF NoExecution, HealthSummary
<1>2. NoAggregate \in Aggregate
  <2>1. NoHealth \in Milliseconds /\ NoHealth \in Means /\ [c \in Categories |-> 0] \in Counters
      BY DEF Milliseconds, Means, Counters
  <2> QED
      BY <2>1 DEF NoAggregate, Aggregate
<1>3. WholeWithLatency(NoAggregate)
    BY DEF WholeWithLatency, AggregateIsWhole, ErrorsOf, NoAggregate, Categories
<1>4. /\ h.executions = [x \in HealthExecutions |-> NoExecution]
      /\ h.providers = [p \in Providers |-> NoAggregate]
      /\ h.models = [k \in Models |-> NoAggregate]
    BY DEF NoObservations, Providers, Models
<1>5. h \in Observations
  <2>1. h = [executions |-> h.executions, providers |-> h.providers, models |-> h.models]
      BY DEF NoObservations
  <2>2. /\ h.executions \in [HealthExecutions -> HealthSummary]
        /\ h.providers \in [Providers -> Aggregate] /\ h.models \in [Models -> Aggregate]
      BY <1>1, <1>2, <1>4
  <2> QED
      BY <2>1, <2>2 DEF Observations
<1>6. ShowsOutcome(NoExecution) /\ NoExecution.seen = {}
    BY DEF ShowsOutcome, NoExecution
<1>7. NoAggregate.successful = 0 /\ NoAggregate.failed = 0
    BY DEF NoAggregate
<1> QED
    BY <1>3, <1>4, <1>5, <1>6, <1>7 DEF AllWhole

\* An engine that has seen nothing agrees with it.
LEMMA NothingSeen == health = NoObservations => HealthInv
<1> SUFFICES ASSUME health = NoObservations
             PROVE  HealthInv
    OBVIOUS
<1>1. /\ health \in Observations /\ AllWhole(health)
      /\ \A x \in HealthExecutions : ShowsOutcome(health.executions[x])
                                     /\ health.executions[x].seen = {}
      /\ \A p \in Providers : health.providers[p].successful = 0 /\ health.providers[p].failed = 0
    BY InitHealth
<1>2. \A types : Handled(types) = {}
    BY <1>1, HealthAssumption DEF Handled
<1>3. \A p, type : OutcomesOf(p, type) = {}
    BY <1>2 DEF OutcomesOf
<1>4. DOMAIN health.providers = Providers
    BY <1>1 DEF Observations
<1>5. IsFiniteSet({}) /\ Cardinality({}) = 0
    BY FS_EmptySet
<1> QED
    BY <1>1, <1>2, <1>3, <1>4, <1>5
    DEF HealthInv, AllWhole, TerminalProvidersKept, TotalsAreOutcomes

LEMMA HandledInv ==
    ASSUME HealthInv, NEW e \in HealthEvents, health_handle_event(e)
    PROVE  HealthInv'
<1> DEFINE x == e.execution_id
<1>1. CASE e.event_id \in health.executions[x].seen
    BY <1>1, HealthUnchanged DEF health_handle_event, HealthTaken
<1>2. CASE e.event_id \notin health.executions[x].seen
  <2>0. /\ x \in HealthExecutions /\ health \in Observations /\ AllWhole(health)
        /\ health.executions \in [HealthExecutions -> HealthSummary]
        /\ \A y \in HealthExecutions : ShowsOutcome(health.executions[y])
      BY HealthAssumption DEF HealthInv, AllWhole, Observations
  <2>1. health' = EventApplied(health, e)
      BY <1>2 DEF health_handle_event, HealthTaken
  <2>2. /\ health' \in Observations /\ AllWhole(health')
        /\ \E t : /\ Follows(t, health.executions[x], e)
                  /\ health'.executions = [health.executions EXCEPT ![x] = t]
                  /\ CountedFor(health', health, t.provider, e)
      BY <2>0, <2>1, EventAppliedEffect
  <2>3. PICK t : /\ Follows(t, health.executions[x], e)
                 /\ health'.executions = [health.executions EXCEPT ![x] = t]
                 /\ CountedFor(health', health, t.provider, e)
      BY <2>2
  <2>4. \A y \in HealthExecutions :
          health'.executions[y] = IF y = x THEN t ELSE health.executions[y]
      BY <2>0, <2>3
  <2>5. /\ t.seen = health.executions[x].seen \cup {e.event_id}
        /\ t.provider = (IF health.executions[x].provider = NoHealth THEN e.provider
                         ELSE health.executions[x].provider)
        /\ ShowsOutcome(t)
        /\ t.finalized <=> health.executions[x].finalized \/ e.type \in EndTypes
      BY <2>3 DEF Follows
  <2>6. ASSUME NEW f \in HealthEvents
        PROVE  f.event_id \in health'.executions[f.execution_id].seen
                 <=> f.event_id \in health.executions[f.execution_id].seen \/ f = e
    <3>1. f.execution_id \in HealthExecutions
        BY HealthAssumption
    <3>2. CASE f.execution_id = x
        BY <2>4, <2>5, <3>1, <3>2, HealthAssumption
    <3>3. CASE f.execution_id # x
        BY <2>4, <3>1, <3>3
    <3> QED
        BY <3>2, <3>3
  <2>7. \A types : Handled(types)' = Handled(types) \cup (IF e.type \in types THEN {e} ELSE {})
      BY <2>6 DEF Handled
  <2>8. e \notin Handled(EndTypes)
      BY <1>2 DEF Handled
  <2>9. \A f \in Handled(EndTypes) : f \in HealthEvents /\ f.execution_id \in HealthExecutions
      BY HealthAssumption DEF Handled
  <2>10. IsFiniteSet(Handled(EndTypes)) /\ IsFiniteSet(Handled(EndTypes)')
    <3>1. IsFiniteSet(Handled(EndTypes))
        BY DEF HealthInv
    <3>2. IsFiniteSet(Handled(EndTypes) \cup {e})
        BY <3>1, FS_AddElement
    <3>3. Handled(EndTypes)' \in {Handled(EndTypes), Handled(EndTypes) \cup {e}}
        BY <2>7
    <3> QED
        BY <3>1, <3>2, <3>3
  <2>11. \A f \in Handled(EndTypes)' : health'.executions[f.execution_id].finalized
      BY <2>0, <2>4, <2>5, <2>7, <2>9 DEF HealthInv
  <2>12. TerminalProvidersKept'
    <3>1. \A f \in Handled(EndTypes)' :
            f.provider # NoHealth => health'.executions[f.execution_id].provider # NoHealth
        BY <2>0, <2>4, <2>5, <2>7, <2>9 DEF HealthInv, TerminalProvidersKept
    <3> QED
        BY <3>1 DEF TerminalProvidersKept
  <2>13. \A y \in HealthExecutions : ShowsOutcome(health'.executions[y])
      BY <2>0, <2>4, <2>5
  <2>14. TotalsAreOutcomes'
    <3> SUFFICES ASSUME \A f \in Handled(EndTypes)' : f.provider # NoHealth,
                        NEW p \in Providers
                 PROVE  /\ health'.providers[p].successful
                             = Cardinality(OutcomesOf(p, "EXECUTION_COMPLETED")')
                        /\ health'.providers[p].failed
                             = Cardinality(OutcomesOf(p, "EXECUTION_FAILED")')
      <4>1. DOMAIN health'.providers = Providers
          BY <2>2 DEF Observations
      <4> QED
          BY <4>1 DEF TotalsAreOutcomes
    <3>1. \A f \in Handled(EndTypes) : f.provider # NoHealth
        BY <2>7
    <3>2. /\ health.providers[p].successful = Cardinality(OutcomesOf(p, "EXECUTION_COMPLETED"))
          /\ health.providers[p].failed = Cardinality(OutcomesOf(p, "EXECUTION_FAILED"))
      <4>1. DOMAIN health.providers = Providers
          BY <2>0 DEF Observations
      <4> QED
          BY <3>1, <4>1 DEF HealthInv, TotalsAreOutcomes
    <3>3. \A f \in Handled(EndTypes) : ServedBy(f.execution_id, p)' = ServedBy(f.execution_id, p)
      <4>1. \A f \in Handled(EndTypes) : health.executions[f.execution_id].provider # NoHealth
          BY <3>1 DEF HealthInv, TerminalProvidersKept
      <4>2. \A f \in Handled(EndTypes) : health'.executions[f.execution_id].provider
                                           = health.executions[f.execution_id].provider
          BY <2>4, <2>5, <2>9, <4>1
      <4> QED
          BY <4>2 DEF ServedBy
    <3>4. e.type \in EndTypes => (ServedBy(x, p)' <=> t.provider # NoHealth /\ p = Lower(t.provider))
        BY <2>0, <2>4 DEF ServedBy
    <3>5. ASSUME NEW type \in EndTypes
          PROVE  /\ OutcomesOf(p, type)' = OutcomesOf(p, type) \cup
                      (IF e.type = type /\ t.provider # NoHealth /\ p = Lower(t.provider)
                       THEN {e} ELSE {})
                 /\ e \notin OutcomesOf(p, type)
                 /\ OutcomesOf(p, type) \in SUBSET Handled(EndTypes)
      <4>1. /\ Handled({type}) \subseteq Handled(EndTypes)
            /\ Handled({type})' = Handled({type}) \cup (IF e.type = type THEN {e} ELSE {})
          BY <2>7 DEF Handled
      <4>2. \A f \in Handled({type}) : ServedBy(f.execution_id, p)' <=> ServedBy(f.execution_id, p)
          BY <3>3, <4>1
      <4> QED
          BY <2>8, <3>4, <4>1, <4>2 DEF OutcomesOf
    <3>6. ASSUME NEW type \in EndTypes
          PROVE  /\ Cardinality(OutcomesOf(p, type)) \in Nat
                 /\ Cardinality(OutcomesOf(p, type)') = Cardinality(OutcomesOf(p, type)) +
                      (IF e.type = type /\ t.provider # NoHealth /\ p = Lower(t.provider)
                       THEN 1 ELSE 0)
      <4>1. IsFiniteSet(OutcomesOf(p, type))
          BY <2>10, <3>5, FS_Subset
      <4>2. Cardinality(OutcomesOf(p, type)) \in Nat
          BY <4>1, FS_CardinalityType
      <4>3. Cardinality(OutcomesOf(p, type) \cup {e}) = Cardinality(OutcomesOf(p, type)) + 1
          BY <3>5, <4>1, FS_AddElement
      <4>4. CASE e.type = type /\ t.provider # NoHealth /\ p = Lower(t.provider)
          BY <3>5, <4>2, <4>3, <4>4
      <4>5. CASE ~ (e.type = type /\ t.provider # NoHealth /\ p = Lower(t.provider))
        <5>1. OutcomesOf(p, type)' = OutcomesOf(p, type)
            BY <3>5, <4>5
        <5> QED
            BY <4>2, <4>5, <5>1
      <4> QED
          BY <4>4, <4>5
    <3> QED
        BY <2>3, <3>2, <3>6 DEF CountedFor, EndTypes
  <2> QED
      BY <2>2, <2>10, <2>11, <2>12, <2>13, <2>14 DEF HealthInv, AllWhole
<1> QED
    BY <1>1, <1>2

LEMMA NextHealth == HealthInv /\ [HealthNext]_health_vars => HealthInv'
<1> SUFFICES ASSUME HealthInv, [HealthNext]_health_vars
             PROVE  HealthInv'
    OBVIOUS
<1>1. ASSUME NEW e \in HealthEvents, health_handle_event(e)
      PROVE  HealthInv'
    BY <1>1, HandledInv
<1>2. CASE health_attach_to_bus \/ health_detach_from_bus \/ UNCHANGED health_vars
    BY <1>2, HealthUnchanged DEF health_attach_to_bus, health_detach_from_bus, health_vars
<1>3. CASE health_clear
  <2>1. health' = NoObservations
      BY <1>3 DEF health_clear
  <2>2. (health = NoObservations => HealthInv)'
      BY NothingSeen, PTL
  <2> QED
      BY <2>1, <2>2
<1> QED
    BY <1>1, <1>2, <1>3 DEF HealthNext

\* In whatever order events arrive, and from whatever names and categories: no
\* late event reopens an execution, every aggregate accounts for its outcomes
\* and its errors, and a provider's totals are its executions' outcomes.
THEOREM HealthAgreement == HealthSpec => []HealthAgrees
<1>1. HealthInit => HealthInv
    BY NothingSeen DEF HealthInit
<1>2. HealthInv => HealthAgrees
  <2> SUFFICES ASSUME HealthInv
               PROVE  HealthAgrees
      OBVIOUS
  <2>1. DOMAIN health.providers = Providers /\ DOMAIN health.models = Models
      BY DEF HealthInv, Observations
  <2>2. OutcomesStand
      BY HealthAssumption DEF HealthInv, OutcomesStand, ShowsOutcome, Handled
  <2> QED
      BY <2>1, <2>2 DEF HealthInv, HealthAgrees, WholeWithLatency
<1> QED
    BY <1>1, <1>2, NextHealth, PTL DEF HealthSpec
=============================================================================
