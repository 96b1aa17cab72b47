------------------------------ MODULE EventBus ------------------------------
(***************************************************************************)
(* The in-memory event bus (infuse/events/bus.py).                         *)
(*                                                                         *)
(* publish checks and records an event under the lock, snapshots the       *)
(* matching subscriptions, and calls their handlers one by one with the    *)
(* lock released: other threads publish, subscribe, unsubscribe, clear and *)
(* close between two handler calls of a dispatch.                          *)
(***************************************************************************)
EXTENDS Integers, Sequences, FiniteSets

CONSTANTS
    Threads,      \* threads that publish
    Events,       \* envelopes: [event_id, type, execution_id, sequence]
    Executions,   \* execution ids
    Filters,      \* subscription filters: [types, executions], sets that pass
    Isolations,   \* the values isolate_handler_errors is constructed with
    MaxPublish,   \* bound: publish calls of each thread
    MaxSubs,      \* bound: subscribe calls
    MaxClears     \* bound: clear calls

ASSUME BusAssumption ==
    /\ \A event \in Events : event.sequence \in Nat /\ event.execution_id \in Executions
    /\ Isolations \subseteq BOOLEAN
    /\ MaxPublish \in Nat /\ MaxSubs \in Nat /\ MaxClears \in Nat

\* Subscription ids are fresh uuids.  Numbering them in the order they are
\* handed out makes the dictionary's insertion order their numeric order.
SubIds == 1..MaxSubs

EventIds == {event.event_id : event \in Events}

NoEvent == [event_id |-> "none", type |-> "none", execution_id |-> "none", sequence |-> -1]

VARIABLES
    isolate,        \* _isolate_handler_errors, set by the constructor only
    subscriptions,  \* the live subscription ids
    filter,         \* the filter each subscription was made with
    issued,         \* how many subscription ids were handed out
    published,      \* _published_events, as the set of its values
    sequences,      \* _execution_sequences, -1 where there is none
    handler_errors, \* _handler_errors, as a set of invocations
    closed,         \* _is_closed
    pc,             \* each publisher: "idle", "dispatch" or "record"
    current,        \* the event each publisher is dispatching
    matching,       \* its matching_subs, all of them
    pending,        \* those it has still to call
    failed,         \* whether a handler raised during this dispatch
    outcome,        \* how each publisher's last publish ended
    made,           \* how many publish calls each publisher made
    cleared,        \* how many times the bus was cleared
    received        \* what each subscription's handler was called with

busVars ==
    <<isolate, subscriptions, filter, issued, published, sequences, handler_errors, closed>>
callVars == <<pc, current, matching, pending, failed, outcome, made>>
vars == <<busVars, callVars, cleared, received>>

Init ==
    /\ isolate \in Isolations
    /\ subscriptions = {} /\ issued = 0
    /\ filter = [s \in SubIds |-> [types |-> {}, executions |-> {}]]
    /\ published = {} /\ handler_errors = {} /\ closed = FALSE
    /\ sequences = [x \in Executions |-> -1]
    /\ pc       = [t \in Threads |-> "idle"]
    /\ current  = [t \in Threads |-> NoEvent]
    /\ matching = [t \in Threads |-> {}]
    /\ pending  = [t \in Threads |-> {}]
    /\ failed   = [t \in Threads |-> FALSE]
    /\ outcome  = [t \in Threads |-> "none"]
    /\ made     = [t \in Threads |-> 0]
    /\ cleared  = 0
    /\ received = [s \in SubIds |-> <<>>]

-----------------------------------------------------------------------------
(***************************************************************************)
(* publish                                                                 *)
(***************************************************************************)

Known(event) == \E p \in published : p.event_id = event.event_id

Calls(t) ==
    /\ pc[t] = "idle" /\ made[t] < MaxPublish
    /\ made' = [made EXCEPT ![t] = @ + 1]

\* A publish call that ends at once: a closed bus and a conflicting
\* duplicate raise, an identical duplicate returns silently.
Refuse(t, event) ==
    /\ Calls(t)
    /\ \/ closed /\ outcome' = [outcome EXCEPT ![t] = "closed"]
       \/ ~closed /\ event \in published /\ outcome' = [outcome EXCEPT ![t] = "duplicate"]
       \/ /\ ~closed /\ Known(event) /\ event \notin published
          /\ outcome' = [outcome EXCEPT ![t] = "conflict"]
    /\ UNCHANGED <<busVars, pc, current, matching, pending, failed, cleared, received>>

Matches(s, event) ==
    /\ event.type \in filter[s].types
    /\ event.execution_id \in filter[s].executions

\* Mutant: the registry is not consulted.
Mut_Accept(t, event) ==
    /\ Calls(t) /\ ~closed
    /\ published' = published \cup {event}
    /\ sequences' = [sequences EXCEPT ![event.execution_id] =
                        IF @ >= event.sequence THEN @ ELSE event.sequence]
    /\ pc' = [pc EXCEPT ![t] = "dispatch"]
    /\ current' = [current EXCEPT ![t] = event]
    /\ LET subs == {s \in subscriptions : Matches(s, event)}
       IN /\ matching' = [matching EXCEPT ![t] = subs]
          /\ pending'  = [pending EXCEPT ![t] = subs]
    /\ failed' = [failed EXCEPT ![t] = FALSE]
    /\ UNCHANGED <<isolate, subscriptions, filter, issued, handler_errors, closed, outcome,
                   cleared, received>>

\* Mutant: the last sequence replaces a higher one.
Mut_AcceptLast(t, event) ==
    /\ Calls(t) /\ ~closed /\ ~Known(event)
    /\ published' = published \cup {event}
    /\ sequences' = [sequences EXCEPT ![event.execution_id] = event.sequence]
    /\ pc' = [pc EXCEPT ![t] = "dispatch"]
    /\ current' = [current EXCEPT ![t] = event]
    /\ LET subs == {s \in subscriptions : Matches(s, event)}
       IN /\ matching' = [matching EXCEPT ![t] = subs]
          /\ pending'  = [pending EXCEPT ![t] = subs]
    /\ failed' = [failed EXCEPT ![t] = FALSE]
    /\ UNCHANGED <<isolate, subscriptions, filter, issued, handler_errors, closed, outcome,
                   cleared, received>>

\* The locked part of an accepted publish.
Accept(t, event) ==
    /\ Calls(t) /\ ~closed /\ ~Known(event)
    /\ published' = published \cup {event}
    /\ sequences' = [sequences EXCEPT ![event.execution_id] =
                        IF @ >= event.sequence THEN @ ELSE event.sequence]
    /\ pc' = [pc EXCEPT ![t] = "dispatch"]
    /\ current' = [current EXCEPT ![t] = event]
    /\ LET subs == {s \in subscriptions : Matches(s, event)}
       IN /\ matching' = [matching EXCEPT ![t] = subs]
          /\ pending'  = [pending EXCEPT ![t] = subs]
    /\ failed' = [failed EXCEPT ![t] = FALSE]
    /\ UNCHANGED <<isolate, subscriptions, filter, issued, handler_errors, closed, outcome,
                   cleared, received>>

\* Mutant: a handler that raises ends the dispatch.
Mut_Invoke(t) ==
    /\ pc[t] = "dispatch"
    /\ \E s \in pending[t] : \E ok \in BOOLEAN :
         /\ \A r \in pending[t] : s <= r
         /\ pending' = [pending EXCEPT ![t] = IF ok THEN @ \ {s} ELSE {}]
         /\ received' = [received EXCEPT ![s] =
                Append(@, [event |-> current[t], by |-> t, call |-> made[t], ok |-> ok])]
         /\ pc' = [pc EXCEPT ![t] = IF ok THEN "dispatch" ELSE "record"]
    /\ UNCHANGED <<busVars, current, matching, failed, outcome, made, cleared>>

\* One handler call, in registration order; the handler returns or raises.
Invoke(t) ==
    /\ pc[t] = "dispatch"
    /\ \E s \in pending[t] : \E ok \in BOOLEAN :
         /\ \A r \in pending[t] : s <= r
         /\ pending' = [pending EXCEPT ![t] = @ \ {s}]
         /\ received' = [received EXCEPT ![s] =
                Append(@, [event |-> current[t], by |-> t, call |-> made[t], ok |-> ok])]
         /\ pc' = [pc EXCEPT ![t] = IF ok THEN "dispatch" ELSE "record"]
    /\ UNCHANGED <<busVars, current, matching, failed, outcome, made, cleared>>

\* The error is recorded under the lock, taken anew.
RecordError(t) ==
    /\ pc[t] = "record"
    /\ handler_errors' = handler_errors \cup {[by |-> t, call |-> made[t]]}
    /\ failed' = [failed EXCEPT ![t] = @ \/ ~isolate]
    /\ pc' = [pc EXCEPT ![t] = "dispatch"]
    /\ UNCHANGED <<isolate, subscriptions, filter, issued, published, sequences, closed,
                   current, matching, pending, outcome, made, cleared, received>>

\* Mutant: the collected errors are dropped.
Mut_Return(t) ==
    /\ pc[t] = "dispatch" /\ pending[t] = {}
    /\ pc' = [pc EXCEPT ![t] = "idle"]
    /\ outcome' = [outcome EXCEPT ![t] = "delivered"]
    /\ UNCHANGED <<busVars, current, matching, pending, failed, made, cleared, received>>

Return(t) ==
    /\ pc[t] = "dispatch" /\ pending[t] = {}
    /\ pc' = [pc EXCEPT ![t] = "idle"]
    /\ outcome' = [outcome EXCEPT ![t] = IF failed[t] THEN "delivery_error" ELSE "delivered"]
    /\ UNCHANGED <<busVars, current, matching, pending, failed, made, cleared, received>>

publish(t) ==
    \/ \E event \in Events : Refuse(t, event) \/ Accept(t, event)
    \/ Invoke(t) \/ RecordError(t) \/ Return(t)

-----------------------------------------------------------------------------
(***************************************************************************)
(* The other operations, each one locked step; any thread may call them.   *)
(***************************************************************************)

\* On a closed bus subscribe raises.
subscribe ==
    /\ ~closed /\ issued < MaxSubs
    /\ issued' = issued + 1
    /\ subscriptions' = subscriptions \cup {issued + 1}
    /\ \E f \in Filters : filter' = [filter EXCEPT ![issued + 1] = f]
    /\ UNCHANGED <<isolate, published, sequences, handler_errors, closed, callVars, cleared,
                   received>>

unsubscribe ==
    /\ \E s \in subscriptions : subscriptions' = subscriptions \ {s}
    /\ UNCHANGED <<isolate, filter, issued, published, sequences, handler_errors, closed,
                   callVars, cleared, received>>

\* Mutant: clearing leaves an execution without its default sequence.
Mut_Forget ==
    /\ subscriptions' = {} /\ published' = {} /\ handler_errors' = {}
    /\ sequences' = <<>>

Forget ==
    /\ subscriptions' = {} /\ published' = {} /\ handler_errors' = {}
    /\ sequences' = [x \in Executions |-> -1]

clear ==
    /\ cleared < MaxClears
    /\ cleared' = cleared + 1
    /\ Forget
    /\ UNCHANGED <<isolate, filter, issued, closed, callVars, received>>

close ==
    /\ ~closed
    /\ closed' = TRUE
    /\ Forget
    /\ UNCHANGED <<isolate, filter, issued, callVars, cleared, received>>

Next ==
    \/ \E t \in Threads : publish(t)
    \/ subscribe \/ unsubscribe \/ clear \/ close

Spec == Init /\ [][Next]_vars

-----------------------------------------------------------------------------
(***************************************************************************)
(* Properties.                                                             *)
(***************************************************************************)
Receipt == [event : Events \cup {NoEvent}, by : Threads, call : Nat, ok : BOOLEAN]

\* Every variable has its type.
TypeOK ==
    /\ isolate \in BOOLEAN
    /\ subscriptions \subseteq SubIds /\ issued \in 0..MaxSubs
    /\ DOMAIN filter = SubIds
    /\ published \subseteq Events
    /\ sequences \in [Executions -> Nat \cup {-1}]
    /\ handler_errors \subseteq [by : Threads, call : Nat]
    /\ closed \in BOOLEAN
    /\ pc \in [Threads -> {"idle", "dispatch", "record"}]
    /\ current \in [Threads -> Events \cup {NoEvent}]
    /\ matching \in [Threads -> SUBSET SubIds]
    /\ pending \in [Threads -> SUBSET SubIds]
    /\ failed \in [Threads -> BOOLEAN]
    /\ outcome \in [Threads -> {"none", "closed", "duplicate", "conflict", "delivered",
                                "delivery_error"}]
    /\ made \in [Threads -> Nat]
    /\ cleared \in Nat
    /\ received \in [SubIds -> Seq(Receipt)]

\* No handler is called twice with one event id, whichever threads publish it
\* how often, with equal or different contents, and even if the bus is cleared
\* and forgets what it published: the subscriptions go with it.
AtMostOnce ==
    \A s \in SubIds : \A i, j \in DOMAIN received[s] :
        received[s][i].event.event_id = received[s][j].event.event_id => i = j

Heard(t, s) ==
    \E i \in DOMAIN received[s] : received[s][i].by = t /\ received[s][i].call = made[t]

\* A publish that was accepted reaches every handler that was subscribed and
\* matched at that moment, and no other, although handlers raise and others
\* unsubscribe, clear or close meanwhile: whoever has not been called is
\* still to be called.
WholeAudience ==
    \A t \in Threads :
        pc[t] # "idle" \/ outcome[t] \in {"delivered", "delivery_error"} =>
            /\ \A s \in SubIds : Heard(t, s) <=> s \in matching[t] \ pending[t]
            /\ pc[t] = "idle" => pending[t] = {}

\* No failure of a handler is lost: until the bus is cleared or closed every
\* failed call of a publish that ended is on record, and a publish raises
\* exactly when errors are not isolated and a call of its own failed.
FailuresSurface ==
    /\ \A t \in Threads :
          pc[t] = "idle" /\ outcome[t] \in {"delivered", "delivery_error"} =>
              (outcome[t] = "delivery_error" <=>
                  /\ ~isolate
                  /\ \E s \in matching[t] : \E i \in DOMAIN received[s] :
                        /\ received[s][i].by = t /\ received[s][i].call = made[t]
                        /\ ~received[s][i].ok)
    /\ cleared = 0 /\ ~closed =>
          \A s \in SubIds : \A i \in DOMAIN received[s] :
              LET r == received[s][i]
              IN r.ok \/ pc[r.by] = "record" \/ [by |-> r.by, call |-> r.call] \in handler_errors

\* The bus's tables agree whatever calls overlap: one event per id, so that a
\* conflicting duplicate never gets in beside the original; the recorded
\* sequence of an execution is the highest published for it since the last
\* clear, in whatever order the events came; and a closed bus stays empty.
TablesAgree ==
    /\ \A p, q \in published : p.event_id = q.event_id => p = q
    /\ \A x \in Executions :
          LET seqs == {p.sequence : p \in {q \in published : q.execution_id = x}} \cup {-1}
          IN sequences[x] \in seqs /\ \A n \in seqs : n <= sequences[x]
    /\ closed => subscriptions = {} /\ published = {}
=============================================================================
