---------------------------- MODULE ToolObserver ----------------------------
(***************************************************************************)
(* The tool activity observer (infuse/tools/observer.py): one record per   *)
(* tool invocation of an execution, correlated from TOOL_CALLED and        *)
(* TOOL_COMPLETED events that come in any order.  A completion with a call *)
(* id finds its call by the id; one without is given to the first open     *)
(* call of that tool.  The handler holds the observer's lock throughout,   *)
(* so an event is one step; ToolTaken is that step on the activity of one  *)
(* execution, and is also used where events come from an agent adapter.    *)
(***************************************************************************)
EXTENDS Integers, Sequences, FiniteSets, SequencesExt

CONSTANTS
    BadDuration, \* a duration that is not a number
    ToolExecutions, \* execution ids
    ToolEvents,     \* the events that may arrive, see ToolEvent below
    NoTool,         \* an absent value
    MaxToolLinks,   \* bound: attach_to_bus calls
    MaxToolClears   \* bound: clear calls

Unknown == <<"unknown_tool">>

\* An event id names one event of an execution, and a call id one call and one
\* completion.
ASSUME ToolAssumption ==
    /\ NoTool \notin BOOLEAN
    /\ \A e \in ToolEvents :
         /\ e.execution_id \in ToolExecutions /\ e.type \in {"TOOL_CALLED", "TOOL_COMPLETED"}
         /\ e.event_id # NoTool /\ e.error \in BOOLEAN
    /\ \A e, f \in ToolEvents : e.execution_id = f.execution_id =>
         /\ e.event_id = f.event_id => e = f
         /\ e.call_id = f.call_id /\ e.call_id # NoTool /\ e.type = f.type => e = f

VARIABLES
    tools,       \* _summaries, _invocations and _seen_event_ids by execution
    tool_subs,   \* _subscription_ids
    tool_links,  \* the observer's subscriptions on the bus
    tool_made,   \* how many subscriptions were ever made
    tool_clears  \* how many times the observer was cleared

tool_vars == <<tools, tool_subs, tool_links, tool_made, tool_clears>>

-----------------------------------------------------------------------------
(***************************************************************************)
(* One event, on the activity of its execution.                            *)
(***************************************************************************)
\* A duration is kept when it is not negative; BadDuration is one float() refuses.
ToolDuration(d) == IF d # BadDuration /\ d >= 0 THEN d ELSE NoTool

Elapsed(from, to) == IF to >= from THEN to - from ELSE NoTool

NewInvocation(e, key, status) ==
    [key |-> key, tool |-> e.tool, status |-> status, success |-> NoTool,
     failed |-> FALSE, duration |-> NoTool, started |-> NoTool, completed |-> NoTool,
     call_event |-> NoTool, completion_event |-> NoTool]

CallKey(e) == IF e.call_id # NoTool THEN <<"id", e.call_id>> ELSE <<"call", e.event_id>>

FirstCall(e) ==
    [NewInvocation(e, CallKey(e), "CALLED") EXCEPT
        !.started = e.time, !.call_event = e.event_id]

\* The call of an invocation that is already recorded: only what is missing.
LateCall(r, e) ==
    LET started == IF r.started = NoTool THEN e.time ELSE r.started
    IN [r EXCEPT
          !.started = started,
          !.call_event = IF @ = NoTool THEN e.event_id ELSE @,
          !.tool = IF @ = Unknown THEN e.tool ELSE @,
          !.duration = IF @ = NoTool /\ r.completed # NoTool
                       THEN Elapsed(started, r.completed) ELSE @]

Succeeded(e) == ~e.error /\ e.success # FALSE

Completed(r, e) ==
    [r EXCEPT
       !.completion_event = e.event_id, !.completed = e.time,
       !.tool = IF e.tool # Unknown THEN e.tool ELSE @,
       !.status = IF Succeeded(e) THEN "COMPLETED" ELSE "FAILED",
       !.success = Succeeded(e),
       !.failed = ~Succeeded(e),
       !.duration = IF e.duration # NoTool THEN ToolDuration(e.duration)
                    ELSE IF r.started # NoTool THEN Elapsed(r.started, e.time) ELSE @]

IndexOfKey(invs, key) == SelectInSeq(invs, LAMBDA r : r.key = key)

\* Mutant: any open call of the execution matches.
Mut_OpenMatch(invs, e) == SelectInSeq(invs, LAMBDA r : r.status = "CALLED")

OpenMatch(invs, e) ==
    SelectInSeq(invs, LAMBDA r : r.status = "CALLED" /\ e.tool \in {r.tool, Unknown})

Call(invs, e) ==
    LET i == IndexOfKey(invs, CallKey(e))
    IN IF i # 0 THEN ReplaceAt(invs, i, LateCall(invs[i], e))
       ELSE Append(invs, FirstCall(e))

Completion(invs, e) ==
    LET i == IF e.call_id # NoTool THEN IndexOfKey(invs, <<"id", e.call_id>>)
             ELSE OpenMatch(invs, e)
        key == IF e.call_id # NoTool THEN <<"id", e.call_id>> ELSE <<"comp", e.event_id>>
    IN IF i # 0 THEN ReplaceAt(invs, i, Completed(invs[i], e))
       ELSE Append(invs, Completed(NewInvocation(e, key, "COMPLETED"), e))

_recalculate_summary(invs) ==
    LET open == {i \in DOMAIN invs : invs[i].status = "CALLED"}
        timed == SelectSeq(invs, LAMBDA r : r.duration # NoTool)
    IN [total |-> Len(invs),
        successful |-> Cardinality({i \in DOMAIN invs : invs[i].success = TRUE}),
        failed |-> Cardinality({i \in DOMAIN invs :
                                  invs[i].status = "FAILED" \/ invs[i].success = FALSE}),
        incomplete |-> Cardinality(open),
        tools |-> {invs[i].tool : i \in DOMAIN invs},
        total_duration |-> FoldLeft(LAMBDA sum, r : sum + r.duration, 0, timed),
        timed |-> Len(timed),
        completeness |-> IF invs = <<>> THEN "UNKNOWN"
                         ELSE IF open = {} THEN "COMPLETE" ELSE "PARTIAL"]

NoActivity == [seen |-> {}, last_sequence |-> 0, invocations |-> <<>>,
               summary |-> _recalculate_summary(<<>>)]

ToolTaken(a, e) ==
    IF e.event_id \in a.seen THEN a
    ELSE LET invs == IF e.type = "TOOL_CALLED" THEN Call(a.invocations, e)
                     ELSE Completion(a.invocations, e)
         IN [seen |-> a.seen \cup {e.event_id},
             last_sequence |-> IF e.sequence > a.last_sequence THEN e.sequence
                               ELSE a.last_sequence,
             invocations |-> invs,
             summary |-> _recalculate_summary(invs)]

-----------------------------------------------------------------------------
(***************************************************************************)
(* The observer and its subscriptions.                                     *)
(***************************************************************************)
ToolInit ==
    /\ tools = [x \in ToolExecutions |-> NoActivity]
    /\ tool_subs = {} /\ tool_links = {} /\ tool_made = 0
    /\ tool_clears = 0

\* An event is handed in by the bus, once for each subscription, or by a
\* caller of its own.
tool_handle_event(e) ==
    /\ tools' = [tools EXCEPT ![e.execution_id] = ToolTaken(@, e)]
    /\ UNCHANGED <<tool_subs, tool_links, tool_made, tool_clears>>

tool_attach_to_bus ==
    /\ tool_made < MaxToolLinks
    /\ tool_made' = tool_made + 1
    /\ tool_subs' = tool_subs \cup {tool_made'}
    /\ tool_links' = tool_links \cup {tool_made'}
    /\ UNCHANGED <<tools, tool_clears>>

tool_detach_from_bus ==
    /\ tool_subs # {}
    /\ tool_links' = tool_links \ tool_subs
    /\ tool_subs' = {}
    /\ UNCHANGED <<tools, tool_made, tool_clears>>

\* clear forgets the subscriptions and leaves them on the bus.
tool_clear ==
    /\ tool_clears < MaxToolClears
    /\ tool_clears' = tool_clears + 1
    /\ tools' = [x \in ToolExecutions |-> NoActivity]
    /\ tool_subs' = {}
    /\ UNCHANGED <<tool_links, tool_made>>

ToolNext ==
    \/ \E e \in ToolEvents : tool_handle_event(e)
    \/ tool_attach_to_bus \/ tool_detach_from_bus \/ tool_clear

ToolSpec == ToolInit /\ [][ToolNext]_tool_vars

-----------------------------------------------------------------------------
(***************************************************************************)
(* Properties.                                                             *)
(***************************************************************************)
Invocations(x) == tools[x].invocations

IdsOf(x, type) ==
    {e \in ToolEvents : e.execution_id = x /\ e.event_id \in tools[x].seen
                        /\ e.type = type /\ e.call_id # NoTool}

CallsAreTold(x) ==
    \A c \in IdsOf(x, "TOOL_CALLED"), d \in IdsOf(x, "TOOL_COMPLETED") :
        c.call_id = d.call_id =>
            \E i \in DOMAIN Invocations(x) :
                LET r == Invocations(x)[i]
                IN /\ {j \in DOMAIN Invocations(x) :
                         Invocations(x)[j].key = r.key} = {i}
                   /\ r.call_event = c.event_id /\ r.completion_event = d.event_id
                   /\ r.success = Succeeded(d)
                   /\ r.tool = (IF d.tool # Unknown THEN d.tool ELSE c.tool)
                   /\ r.status # "CALLED"

\* A completion that was given to a call with an id is replaced by the
\* completion that has this id.
Overtaken(x, p) ==
    \E c \in IdsOf(x, "TOOL_CALLED"), d \in IdsOf(x, "TOOL_COMPLETED") :
        c.call_id = d.call_id /\ p.tool \in {c.tool, Unknown}

\* Every completion that was taken without a call id is told by exactly one
\* invocation, of the tool it names if it names one, unless it was replaced.
CompletionsAreTold(x) ==
    \A p \in ToolEvents :
        /\ p.execution_id = x /\ p.event_id \in tools[x].seen
        /\ p.type = "TOOL_COMPLETED" /\ p.call_id = NoTool
        => \/ Overtaken(x, p)
           \/ \E i \in DOMAIN Invocations(x) :
                LET r == Invocations(x)[i]
                IN /\ r.completion_event = p.event_id
                   /\ \A j \in DOMAIN Invocations(x) :
                        Invocations(x)[j].completion_event = p.event_id => j = i
                   /\ p.tool # Unknown => r.tool = p.tool

\* A completion without a call id never ends a call of another tool than the
\* one it names.
NamesAgree(x) ==
    \A i \in DOMAIN Invocations(x) : \A c, d \in ToolEvents :
        /\ c.execution_id = x /\ d.execution_id = x
        /\ Invocations(x)[i].call_event = c.event_id
        /\ Invocations(x)[i].completion_event = d.event_id
        /\ d.call_id = NoTool
        => d.tool \in {c.tool, Unknown} \/ c.tool = Unknown

\* The summary accounts for every invocation exactly once, and is COMPLETE
\* just when every one of them has ended.
ToolTally(x) ==
    LET s == tools[x].summary
    IN /\ s.total = s.successful + s.failed + s.incomplete
       /\ s.completeness = "COMPLETE" <=> s.total > 0 /\ s.incomplete = 0

\* In whatever order the call, its completion and completions without an id
\* arrive: the two events of a call id are told by one invocation, with the
\* outcome of its own completion, a completion without an id is told once
\* unless the one that has the id replaced it, no tool answers for another's
\* call, and the summary counts every invocation once.
ToolsCorrelated ==
    \A x \in ToolExecutions :
        CallsAreTold(x) /\ CompletionsAreTold(x) /\ NamesAgree(x) /\ ToolTally(x)
=============================================================================
