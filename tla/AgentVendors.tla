---------------------------- MODULE AgentVendors ----------------------------
(***************************************************************************)
(* An agent adapter of some vendor between its callers and the event bus:  *)
(* threads run steps of executions through it while others attach, detach  *)
(* and control them.  A step raises the session's count under the lock,    *)
(* runs its transport without it, and then publishes its events one after  *)
(* another.  Whatever publish raises is swallowed, and the events of the   *)
(* step that follow are lost: the bus is closed, it knows the id with      *)
(* other content, or it accepted the event and a handler raised that it    *)
(* does not isolate.  Tool and web events are handed to the observers.     *)
(* There is one bus, which may be closed but is not cleared, and the       *)
(* observers stay subscribed to it until then.                             *)
(***************************************************************************)
EXTENDS CodexAgent, OpenCodeAgent, HermesAgent, OpenClawAgent, LovableAgent,
        ClaudeAgent, ReferenceAgent

CONSTANTS
    AgentThreads,   \* threads that run steps
    AgentSetups,    \* vendors with their transport, see AgentInit
    Stdouts,        \* what a process may print
    Offers,         \* the tools a request may offer
    StepIndices,    \* step indices of requests
    AgentControls,  \* control operations
    MaxAgentSteps,  \* bound: steps begun
    MaxAgentCalls   \* bound: attach, detach, control, bus, close and clear calls

CliVendors == {"codex", "opencode", "hermes", "openclaw", "claude"}

TransportErrors ==
    {"timeout", "process_error", "not_found", "unexpected", "network", "authentication"}

Tags == {"step_ev", "tool_called", "tool_comp", "web_req", "web_resp"}

\* Which transport a vendor may have, what outputs are made of, and that an
\* absent value is neither an error nor an event id.
ASSUME AgentAssumption ==
    /\ AgentExecutions \subseteq ToolExecutions \cap WebExecutions
    /\ \A s \in AgentSetups :
         /\ \/ s.transport = "cli" /\ s.vendor \in CliVendors
            \/ s.transport = "http" /\ s.vendor = "lovable"
            \/ s.transport = "reference" /\ s.vendor \in CliVendors \cup {"lovable", "reference"}
         /\ s.custom = NoAgent \/ IsOutput(s.custom)
         /\ s.isolates \in BOOLEAN
    /\ \A out \in Stdouts :
         /\ out.whole \in {NoAgent, JsonArray} \/ IsObject(out.whole)
         /\ out.lines \in Seq(ToSet(out.lines)) /\ \A o \in ToSet(out.lines) : IsObject(o)
    /\ \A op \in AgentControls : op.execution_id \in AgentExecutions
    /\ NoAgent \notin TransportErrors
    /\ {NoTool, NoWeb} \cap Seq(Tags \cup Nat \cup AgentExecutions \cup StepIndices) = {}

VARIABLES
    setup,      \* the vendor, its transport and flags, and whether the bus isolates handlers
    adapter,    \* _sessions, executed_steps and received_controls
    processes,  \* _active_processes
    reference,  \* the reference transport
    agent_bus,  \* the bus that is attached: "none", "open" or "closed"
    agent_runs, \* every step that was begun, with its thread
    told,       \* the events the bus accepted, with their run and whether a handler raised
    answers,    \* the controls that were answered
    now,        \* the clock, in the resolution of event ids
    agent_calls \* how many other calls were made

agent_vars == <<setup, adapter, processes, reference, agent_bus, agent_runs, told,
                answers, now, agent_calls>>

agent_observers == <<tool_vars, web_vars>>

Is(vendor) == setup.vendor = vendor

AgentInit ==
    /\ setup \in AgentSetups
    /\ adapter = NoSessions
    /\ processes = NoProcesses
    /\ reference = ReferenceTransport(setup.flags, setup.custom)
    /\ agent_bus \in {"none", "open"}
    /\ agent_runs = <<>> /\ told = <<>> /\ answers = <<>>
    /\ now = 0 /\ agent_calls = 0

-----------------------------------------------------------------------------
(***************************************************************************)
(* Which adapter it is.                                                    *)
(***************************************************************************)
begin_step(a, x, k) ==
    CASE Is("codex")     -> codex_begin_step(a, x, k)
      [] Is("opencode")  -> opencode_begin_step(a, x, k)
      [] Is("hermes")    -> hermes_begin_step(a, x, k)
      [] Is("openclaw")  -> openclaw_begin_step(a, x, k)
      [] Is("lovable")   -> lovable_begin_step(a, x, k)
      [] Is("claude")    -> claude_begin_step(a, x, k)
      [] Is("reference") -> reference_begin_step(a, x, k)

attach_execution(a, x) ==
    CASE Is("codex")     -> codex_attach_execution(a, x)
      [] Is("opencode")  -> opencode_attach_execution(a, x)
      [] Is("hermes")    -> hermes_attach_execution(a, x)
      [] Is("openclaw")  -> openclaw_attach_execution(a, x)
      [] Is("lovable")   -> lovable_attach_execution(a, x)
      [] Is("claude")    -> claude_attach_execution(a, x)
      [] Is("reference") -> reference_attach_execution(a, x)

detach_execution(a, x) ==
    CASE Is("codex")     -> codex_detach_execution(a, x)
      [] Is("opencode")  -> opencode_detach_execution(a, x)
      [] Is("hermes")    -> hermes_detach_execution(a, x)
      [] Is("openclaw")  -> openclaw_detach_execution(a, x)
      [] Is("lovable")   -> lovable_detach_execution(a, x)
      [] Is("claude")    -> claude_detach_execution(a, x)
      [] Is("reference") -> reference_detach_execution(a, x)

launch(p, x, run) ==
    CASE Is("codex")    -> codex_launch(p, x, run)
      [] Is("opencode") -> opencode_launch(p, x, run)
      [] Is("hermes")   -> hermes_launch(p, x, run)
      [] Is("openclaw") -> openclaw_launch(p, x, run)
      [] Is("claude")   -> claude_launch(p, x, run)

forget(p, x) ==
    CASE Is("codex")    -> codex_forget(p, x)
      [] Is("opencode") -> opencode_forget(p, x)
      [] Is("hermes")   -> hermes_forget(p, x)
      [] Is("openclaw") -> openclaw_forget(p, x)
      [] Is("claude")   -> claude_forget(p, x)

parse(stdout) ==
    CASE Is("codex")    -> codex_parse(stdout)
      [] Is("opencode") -> opencode_parse(stdout)
      [] Is("hermes")   -> hermes_parse(stdout)
      [] Is("openclaw") -> openclaw_parse(stdout)
      [] Is("claude")   -> claude_parse(stdout)

reference_execute(r) ==
    CASE Is("codex")    -> codex_reference_execute(r)
      [] Is("opencode") -> opencode_reference_execute(r)
      [] Is("hermes")   -> hermes_reference_execute(r)
      [] Is("openclaw") -> openclaw_reference_execute(r)
      [] Is("lovable")  -> lovable_reference_execute(r)
      [] Is("claude")   -> claude_reference_execute(r)

events(x, k, t, out) ==
    CASE Is("codex")    -> codex_events(x, k, t, out)
      [] Is("opencode") -> opencode_events(x, k, t, out)
      [] Is("hermes")   -> hermes_events(x, k, t, out)
      [] Is("openclaw") -> openclaw_events(x, k, t, out)
      [] Is("lovable")  -> lovable_events(x, k, t, out)
      [] Is("claude")   -> claude_events(x, k, t, out)

response(out, offered) ==
    CASE Is("codex")    -> codex_response(out, offered)
      [] Is("opencode") -> opencode_response(out, offered)
      [] Is("hermes")   -> hermes_response(out, offered)
      [] Is("openclaw") -> openclaw_response(out, offered)
      [] Is("lovable")  -> lovable_response(out, offered)
      [] Is("claude")   -> claude_response(out, offered)

receive_control(a, op) ==
    CASE Is("codex")     -> codex_receive_control(a, op)
      [] Is("opencode")  -> opencode_receive_control(a, op)
      [] Is("hermes")    -> hermes_receive_control(a, op)
      [] Is("openclaw")  -> openclaw_receive_control(a, op)
      [] Is("lovable")   -> lovable_receive_control(a, op)
      [] Is("claude")    -> claude_receive_control(a, op)
      [] Is("reference") -> reference_receive_control(a, op)

execute_control(op) ==
    CASE Is("codex")     -> codex_execute_control(op)
      [] Is("opencode")  -> opencode_execute_control(op)
      [] Is("hermes")    -> hermes_execute_control(op)
      [] Is("openclaw")  -> openclaw_execute_control(op)
      [] Is("lovable")   -> lovable_execute_control(op)
      [] Is("claude")    -> claude_execute_control(op)
      [] Is("reference") -> reference_execute_control(setup.flags, op)

cancel_execution(p, x) ==
    CASE Is("codex")    -> codex_cancel_execution(p, x)
      [] Is("opencode") -> opencode_cancel_execution(p, x)
      [] Is("hermes")   -> hermes_cancel_execution(p, x)
      [] Is("openclaw") -> openclaw_cancel_execution(p, x)
      [] Is("lovable")  -> lovable_cancel_execution(p, x)
      [] Is("claude")   -> claude_cancel_execution(p, x)

terminate_session(p, x) ==
    CASE Is("codex")    -> codex_terminate_session(p, x)
      [] Is("opencode") -> opencode_terminate_session(p, x)
      [] Is("hermes")   -> hermes_terminate_session(p, x)
      [] Is("openclaw") -> openclaw_terminate_session(p, x)
      [] Is("lovable")  -> lovable_terminate_session(p, x)
      [] Is("claude")   -> claude_terminate_session(p, x)

reference_cancel(r, x) ==
    CASE Is("codex")    -> codex_reference_cancel(r, x)
      [] Is("opencode") -> opencode_reference_cancel(r, x)
      [] Is("hermes")   -> hermes_reference_cancel(r, x)
      [] Is("openclaw") -> openclaw_reference_cancel(r, x)
      [] Is("lovable")  -> lovable_reference_cancel(r, x)
      [] Is("claude")   -> claude_reference_cancel(r, x)

reference_terminate(r, x) ==
    CASE Is("codex")    -> codex_reference_terminate(r, x)
      [] Is("opencode") -> opencode_reference_terminate(r, x)
      [] Is("hermes")   -> hermes_reference_terminate(r, x)
      [] Is("openclaw") -> openclaw_reference_terminate(r, x)
      [] Is("lovable")  -> lovable_reference_terminate(r, x)
      [] Is("claude")   -> claude_reference_terminate(r, x)

clear_reference(r) ==
    CASE Is("codex")    -> codex_reference_clear(r)
      [] Is("opencode") -> opencode_reference_clear(r)
      [] Is("hermes")   -> hermes_reference_clear(r)
      [] Is("openclaw") -> openclaw_reference_clear(r)
      [] Is("lovable")  -> lovable_reference_clear(r)
      [] Is("claude")   -> claude_reference_clear(r)

-----------------------------------------------------------------------------
(***************************************************************************)
(* Steps.                                                                  *)
(***************************************************************************)
Running(t) ==
    \E r \in DOMAIN agent_runs : agent_runs[r].thread = t
                                 /\ agent_runs[r].pc \notin {"done", "failed"}

\* Mutant: a run keeps the first session object the adapter ever made.
Mut_NewRun(t, x, k, b, time) ==
    [thread |-> t, execution_id |-> x, step_index |-> k, object |-> 1,
     number |-> b.objects[1].step_count, time |-> time, pc |-> "running",
     plan |-> <<>>, next |-> 1, tools |-> NoAgent, offered |-> <<>>,
     overlapped |-> FALSE]

\* A run keeps the session object it began with; b is the adapter after it.
NewRun(t, x, k, b, time) ==
    [thread |-> t, execution_id |-> x, step_index |-> k,
     object |-> b.current[x], number |-> b.objects[b.current[x]].step_count,
     time |-> time, pc |-> "running", plan |-> <<>>, next |-> 1, tools |-> NoAgent,
     offered |-> <<>>,
     overlapped |-> \E r \in DOMAIN agent_runs :
                      /\ agent_runs[r].execution_id = x
                      /\ agent_runs[r].pc \notin {"done", "failed"}]

Begun(t, x, k, time) ==
    /\ ~Running(t) /\ Len(agent_runs) < MaxAgentSteps
    /\ now' = time
    /\ adapter' = begin_step(adapter, x, k)

\* The process is started and registered in the same step, see AgentControl.
BeginStep(t, x, k, offered, time) ==
    /\ ~Is("reference")
    /\ Begun(t, x, k, time)
    /\ agent_runs' = Append(agent_runs,
                        [NewRun(t, x, k, adapter', time) EXCEPT !.offered = offered])
    /\ processes' = IF setup.transport = "cli" /\ setup.available
                    THEN launch(processes, x, Len(agent_runs) + 1) ELSE processes
    /\ UNCHANGED <<setup, reference, agent_bus, told, answers, agent_calls, agent_observers>>

\* The transport gave an error, or an output that is answered and published.
TransportReturned(r, result) ==
    LET run == agent_runs[r]
        plan == IF result.error # NoAgent \/ agent_bus = "none" THEN <<>>
                ELSE events(run.execution_id, run.step_index, run.time, result.out)
    IN agent_runs' = [agent_runs EXCEPT
         ![r].pc = IF result.error # NoAgent THEN "failed"
                   ELSE IF plan = <<>> THEN "done" ELSE "publishing",
         ![r].plan = plan,
         ![r].tools = IF result.error # NoAgent THEN NoAgent
                      ELSE response(result.out, run.offered)]

CliEnds(r, result) ==
    /\ agent_runs[r].pc = "running" /\ setup.transport = "cli"
    /\ processes' = IF setup.available
                    THEN forget(processes, agent_runs[r].execution_id) ELSE processes
    /\ TransportReturned(r, result)
    /\ UNCHANGED <<setup, adapter, reference, agent_bus, told, answers, now, agent_calls,
                   agent_observers>>

\* A process ends with an error when it was killed; one that was only asked to
\* terminate may still end in any way.
CliFails(r) ==
    \E error \in IF setup.available THEN {"timeout", "process_error"} ELSE {"not_found"} :
        CliEnds(r, [error |-> error])

CliAnswers(r, stdout) ==
    /\ setup.transport = "cli" /\ setup.available /\ r \notin processes.killed
    /\ CliEnds(r, parse(stdout))

HttpReturns(r) ==
    /\ agent_runs[r].pc = "running" /\ setup.transport = "http"
    /\ TransportReturned(r, lovable_http_execute(setup.available))
    /\ UNCHANGED <<setup, adapter, processes, reference, agent_bus, told, answers, now,
                   agent_calls, agent_observers>>

ReferenceReturns(r) ==
    /\ agent_runs[r].pc = "running" /\ setup.transport = "reference"
    /\ reference' = ReferenceInvoked(reference, agent_runs[r].execution_id)
    /\ TransportReturned(r, reference_execute(reference))
    /\ UNCHANGED <<setup, adapter, processes, agent_bus, told, answers, now, agent_calls,
                   agent_observers>>

Known(e) == \E i \in DOMAIN told : told[i].event.event_id = e.event_id

Refuses(e) == agent_bus = "closed" \/ Known(e)

\* An event the bus was told before, content and all, is no error and is told to
\* nobody.  Arguments and the microseconds are left out here, so that an event
\* that looks the same may also be refused.
Repeats(e) == agent_bus # "closed" /\ \E i \in DOMAIN told : told[i].event = e

Accepts(e) == agent_bus # "closed" /\ ~Known(e)

Observed(e) ==
    IF e.type \in {"TOOL_CALLED", "TOOL_COMPLETED"}
    THEN tool_handle_event(e) /\ UNCHANGED web_vars
    ELSE IF e.type \in {"WEB_REQUEST", "WEB_RESPONSE"}
    THEN web_handle_event(e) /\ UNCHANGED tool_vars
    ELSE UNCHANGED agent_observers

\* Some handler raises after all of them were called, and publish with it when
\* the bus does not isolate them.
Raises == IF setup.isolates THEN {FALSE} ELSE BOOLEAN

Accepted(e, r, raised) == Append(told, [event |-> e, run |-> r, raised |-> raised])

\* The sequence is the count the session object has now.
Numbered(e, object) ==
    [f \in DOMAIN e \cup {"sequence"} |->
        IF f = "sequence" THEN adapter'.objects[object].step_count ELSE e[f]]

Published(r, cut) ==
    agent_runs' = [agent_runs EXCEPT
        ![r].next = @ + 1,
        ![r].pc = IF cut \/ agent_runs[r].next = Len(agent_runs[r].plan) THEN "done" ELSE @]

PublishNext(r) ==
    LET run == agent_runs[r]
        e == Numbered(run.plan[run.next], run.object)
    IN /\ run.pc = "publishing"
       /\ UNCHANGED <<setup, adapter, processes, reference, agent_bus, answers, now,
                      agent_calls>>
       /\ \/ /\ Refuses(e)
             /\ agent_runs' = [agent_runs EXCEPT ![r].pc = "done"]
             /\ UNCHANGED <<told, agent_observers>>
          \/ /\ Repeats(e)
             /\ Published(r, FALSE)
             /\ UNCHANGED <<told, agent_observers>>
          \/ /\ Accepts(e)
             /\ \E raised \in Raises : told' = Accepted(e, r, raised) /\ Published(r, raised)
             /\ Observed(e)

\* The reference adapter runs a whole step under its lock.
ReferenceStep(t, x, k, offered, time) ==
    /\ Is("reference") /\ ~reference_refuses_step(reference.flags)
    /\ Begun(t, x, k, time)
    /\ LET r == Len(agent_runs) + 1
           run == [NewRun(t, x, k, adapter', time) EXCEPT
                     !.plan = IF agent_bus = "none" THEN <<>> ELSE reference_events(x, k, time),
                     !.pc = "done",
                     !.tools = reference_response(setup.presets, k, offered)]
           e == Numbered(run.plan[1], run.object)
       IN \/ /\ run.plan = <<>> \/ Refuses(e)
             /\ agent_runs' = Append(agent_runs, run) /\ told' = told
          \/ /\ run.plan # <<>> /\ Repeats(e)
             /\ agent_runs' = Append(agent_runs, [run EXCEPT !.next = 2]) /\ told' = told
          \/ /\ run.plan # <<>> /\ Accepts(e)
             /\ agent_runs' = Append(agent_runs, [run EXCEPT !.next = 2])
             /\ \E raised \in Raises : told' = Accepted(e, r, raised)
    /\ UNCHANGED <<setup, processes, reference, agent_bus, answers, agent_calls,
                   agent_observers>>

-----------------------------------------------------------------------------
(***************************************************************************)
(* What other callers do meanwhile.                                        *)
(***************************************************************************)
Interferes ==
    /\ agent_calls < MaxAgentCalls
    /\ agent_calls' = agent_calls + 1
    /\ UNCHANGED <<setup, told, now, agent_observers>>

Attach(x) ==
    /\ Interferes
    /\ adapter' = attach_execution(adapter, x)
    /\ UNCHANGED <<processes, reference, agent_bus, agent_runs, answers>>

Detach(x) ==
    /\ Interferes
    /\ adapter' = detach_execution(adapter, x)
    /\ UNCHANGED <<processes, reference, agent_bus, agent_runs, answers>>

Control(op) ==
    LET x == op.execution_id
        answer == execute_control(op)
    IN /\ Interferes
       /\ adapter' = receive_control(adapter, op)
       /\ answers' = Append(answers, [op |-> op, status |-> answer.status])
       /\ processes' = IF ~answer.signal \/ setup.transport = "reference" THEN processes
                       ELSE IF op.hard THEN terminate_session(processes, x)
                       ELSE cancel_execution(processes, x)
       /\ reference' = IF ~answer.signal \/ setup.transport # "reference" THEN reference
                       ELSE IF op.hard THEN reference_terminate(reference, x)
                       ELSE reference_cancel(reference, x)
       /\ UNCHANGED <<agent_bus, agent_runs>>

\* There is one bus, which may be closed before it is attached.
attach_to_bus ==
    /\ Interferes
    /\ agent_bus' \in IF agent_bus = "none" THEN {"open", "closed"} ELSE {agent_bus}
    /\ UNCHANGED <<adapter, processes, reference, agent_runs, answers>>

CloseBus ==
    /\ Interferes
    /\ agent_bus = "open" /\ agent_bus' = "closed"
    /\ UNCHANGED <<adapter, processes, reference, agent_runs, answers>>

ClearTransport ==
    /\ Interferes
    /\ setup.transport = "reference" /\ ~Is("reference")
    /\ reference' = clear_reference(reference)
    /\ UNCHANGED <<adapter, processes, agent_bus, agent_runs, answers>>

\* The session objects are gone: the runs keep no object.
ClearReference ==
    /\ Interferes
    /\ Is("reference")
    /\ adapter' = reference_clear(adapter)
    /\ reference' = ReferenceTransport({}, NoAgent)
    /\ agent_runs' = [r \in DOMAIN agent_runs |-> [agent_runs[r] EXCEPT !.object = 0]]
    /\ UNCHANGED <<processes, agent_bus, answers>>

\* Two steps may fall into the same tick of the clock.
Ticks == IF agent_runs = <<>> THEN {now} ELSE {now, now + 1}

AgentNext ==
    \/ \E t \in AgentThreads, x \in AgentExecutions, k \in StepIndices, o \in Offers :
         \E time \in Ticks :
            BeginStep(t, x, k, o, time) \/ ReferenceStep(t, x, k, o, time)
    \/ \E r \in DOMAIN agent_runs :
         \/ CliFails(r) \/ \E stdout \in Stdouts : CliAnswers(r, stdout)
         \/ HttpReturns(r) \/ ReferenceReturns(r) \/ PublishNext(r)
    \/ \E x \in AgentExecutions : Attach(x) \/ Detach(x)
    \/ \E op \in AgentControls : Control(op)
    \/ attach_to_bus \/ CloseBus \/ ClearTransport \/ ClearReference

-----------------------------------------------------------------------------
(***************************************************************************)
(* Properties.                                                             *)
(***************************************************************************)
ToldOf(r) == {i \in DOMAIN told : told[i].run = r}

\* The i-th event told says what the event d of a plan says.
Tells(i, d) == \A f \in DOMAIN d : told[i].event[f] = d[f]

\* The i-th event told is of the step the run is of.
OfStep(i, run) ==
    /\ agent_runs[told[i].run].execution_id = run.execution_id
    /\ agent_runs[told[i].run].step_index = run.step_index

\* What follows in the plan of a run is lost: the bus is closed, the run's last
\* event was accepted and a handler raised, or another run of the same step
\* told what was due.
Lost(r) ==
    LET run == agent_runs[r]
    IN \/ agent_bus = "closed"
       \/ /\ ~setup.isolates /\ run.next > 1
          /\ \E i \in ToldOf(r) : told[i].raised /\ Tells(i, run.plan[run.next - 1])
       \/ \E i \in DOMAIN told \ ToldOf(r) :
             OfStep(i, run) /\ told[i].event.event_id = run.plan[run.next].event_id

\* The bus is told the events of a step in the order of its plan, and nothing of
\* a step that failed or was killed.  What a run is past was told, by itself or
\* by another run of the same step that said the same; a run stops before the
\* end of its plan only for one of the three reasons above.  No event carries
\* a number below the step's own or above its session's count.
StepsAreTold ==
    \A r \in DOMAIN agent_runs :
        LET run == agent_runs[r]
            own == ToldOf(r)
            past == 1..(run.next - 1)
        IN /\ run.pc \in {"running", "failed"} => own = {}
           /\ r \in processes.killed => run.pc \in {"running", "failed"}
           /\ \A p \in past : \E i \in DOMAIN told : OfStep(i, run) /\ Tells(i, run.plan[p])
           /\ \A i \in own : \E p \in past : Tells(i, run.plan[p])
           /\ \A i, j \in own, p, q \in past :
                i < j /\ Tells(i, run.plan[p]) /\ Tells(j, run.plan[q]) => p < q
           /\ run.pc = "done" /\ run.next <= Len(run.plan) => Lost(r)
           /\ run.object # 0 => \A i \in own :
                told[i].event.sequence \in run.number..adapter.objects[run.object].step_count

\* The session object o was given the controls numbered in I, in order.
Given(o, I) ==
    LET given == adapter.objects[o].control_history
    IN /\ Len(given) = Cardinality(I)
       /\ \A i \in I :
            /\ adapter.controls[i].execution_id = adapter.objects[o].execution_id
            /\ given[Cardinality({j \in I : j <= i})] = adapter.controls[i]

RunsOf(o) == {r \in DOMAIN agent_runs : agent_runs[r].object = o}

\* However steps, attachments and controls of several threads interleave: a
\* session object counts the steps that began with it, numbering each of them
\* once, and every control an adapter received was given to one session object
\* of its execution, in order, but for the ones that found no session.
SessionsAdd ==
    /\ \A o \in DOMAIN adapter.objects :
         /\ adapter.objects[o].step_count = Cardinality(RunsOf(o))
         /\ {agent_runs[r].number : r \in RunsOf(o)} = 1..Cardinality(RunsOf(o))
    /\ \E owner \in [DOMAIN adapter.controls -> 0..Len(adapter.objects)] :
         \A o \in DOMAIN adapter.objects : Given(o, {i \in DOMAIN owner : owner[i] = o})

Sequential == \A r \in DOMAIN agent_runs : ~agent_runs[r].overlapped

\* No handler raised on the first event of a pair.
QuestionsPass ==
    \A i \in DOMAIN told :
        told[i].raised => told[i].event.type \notin {"TOOL_CALLED", "WEB_REQUEST"}

\* The event id of x waits for its pair: a run that published it last is at the
\* next, or the bus was closed on it there.
Waits(x, id) ==
    \E r \in DOMAIN agent_runs :
        LET run == agent_runs[r]
        IN /\ run.execution_id = x
           /\ run.next \in 2..Len(run.plan) /\ run.plan[run.next - 1].event_id = id
           /\ run.pc = "publishing" \/ agent_bus = "closed"

Pair(first, second) == \A p \in 2..4 : first[p] = second[p]

\* The two events of every call and of every request of x are paired, or the
\* second is still to come or was stopped by the closing of the bus.
Matched(x) ==
    /\ \A i \in DOMAIN tools[x].invocations :
         LET v == tools[x].invocations[i]
         IN \/ v.call_event # NoTool /\ v.completion_event # NoTool
               /\ Pair(v.call_event, v.completion_event)
            \/ v.completion_event = NoTool /\ Waits(x, v.call_event)
    /\ \A i \in DOMAIN web[x].activities :
         LET w == web[x].activities[i]
         IN \/ w.request_event # NoWeb /\ w.response_event # NoWeb
               /\ Pair(w.request_event, w.response_event)
            \/ w.response_event = NoWeb /\ Waits(x, w.request_event)

\* As long as the steps of an execution do not overlap and no handler raises on
\* a call or a request, the observers pair the two events of every tool call
\* and of every web request a step reports, also when the step names one tool
\* twice or a step index is run again.  A record that is not paired is the last
\* one of a run that is publishing, or that the closing of the bus stopped.
ActivityIsPaired ==
    Sequential /\ QuestionsPass =>
      \A x \in {agent_runs[r].execution_id : r \in DOMAIN agent_runs} : Matched(x)

AgentSpec ==
    AgentInit /\ ToolInit /\ WebInit /\ [][AgentNext]_<<agent_vars, agent_observers>>
=============================================================================
