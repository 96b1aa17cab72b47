----------------------------- MODULE AgentSteps -----------------------------
(***************************************************************************)
(* What the agent adapters (infuse/agents) have in common: the capability  *)
(* an adapter declares, its sessions, the processes of its transport, and  *)
(* the events it publishes for a step.  Each adapter is code of its own;   *)
(* the modules CodexAgent, OpenCodeAgent, HermesAgent, OpenClawAgent,      *)
(* LovableAgent, ClaudeAgent and ReferenceAgent say what each of them does *)
(* with these, and AgentVendors runs them.                                 *)
(***************************************************************************)
EXTENDS ToolObserver, WebObserver

CONSTANTS
    AgentExecutions, \* execution ids
    NoAgent,         \* an absent value
    JsonArray        \* JSON that is not an object

-----------------------------------------------------------------------------
(***************************************************************************)
(* Capabilities.                                                           *)
(***************************************************************************)
AgentCapability(actions, cancel, terminate, throttle, switch) ==
    [actions |-> actions, cancel |-> cancel, terminate |-> terminate,
     throttle |-> throttle, switch |-> switch]

ActionSupported(c, action) ==
    \/ action = "CONTINUE"
    \/ action \in c.actions
    \/ action = "STOP" /\ (c.cancel \/ c.terminate)
    \/ action = "THROTTLE" /\ c.throttle
    \/ action = "SWITCH" /\ c.switch

-----------------------------------------------------------------------------
(***************************************************************************)
(* Sessions.  An adapter keeps the current session object of an execution; *)
(* a step that runs keeps the object it began with.  0 is no session.      *)
(***************************************************************************)
NoSessions ==
    [current |-> [x \in AgentExecutions |-> 0], objects |-> <<>>,
     steps |-> <<>>, controls |-> <<>>]

NewSession(x) ==
    [execution_id |-> x, step_count |-> 0, is_active |-> TRUE, control_history |-> <<>>]

SessionAttached(a, x) ==
    [a EXCEPT !.objects = Append(@, NewSession(x)),
              !.current[x] = Len(a.objects) + 1]

SessionDetached(a, x) ==
    IF a.current[x] = 0 THEN a
    ELSE [a EXCEPT !.objects[a.current[x]].is_active = FALSE]

\* A step of an execution that was never attached attaches it.
StepCounted(a, x, k) ==
    LET b == IF a.current[x] = 0 THEN SessionAttached(a, x) ELSE a
    IN [b EXCEPT !.objects[b.current[x]].step_count = @ + 1,
                 !.steps = Append(@, <<x, k>>)]

ControlReceived(a, op) ==
    LET b == [a EXCEPT !.controls = Append(@, op)]
        s == a.current[op.execution_id]
    IN IF s = 0 THEN b
       ELSE [b EXCEPT !.objects[s].control_history = Append(@, op)]

-----------------------------------------------------------------------------
(***************************************************************************)
(* The processes of a transport: the run registered for each execution and *)
(* the runs that were terminated and killed.  AgentControl tells the life  *)
(* of a process in full, here it is started and ended in one step each.    *)
(***************************************************************************)
NoProcesses ==
    [active |-> [x \in AgentExecutions |-> NoAgent], terminated |-> {}, killed |-> {}]

ProcessRegistered(p, x, run) == [p EXCEPT !.active[x] = run]

ProcessForgotten(p, x) == [p EXCEPT !.active[x] = NoAgent]

Registered(p, x) == {p.active[x]} \ {NoAgent}

ProcessTerminated(p, x) == [p EXCEPT !.terminated = @ \cup Registered(p, x)]

ProcessKilled(p, x) == [p EXCEPT !.killed = @ \cup Registered(p, x)]

(***************************************************************************)
(* A reference transport runs no process: it logs its calls and answers as *)
(* its flags and its custom output say.                                    *)
(***************************************************************************)
ReferenceTransport(flags, custom) ==
    [invocations |-> <<>>, cancelled |-> <<>>, terminated |-> <<>>,
     flags |-> flags, custom |-> custom]

ReferenceInvoked(r, x) == [r EXCEPT !.invocations = Append(@, x)]

ReferenceCancelled(r, x) == [r EXCEPT !.cancelled = Append(@, x)]

ReferenceTerminated(r, x) == [r EXCEPT !.terminated = Append(@, x)]

\* The flags are looked at in this order.
FlagRaised(flags) ==
    IF "not_found" \in flags THEN "not_found"
    ELSE IF "timeout" \in flags THEN "timeout"
    ELSE IF "fail" \in flags THEN "process_error"
    ELSE NoAgent

ReferenceOutput(r, default) ==
    IF FlagRaised(r.flags) # NoAgent THEN [error |-> FlagRaised(r.flags)]
    ELSE [error |-> NoAgent, out |-> IF r.custom # NoAgent THEN r.custom ELSE default]

-----------------------------------------------------------------------------
(***************************************************************************)
(* Outputs.  A JSON object is told by the activity it lists and by the one *)
(* item it may be itself; JsonArray is JSON that is not an object.  stdout is*)
(* the objects its lines parse to, and the object all of it parses to.     *)
(***************************************************************************)
JsonObject == [tools |-> NoAgent, tool_calls |-> NoAgent, web_requests |-> NoAgent,
               tool |-> NoAgent, web |-> NoAgent]

Stdout(lines, whole) == [lines |-> lines, whole |-> whole]

Listed(list) == IF list = NoAgent THEN <<>> ELSE list

IsList(list) == list = NoAgent \/ list \in Seq(ToSet(list))

IsObject(json) == IsList(json.tools) /\ IsList(json.tool_calls) /\ IsList(json.web_requests)

\* What a transport hands to its adapter.
IsOutput(out) ==
    /\ out.parsed = NoAgent \/ IsObject(out.parsed)
    /\ out.events \in Seq(ToSet(out.events))

\* parsed_json must be an object, or the model of the output refuses it.
WholeOutput(stdout) ==
    IF stdout.whole = JsonArray THEN [error |-> "unexpected"]
    ELSE [error |-> NoAgent, out |-> [parsed |-> stdout.whole, events |-> <<>>]]

-----------------------------------------------------------------------------
(***************************************************************************)
(* Events of a step.  The sequence is read when an event is built, so a    *)
(* template has none.                                                      *)
(***************************************************************************)
StepCompleted(x, k, now) ==
    [event_id |-> <<"step_ev", x, k, now>>, type |-> "EXECUTION_COMPLETED",
     execution_id |-> x, time |-> now]

ToolSuccess(item) == item.status = "success" \/ item.success # FALSE

\* Mutant: the completion is published before the call.
Mut_ToolPair(x, k, now, idx, item) ==
    LET completed ==
          [event_id |-> <<"tool_comp", x, k, idx>>, type |-> "TOOL_COMPLETED",
           execution_id |-> x, time |-> now,
           tool |-> IF item.name # NoAgent THEN item.name ELSE <<"tool", idx>>,
           call_id |-> NoTool, success |-> ToolSuccess(item), error |-> FALSE,
           duration |-> item.duration]
    IN <<completed,
         [completed EXCEPT !.event_id = <<"tool_called", x, k, idx>>,
                           !.type = "TOOL_CALLED", !.success = NoTool]>>

ToolPair(x, k, now, idx, item) ==
    LET called ==
          [event_id |-> <<"tool_called", x, k, idx>>, type |-> "TOOL_CALLED",
           execution_id |-> x, time |-> now,
           tool |-> IF item.name # NoAgent THEN item.name ELSE <<"tool", idx>>,
           call_id |-> NoTool, success |-> NoTool, error |-> FALSE, duration |-> NoTool]
    IN <<called,
         [called EXCEPT !.event_id = <<"tool_comp", x, k, idx>>, !.type = "TOOL_COMPLETED",
                        !.success = ToolSuccess(item), !.duration = item.duration]>>

\* Mutant: the two events of a request have one id.
Mut_WebPair(x, k, now, idx, item) ==
    LET request ==
          [event_id |-> <<"web", x, k, idx>>, type |-> "WEB_REQUEST",
           execution_id |-> x, time |-> now,
           url |-> IF item.url # NoAgent THEN item.url ELSE <<"internal", idx>>,
           request_id |-> NoWeb, status_code |-> NoWeb, bytes |-> NoWeb,
           success |-> NoWeb, error |-> FALSE, duration |-> NoWeb]
    IN <<request, [request EXCEPT !.type = "WEB_RESPONSE"]>>

WebPair(x, k, now, idx, item) ==
    LET request ==
          [event_id |-> <<"web_req", x, k, idx>>, type |-> "WEB_REQUEST",
           execution_id |-> x, time |-> now,
           url |-> IF item.url # NoAgent THEN item.url ELSE <<"internal", idx>>,
           request_id |-> NoWeb, status_code |-> NoWeb, bytes |-> NoWeb,
           success |-> NoWeb, error |-> FALSE, duration |-> NoWeb]
    IN <<request,
         [request EXCEPT !.event_id = <<"web_resp", x, k, idx>>, !.type = "WEB_RESPONSE",
                         !.status_code = IF item.status_code # NoAgent
                                         THEN item.status_code ELSE 200,
                         !.duration = item.duration]>>

\* The two events of each pair, one pair after another.
InTurn(pairs) == [n \in 1..(2 * Len(pairs)) |-> pairs[(n + 1) \div 2][2 - (n % 2)]]

\* The events of a step in the order they are published.
ActivityOf(x, k, now, tool_list, web_list) ==
    <<StepCompleted(x, k, now)>>
    \o InTurn([i \in 1..Len(tool_list) |-> ToolPair(x, k, now, i - 1, tool_list[i])])
    \o InTurn([i \in 1..Len(web_list) |-> WebPair(x, k, now, i - 1, web_list[i])])

\* The tool calls of the answer: those of the output, or the first one offered.
AnsweredTools(listed, offered) ==
    IF listed # NoAgent THEN listed
    ELSE IF offered = <<>> THEN NoAgent ELSE SubSeq(offered, 1, 1)

-----------------------------------------------------------------------------
(***************************************************************************)
(* Controls.                                                               *)
(***************************************************************************)
\* What execute_control answers, and whether it signals the transport.
ControlAnswer(supported, op) ==
    IF ~supported THEN [status |-> "UNSUPPORTED", signal |-> FALSE]
    ELSE [status |-> "COMPLETED", signal |-> op.action = "STOP"]
=============================================================================
