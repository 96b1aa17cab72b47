---------------------------- MODULE FrontCommands ----------------------------
(***************************************************************************)
(* What the front ends offer: each command of the command line, each tool  *)
(* and resource of the MCP server and each ChatGPT action, with the SDK    *)
(* operations it runs through, one after the other.  A command stops at    *)
(* the first that fails.                                                   *)
(***************************************************************************)
EXTENDS Sequences

-----------------------------------------------------------------------------
(***************************************************************************)
(* The SDK's operations, and the request each sends.  the_active and       *)
(* the_policy are list() read by a command that needs the active policy,   *)
(* or a policy of a given id, to be there; dispatch reaches the control    *)
(* boundary of the client's own process and no server.                     *)
(***************************************************************************)
Sends ==
    [execute |-> "execute", get |-> "get_execution", get_state |-> "get_execution",
     get_decision |-> "get_execution", list |-> "list_executions", publish |-> "ingest_event",
     list_policies |-> "list_policies", get_active |-> "list_policies",
     the_active |-> "list_policies", the_policy |-> "list_policies",
     update |-> "update_policy", dispatch |-> "control"]

-----------------------------------------------------------------------------
CliExecution ==
    [execute |-> <<"execute">>, execution_get |-> <<"get">>, execution_state |-> <<"get_state">>,
     execution_result |-> <<"get">>, executions |-> <<"list">>, executions_list |-> <<"list">>,
     executions_get |-> <<"get">>, executions_state |-> <<"get_state">>, state |-> <<"get_state">>]

CliPolicy ==
    [policy |-> <<"list_policies">>, policy_list |-> <<"list_policies">>,
     policy_active |-> <<"the_active">>, policy_get_active |-> <<"the_active">>,
     policy_get |-> <<"the_policy">>, policy_update |-> <<"update">>, policy_set |-> <<"update">>]

CliEvents ==
    [events_publish |-> <<"publish">>, events_emit |-> <<"publish">>, events_list |-> <<"get">>]

CliRest ==
    [version |-> <<>>, config |-> <<>>, info |-> <<>>, governor |-> <<"get_decision">>,
     control_cancel |-> <<"dispatch">>, control_terminate |-> <<"dispatch">>,
     control_throttle |-> <<"dispatch">>, control_switch |-> <<"dispatch">>]

-----------------------------------------------------------------------------
\* infuse_list_events reads the execution and reports no event of it.
McpExecutionTools ==
    [infuse_execute |-> <<"execute">>, infuse_get_execution |-> <<"get">>,
     infuse_get_execution_state |-> <<"get_state">>, infuse_get_execution_result |-> <<"get">>,
     infuse_list_executions |-> <<"list">>, infuse_list_events |-> <<"get">>]

McpOtherTools ==
    [infuse_publish_event |-> <<"publish">>, infuse_get_policy |-> <<"the_policy">>,
     infuse_get_active_policy |-> <<"the_active">>, infuse_list_policies |-> <<"list_policies">>,
     infuse_update_policy |-> <<"update">>, infuse_get_governor_decision |-> <<"get_decision">>,
     infuse_control |-> <<"dispatch">>]

McpResources ==
    [execution |-> <<"get">>, state |-> <<"get_state">>, result |-> <<"get">>,
     active_policy |-> <<"the_active">>, governor |-> <<"get_decision">>]

-----------------------------------------------------------------------------
ChatGptReads ==
    [get_system_info |-> <<"get_active">>, list_executions |-> <<"list">>,
     get_execution_state |-> <<"get_state">>, get_execution_result |-> <<"get">>,
     inspect_execution |-> <<"get", "get_state", "get_decision">>]

ChatGptRest ==
    [inspect_governor_decision |-> <<"get_decision">>, get_provider_health |-> <<>>,
     list_policies |-> <<"list_policies">>, get_policy |-> <<"the_policy">>,
     get_active_policy |-> <<"the_active">>, execute_task |-> <<"execute">>,
     control_execution |-> <<"dispatch">>]

-----------------------------------------------------------------------------
RunsOf(commands) == {commands[name] : name \in DOMAIN commands}

\* The sequences of SDK operations a front end's commands run through; a
\* caller of the SDK itself picks any operation, an HTTP client any request.
Runs ==
    [http |-> {},
     sdk |-> {<<operation>> : operation \in DOMAIN Sends \ {"the_active", "the_policy"}},
     cli |-> UNION {RunsOf(CliExecution), RunsOf(CliPolicy), RunsOf(CliEvents), RunsOf(CliRest)},
     mcp |-> UNION {RunsOf(McpExecutionTools), RunsOf(McpOtherTools), RunsOf(McpResources)},
     chatgpt |-> RunsOf(ChatGptReads) \cup RunsOf(ChatGptRest)]
=============================================================================
