---------------------------- MODULE MCFrontEnds -----------------------------
(* The policy manager on its own, and the front ends over the API.          *)
EXTENDS FrontEnds

CONSTANTS pol_default, pol_other

VARIABLE subject  \* what runs: the manager alone, or clients of the API

Limited(n) == [limits |-> [l \in {"max_rpm"} |-> n], lists |-> Defaults.lists,
               actions |-> Defaults.actions]
MCPayloads == {Defaults, Limited(0)}
MCSubmitted == {Release, [Release EXCEPT !.padded = TRUE], Version(<<"2", ".", "0", ".">>, 0),
                Version(<<"x">>, Unnumbered)}

Request(id, preferred, excluded) ==
    [request_id |-> Name(id), task_id |-> Name("task"), workload_hint |-> {}, agent_id |-> {},
     workflow_id |-> {}, step_index |-> 0, supports |-> {},
     min_context_tokens |-> {}, max_latency_ms |-> {},
     preferred_providers |-> preferred, excluded_providers |-> excluded,
     preferred_models |-> <<>>, excluded_models |-> <<>>, policy |-> {},
     message_count |-> 1, tool_count |-> 0]

A == Name("a")
Requests == {Request("r", <<A>>, <<>>), Request("r", <<A>>, <<A>>),
             Request("s", <<[A EXCEPT !.padded = TRUE]>>, <<A>>),
             Request("s", <<>>, <<Name("DefaultProvider")>>)}

Fronts == {"http", "sdk", "cli", "mcp", "chatgpt"}

\* A front end runs one operation; what ChatGPT inspects takes three.
Sdk(f, operation, body, id, request, event, policy, limit) ==
    Call(f, IF f = "http" THEN <<>> ELSE <<operation>>, 1, Sends[operation], body, id, request,
         event, policy, limit)

Inspects ==
    {Call("chatgpt", <<"get", "get_state", "get_decision">>, step, "get_execution", "ok", {1},
          {}, {}, {}, 0) : step \in 1..3}

MCAsked ==
    {Sdk(f, "execute", "ok", {}, {r}, {}, {}, 0) : f \in Fronts, r \in Requests}
    \cup {Sdk("http", "execute", b, {}, {}, {}, {}, 0) : b \in {"not_json", "bad_schema"}}
    \cup {Sdk("sdk", "execute", "bad_schema", {}, {}, {}, {}, 0)}
    \cup {Sdk(f, "get", "ok", id, {}, {}, {}, 0) : f \in {"http", "cli", "mcp"}, id \in {{}, {1}}}
    \cup {Sdk(f, "get_decision", "ok", {1}, {}, {}, {}, 0) : f \in {"sdk", "chatgpt"}}
    \cup {Sdk(f, "list", "ok", {}, {}, {}, {}, l) : f \in {"http", "sdk", "chatgpt"}, l \in {0, 1}}
    \cup {Sdk(f, "publish", body, {x}, {}, {<<1, "evt">>}, {}, 0) :
             f \in {"sdk", "cli"}, x \in {0, 1}, body \in {"ok", "file"}}
    \cup {Sdk(f, "the_active", "ok", {}, {}, {}, {}, 0) : f \in {"mcp", "chatgpt"}}
    \cup {Sdk("cli", "the_policy", "ok", {pol_other}, {}, {}, {}, 0)}
    \cup {Sdk(f, "update", "ok", {1}, {}, {}, {Policy(pid, Release, TRUE, content)}, 0) :
             f \in {"sdk", "mcp"}, pid \in PolicyIds, content \in Payloads}
    \cup {Sdk("http", "update", "ok", {1}, {}, {}, {Policy(pol_default, Release, FALSE, Defaults)}, 0)}
    \cup {Sdk(f, "dispatch", "ok", {1}, {}, {}, {}, 0) : f \in {"cli", "chatgpt"}}
    \cup Inspects

MCInit ==
    /\ subject \in {"manager", "clients"}
    /\ FrontInit
    /\ subject = "manager" => deployment = "apart"

MCNext ==
    /\ UNCHANGED subject
    /\ \/ subject = "manager" /\ PolicyNext /\ UNCHANGED <<server_vars, call, wire, reply, applied, told>>
       \/ subject = "clients" /\ FrontNext

MCSpec == MCInit /\ [][MCNext]_<<front_vars, subject>>
=============================================================================
