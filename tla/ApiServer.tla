------------------------------ MODULE ApiServer -----------------------------
(***************************************************************************)
(* The HTTP API (infuse/api/): its routes, default services and execution  *)
(* repository over the policy store and the context boundary.              *)
(*                                                                         *)
(* A handler is a coroutine that awaits nothing between reading the body   *)
(* and answering, so serving a request is one step.                        *)
(***************************************************************************)
EXTENDS PolicyStore, ExecutionContexts

CONSTANTS
    MaxCalls  \* bound: requests ever made

ASSUME CallsAssumption == MaxCalls \in Nat

VARIABLES
    deployment, \* "shared" or "apart" as the two services were given one repository
                \* or two; "chatgpt" is the app ChatGPT's router keeps for itself, apart
    results,  \* _executions, in insertion order
    events,   \* _events: pairs of execution and event id, in order of arrival
    call,     \* each request made: what is asked, and by which front end
    wire,     \* where it is: "none", "request", "reply" or "closed"
    reply,    \* what the server answered
    applied   \* history: whether serving it changed a repository

Calls == 1..MaxCalls
server_vars == <<contexts, deployment, results, events>>
api_vars == <<policy_vars, server_vars, call, wire, reply, applied>>

-----------------------------------------------------------------------------
(***************************************************************************)
(* The execution repository and what it is seeded with                     *)
(***************************************************************************)
Seed == [execution_id |-> 0, request_id |-> Name("req_01J8K7A0"), status |-> "RUNNING",
         provider |-> Name("Anthropic"), model |-> Name("Claude Sonnet"),
         agent |-> Name("OpenCode"), state |-> "COST_PRESSURE"]

SeedEvent == <<0, "evt_01">>

Known(execution_id) == {e \in ToSet(results) : e.execution_id = execution_id}

\* The executions the event service knows: its own repository holds the
\* seed only, unless one repository was handed to both services.
Ingestible(execution_id) == IF deployment = "shared" THEN Known(execution_id) # {} ELSE execution_id = 0

\* A page of the executions that pass the filters; {} passes everything.
list_all(states, agents, limit, offset) ==
    LET found == SelectSeq(results, LAMBDA e : /\ states # {} => e.state \in states
                                               /\ agents # {} => e.agent \in agents)
        last == IF offset + limit < Len(found) THEN offset + limit ELSE Len(found)
    IN ToSet(SubSeq(found, offset + 1, last))

-----------------------------------------------------------------------------
(***************************************************************************)
(* Requests and replies.  run is the sequence of SDK operations the        *)
(* request is a step of.  A field a route does not use is empty.  A body   *)
(* is "ok", "file" (as good, read from a file), "not_json", "not_object"   *)
(* or "bad_schema".                                                        *)
(***************************************************************************)
Call(front, run, step, op, body, id, request, event, policy, limit) ==
    [front |-> front, run |-> run, step |-> step, op |-> op, body |-> body, id |-> id,
     request |-> request, event |-> event, policy |-> policy, limit |-> limit, offset |-> 0]

NoCall == Call("none", <<>>, 1, "none", "none", {}, {}, {}, {}, 0)

Reply(status, code, found, event_ids, policies) ==
    [status |-> status, code |-> code, executions |-> found, event_ids |-> event_ids,
     policies |-> policies, active |-> {}]

NoReply == Reply(0, "none", {}, {}, {})

Statuses ==
    [BAD_REQUEST |-> 400, MALFORMED_JSON |-> 400, VALIDATION_ERROR |-> 422,
     NOT_FOUND |-> 404, CONFLICT |-> 409, INTERNAL_ERROR |-> 500]

Only1(set) == CHOOSE x \in set : TRUE

\* The request at hand, and the reply that ends it.
Serving(n, op) == wire[n] = "request" /\ call[n].op = op

Respond(n, answer, changed) ==
    /\ reply' = [reply EXCEPT ![n] = answer]
    /\ wire' = [wire EXCEPT ![n] = IF @ = "request" THEN "reply" ELSE @]
    /\ applied' = [applied EXCEPT ![n] = changed]
    /\ UNCHANGED <<call, deployment>>

Refuse(n, code) ==
    /\ Respond(n, Reply(Statuses[code], code, {}, {}, {}), FALSE)
    /\ UNCHANGED <<policy_vars, contexts, results, events>>

Show(n, found) ==
    /\ Respond(n, Reply(200, "OK", found, {}, {}), FALSE)
    /\ UNCHANGED <<policy_vars, contexts, results, events>>

-----------------------------------------------------------------------------
(***************************************************************************)
(* The routes                                                              *)
(***************************************************************************)
\* A route's path id is looked at before the body.
BlankPath(n) ==
    /\ wire[n] = "request" /\ call[n].id = {}
    /\ call[n].op \in {"get_execution", "ingest_event", "update_policy"}

RefusePath(n) == BlankPath(n) /\ Refuse(n, "BAD_REQUEST")

\* A body that is no JSON object of the route's schema.
MalformedBody(n) ==
    /\ wire[n] = "request" /\ ~BlankPath(n)
    /\ \/ call[n].body = "not_json" /\ Refuse(n, "MALFORMED_JSON")
       \/ call[n].body \in {"not_object", "bad_schema"} /\ Refuse(n, "VALIDATION_ERROR")

First(names, default) == IF names = <<>> THEN Name(default) ELSE names[1]

Result(execution_id, request) ==
    [execution_id |-> execution_id, request_id |-> request.request_id,
     status |-> "COMPLETED",
     provider |-> First(request.preferred_providers, "DefaultProvider"),
     model |-> First(request.preferred_models, "DefaultModel"),
     agent |-> IF request.agent_id = {} THEN Name("AnonymousAgent") ELSE Only1(request.agent_id),
     state |-> "NORMAL"]

\* Mutant: the execution is recorded before its context is validated.
Mut_execute_operation(n) ==
    /\ Serving(n, "execute") /\ call[n].body = "ok"
    /\ LET request == Only1(call[n].request)
           x == Len(results)
           built == create_execution_context(request, x, {})
       IN /\ results' = Append(results, Result(x, request))
          /\ contexts' = contexts \o SetToSeq(built)
          /\ IF built = {}
             THEN Respond(n, Reply(422, "VALIDATION_ERROR", {}, {}, {}), TRUE)
             ELSE Respond(n, Reply(200, "OK", {Result(x, request)}, {}, {}), TRUE)
          /\ UNCHANGED <<policy_vars, events>>

\* The execution id is fresh: the number of executions before it.
execute_operation(n) ==
    /\ Serving(n, "execute") /\ call[n].body = "ok"
    /\ LET request == Only1(call[n].request)
           x == Len(results)
       IN \/ create_execution_context(request, x, {}) = {} /\ Refuse(n, "VALIDATION_ERROR")
          \/ /\ create_context(request, x, {})
             /\ results' = Append(results, Result(x, request))
             /\ Respond(n, Reply(200, "OK", {Result(x, request)}, {}, {}), TRUE)
             /\ UNCHANGED <<policy_vars, events>>

list_executions(n) ==
    /\ Serving(n, "list_executions")
    /\ IF call[n].limit \in 1..200 /\ call[n].offset >= 0
       THEN \E states \in {{}, {"NORMAL"}} :
               Show(n, list_all(states, {}, call[n].limit, call[n].offset))
       ELSE Refuse(n, "BAD_REQUEST")

get_execution(n) ==
    /\ Serving(n, "get_execution") /\ call[n].id # {}
    /\ LET found == Known(Only1(call[n].id))
       IN IF found = {} THEN Refuse(n, "NOT_FOUND") ELSE Show(n, found)

\* Mutant: the event keeps the execution its body names.
Mut_ingest_event(n) ==
    /\ Serving(n, "ingest_event") /\ call[n].id # {} /\ call[n].body \in {"ok", "file"}
    /\ IF Ingestible(Only1(call[n].id))
       THEN /\ events' = Append(events, Only1(call[n].event))
            /\ Respond(n, Reply(201, "INGESTED", {}, {Only1(call[n].event)[2]}, {}), TRUE)
            /\ UNCHANGED <<policy_vars, contexts, results>>
       ELSE Refuse(n, "NOT_FOUND")

\* The event is filed under the execution of the path, whatever its own
\* execution_id says.
ingest_event(n) ==
    /\ Serving(n, "ingest_event") /\ call[n].id # {} /\ call[n].body \in {"ok", "file"}
    /\ LET x == Only1(call[n].id)
           event_id == Only1(call[n].event)[2]
       IN IF Ingestible(x)
          THEN /\ events' = Append(events, <<x, event_id>>)
               /\ Respond(n, Reply(201, "INGESTED", {}, {event_id}, {}), TRUE)
               /\ UNCHANGED <<policy_vars, contexts, results>>
          ELSE Refuse(n, "NOT_FOUND")

list_policies(n) ==
    /\ Serving(n, "list_policies")
    /\ LET policies == {<<pid, latest[pid]>> : pid \in {q \in PolicyIds : Exists(q)}}
       IN Respond(n, [Reply(200, "OK", {}, {}, policies) EXCEPT !.active = get_active], FALSE)
    /\ UNCHANGED <<policy_vars, contexts, results, events>>

\* PUT of a policy that exists; one that does not is not found.
put_policy(n) ==
    /\ Serving(n, "update_policy") /\ call[n].id # {} /\ call[n].body = "ok"
    /\ LET p == Only1(call[n].policy)
       IN \/ ~Exists(p.policy_id) /\ Refuse(n, "NOT_FOUND")
          \/ /\ Exists(p.policy_id) /\ ~validate_policy(Renumbered(p))
             /\ Refuse(n, "VALIDATION_ERROR")
          \/ /\ Room(p.policy_id) /\ update_policy(p)
             /\ Respond(n, Reply(200, "OK", {}, {},
                                 {<<p.policy_id, normalize_policy(Renumbered(p)).version>>}), TRUE)
             /\ UNCHANGED <<contexts, results, events>>

Serve(n) ==
    \/ RefusePath(n)
    \/ MalformedBody(n)
    \/ execute_operation(n)
    \/ list_executions(n)
    \/ get_execution(n)
    \/ ingest_event(n)
    \/ list_policies(n)
    \/ put_policy(n)

ApiInit ==
    /\ deployment \in {"shared", "apart", "chatgpt"}
    /\ contexts = <<>> /\ results = <<Seed>> /\ events = <<SeedEvent>>
    /\ call = [n \in Calls |-> NoCall]
    /\ wire = [n \in Calls |-> "none"]
    /\ reply = [n \in Calls |-> NoReply]
    /\ applied = [n \in Calls |-> FALSE]

-----------------------------------------------------------------------------
\* One stored execution for each request to execute that was served, a
\* retried one included, with a context of the same id and request; the
\* provider a request prefers is not one it excludes, as they were sent; and
\* events belong to executions the event service knows.  (A request without
\* preferences gets the default provider, excluded or not.)
RecordsAgree ==
    LET executed == {n \in Calls : applied[n] /\ call[n].op = "execute"}
    IN /\ Len(results) = Cardinality(executed) + 1
       /\ Len(contexts) = Cardinality(executed)
       /\ \A i \in DOMAIN contexts :
             /\ contexts[i].execution_id = results[i + 1].execution_id
             /\ contexts[i].request_id = trim(results[i + 1].request_id)
       /\ \A n \in executed : \E i \in DOMAIN results :
             LET request == Only1(call[n].request)
             IN /\ {results[i]} = reply[n].executions
                /\ results[i].request_id = request.request_id
                /\ request.preferred_providers # <<>> =>
                      results[i].provider \notin ToSet(request.excluded_providers)
       /\ \A i \in DOMAIN events : Ingestible(events[i][1])
=============================================================================
