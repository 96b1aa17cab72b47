------------------------------ MODULE FrontEnds -----------------------------
(***************************************************************************)
(* The front ends of the API: the SDK (infuse/sdk/) over HTTP, the command *)
(* line (infuse/cli/) and the MCP server (infuse/mcp/) over the SDK, the   *)
(* ChatGPT actions (infuse/chatgpt/) over an app of their own in process,  *)
(* and plain HTTP clients.                                                 *)
(*                                                                         *)
(* A connection may fail before the request arrives, or after: the caller  *)
(* is told then, and the request may still be served.                      *)
(***************************************************************************)
EXTENDS ApiServer, FrontCommands

CONSTANTS
    Asked,      \* the calls the front ends may make
    MaxOutside  \* bound: requests ever made to the deployed API

\* A call is one of the front ends'; a body that is well-formed carries one
\* request or one policy.
ASSUME AskedAssumption ==
    \A c \in Asked :
       /\ c.front \in {"http", "sdk", "cli", "mcp", "chatgpt"}
       /\ (c.op = "execute" /\ c.body = "ok") =>
             \E r \in c.request : c.request = {r} /\ IsRequest(r)
       /\ (c.op = "update_policy" /\ c.body = "ok") =>
             \E p \in c.policy : c.policy = {p} /\ p \in Drafts

VARIABLE told  \* what each caller's SDK call ended with, "none" before

front_vars == <<api_vars, told>>

-----------------------------------------------------------------------------
(***************************************************************************)
(* The SDK                                                                 *)
(***************************************************************************)
raised(status) ==
    CASE status \in {400, 422} -> "ValidationError"
      [] status \in {401, 403} -> "AuthenticationError"
      [] status = 404 -> "NotFoundError"
      [] status = 409 -> "ConflictError"
      [] status = 504 -> "TimeoutError"
      [] status >= 500 /\ status # 504 -> "ServerError"
      [] OTHER -> "TransportError"

\* What the SDK refuses before it sends anything.
Unsendable(c) ==
    \/ c.op \in {"get_execution", "ingest_event", "update_policy", "control"} /\ c.id = {}
    \/ /\ c.op = "list_executions"
       /\ c.limit \notin 1..(IF c.front = "chatgpt" THEN 100 ELSE 200) \/ c.offset < 0

Next1(n) ==
    /\ wire[n] = "none" /\ (n > 1 => wire[n - 1] # "none")
    /\ deployment = "chatgpt" \/ n <= MaxOutside

\* What is asked is a step of a command the front end has, the first or the
\* one after a step that succeeded.  ChatGPT's handlers block their event
\* loop: one command after the other, on an app no other front end reaches.
Offered(n, c) ==
    /\ (c.front = "chatgpt") = (deployment = "chatgpt")
    /\ c.front # "http" => /\ c.run \in Runs[c.front] /\ c.step \in DOMAIN c.run
                           /\ c.op = Sends[c.run[c.step]]
    /\ c.step > 1 =>
          /\ n > 1 /\ told[n - 1] = "ok"
          /\ call[n - 1] = [c EXCEPT !.step = @ - 1, !.op = Sends[c.run[c.step - 1]]]
    /\ (c.front = "chatgpt" /\ n > 1) =>
          /\ wire[n - 1] = "closed"
          /\ (call[n - 1].step < Len(call[n - 1].run) /\ told[n - 1] = "ok") => c.step > 1

\* The caller asks; the call is refused at once, or the request is sent.
\* The SDK's clients send well-formed bodies only.
Ask(n, c) ==
    /\ Offered(n, c)
    /\ c.front = "http" \/ c.body # "not_json"
    /\ call' = [call EXCEPT ![n] = c]
    /\ IF c.front # "http" /\ (Unsendable(c) \/ c.body = "bad_schema" \/ c.op = "control")
       THEN /\ wire' = [wire EXCEPT ![n] = "closed"]
            /\ told' = [told EXCEPT ![n] = IF Unsendable(c) THEN "ValueError"
                                           ELSE IF c.op = "control" THEN "UNSUPPORTED"
                                           ELSE "ValidationError"]
       ELSE /\ wire' = [wire EXCEPT ![n] = "request"]
            /\ UNCHANGED told
    /\ UNCHANGED <<policy_vars, server_vars, reply, applied>>

\* The in-process transport hands an error's body to the SDK as if it were
\* an answer; what reads it as an execution fails, what reads it as a list
\* or as a decision does not.
Misread(operation) == operation \in {"execute", "get", "get_state"}

\* A policy a command needs is not in the answer.
Absent(c, answer) ==
    \/ c.run[c.step] = "the_active" /\ answer.active = {}
    \/ c.run[c.step] = "the_policy" /\ c.id \notin {{p[1]} : p \in answer.policies \cup answer.active}

Heard(c, answer) ==
    IF answer.status >= 400
    THEN IF c.front # "chatgpt" THEN raised(answer.status)
         ELSE IF Misread(c.run[c.step]) THEN "ValidationError" ELSE "ok"
    ELSE IF c.front # "http" /\ Absent(c, answer) THEN "NotFoundError" ELSE "ok"

\* The reply arrives at a caller that still waits.
Hear(n) ==
    /\ wire[n] = "reply" /\ told[n] = "none"
    /\ wire' = [wire EXCEPT ![n] = "closed"]
    /\ told' = [told EXCEPT ![n] = Heard(call[n], reply[n])]
    /\ UNCHANGED <<policy_vars, server_vars, call, reply, applied>>

\* The connection is refused, or is not made in time: nothing was sent.
Unreached(n) ==
    /\ wire[n] = "request" /\ call[n].front # "chatgpt" /\ told[n] = "none"
    /\ wire' = [wire EXCEPT ![n] = "closed"]
    /\ \E failure \in {"TransportError", "TimeoutError"} : told' = [told EXCEPT ![n] = failure]
    /\ UNCHANGED <<policy_vars, server_vars, call, reply, applied>>

\* The connection breaks, or the answer does not come in time: whichever of
\* the two, a TransportError, and the request may yet be served.
Broken(n) ==
    /\ wire[n] \in {"request", "reply"} /\ call[n].front # "chatgpt" /\ told[n] = "none"
    /\ told' = [told EXCEPT ![n] = "TransportError"]
    /\ wire' = [wire EXCEPT ![n] = IF @ = "reply" THEN "closed" ELSE @]
    /\ UNCHANGED <<policy_vars, server_vars, call, reply, applied>>

\* A reply to a caller that left.
Drop(n) ==
    /\ wire[n] = "reply" /\ told[n] # "none"
    /\ wire' = [wire EXCEPT ![n] = "closed"]
    /\ UNCHANGED <<policy_vars, server_vars, call, reply, applied, told>>

-----------------------------------------------------------------------------
(***************************************************************************)
(* What the front ends make of it                                          *)
(***************************************************************************)
map_error_to_exit_code ==
    [ok |-> 0, AuthenticationError |-> 3, ValidationError |-> 2, NotFoundError |-> 4,
     UNSUPPORTED |-> 5, TransportError |-> 7, TimeoutError |-> 8, ServerError |-> 9,
     ConflictError |-> 10, ValueError |-> 2]

map_error_to_code ==
    [ok |-> "none", AuthenticationError |-> "AUTHENTICATION_ERROR",
     ValidationError |-> "VALIDATION_ERROR", NotFoundError |-> "NOT_FOUND",
     UNSUPPORTED |-> "none", TransportError |-> "TRANSPORT_ERROR", TimeoutError |-> "TIMEOUT_ERROR",
     ServerError |-> "SERVER_ERROR", ConflictError |-> "CONFLICT_ERROR",
     ValueError |-> "INVALID_ARGUMENT"]

\* The command line's exit code; events published from a file end with 2
\* whatever went wrong.
exit_code(n) ==
    IF call[n].op = "ingest_event" /\ call[n].body = "file" /\ told[n] # "ok" THEN 2
    ELSE map_error_to_exit_code[told[n]]

\* ChatGPT's envelope and the MCP tools call any answer of the control
\* boundary a success.
Succeeds(n) ==
    CASE call[n].front = "cli" -> exit_code(n) = 0
      [] call[n].front = "mcp" -> map_error_to_code[told[n]] = "none"
      [] OTHER -> told[n] \in {"ok", "UNSUPPORTED"}

Refuses(n) ==
    CASE call[n].front = "cli" -> exit_code(n) \in {3, 4, 10} \/ told[n] = "ValidationError"
      [] call[n].front = "mcp" -> map_error_to_code[told[n]] \in
                                     {"VALIDATION_ERROR", "NOT_FOUND", "AUTHENTICATION_ERROR",
                                      "CONFLICT_ERROR", "INVALID_ARGUMENT"}
      [] OTHER -> told[n] \in {"ValidationError", "NotFoundError", "AuthenticationError",
                               "ConflictError", "ValueError"}

FrontInit == PolicyInit /\ ApiInit /\ told = [n \in Calls |-> "none"]

FrontNext ==
    \/ \E n \in {m \in Calls : Next1(m)}, c \in Asked : Ask(n, c)
    \/ \E n \in Calls : Serve(n) /\ UNCHANGED told
    \/ \E n \in Calls : Hear(n) \/ Unreached(n) \/ Broken(n) \/ Drop(n)

FrontSpec == FrontInit /\ [][FrontNext]_front_vars

-----------------------------------------------------------------------------
\* Whatever a connection does: a caller told that a change succeeded finds
\* what it asked for in the repositories, and one told that the call was
\* refused is right that nothing was done, and that nothing will be.
AnswersAreTrue ==
    \A n \in {m \in Calls : told[m] # "none"} :
       /\ (Succeeds(n) /\ call[n].op \in {"execute", "ingest_event", "update_policy"}) =>
             /\ applied[n]
             /\ reply[n].executions \subseteq ToSet(results)
             /\ \A e \in reply[n].event_ids : \E i \in DOMAIN events :
                   events[i] = <<Only1(call[n].id), e>>
             /\ \A p \in reply[n].policies : p[2] \in Versions(p[1])
       /\ Refuses(n) => ~applied[n] /\ wire[n] # "request"
=============================================================================
