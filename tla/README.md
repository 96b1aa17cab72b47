# A verification project for infuse

infuse runs AI executions for callers and governs them while they run: an
execution is classified, resolved to a provider and model, routed and run by
the *lifecycle service*; *observers* aggregate what the event bus delivers;
the *state engine*, the *governor* and the *control boundary* turn those
observations into a state, a decision and a control operation, which an *agent
adapter* applies to the process it drives. This directory holds TLA+ models of
that program, the TLC runs that check them and TLAPS proofs about them.
Everything is modelled from the Python source under `src/infuse`; `PROJECT.json`
maps every definition to the lines it stands for.

## 1. Inventory

All state lives in dictionaries of one process. Every stateful component has
its own re-entrant lock, taken once per public operation; there is no
transaction across two operations and no lock across two components, except
that the state engine, the governor and the control boundary call the bus (and
the boundary the executor) with their own lock held. Nothing is persisted:
there is no crash recovery in this program. FastAPI handlers, MCP tools, the
e2e environment and callers' threads run these operations concurrently.

| Component | State | Operations | What is hard | What makes it correct |
|---|---|---|---|---|
| Execution lifecycle (`lifecycle/`) | `_records`, `_contexts` | `execute` (a dozen repository calls around one provider call), `create_execution`, `cancel_execution` | copies of records kept across steps and saved back whole; cancel at any moment; duplicate ids; failing bus | legal audit trail, result fits state, outcomes earned by what the provider answered, a cancellation is final, answer = record = event, every call ends |
| Event bus (`events/bus.py`) | subscriptions, published events, sequences, handler errors, closed | `publish`, `subscribe`, `unsubscribe`, `clear`, `close` | dispatch runs outside the lock from a snapshot; handlers raise; duplicates; clear and close in mid-dispatch | at most once per handler and event id, whole audience called, errors recorded and raised, closed bus stays empty |
| Token observer (`observer/`) | seen events, token summaries | `handle_event` (5 event types), `clear` | any order, replays, partial counts, estimates against authoritative usage | no invented count, authority earned and kept, history complete |
| Tool and web observers (`tools/`, `web/`) | call and activity maps, summaries, subscriptions | `handle_event`, `attach`, `detach`, `clear` | completions before calls, anonymous ones matched by name and replaced later, redirected URLs | call and completion of one id are told by one record, with their own outcome; a completion without one is told once unless replaced; totals agree with records |
| Health engine (`health/`) | execution summaries, provider and model aggregates | `handle_event`, `attach`, `detach`, `clear` | several terminal events for one execution, late starts, names written differently | outcomes stand; aggregates are sums of the executions |
| Economics (`economics/`) | pricing rates, cost summaries | `calculate`, `register_rate`, `delete_rate`, `clear` | rate read outside the lock that stores the summary; counts and rates with holes | a cost is priced with a rate that stood during the call, and nothing unpriced is counted |
| State engine (`state/`) | latest bundle, record and history per execution | `update_bundle`, `derive_state`, `clear` | evidence of five observers read at five moments; severity precedence; history only on transitions | most severe evidence wins, history is a chain |
| Governor (`governor/`) | decisions, history, counters | `evaluate`, `clear` | dispatch on reason codes | the action bound by the policy for that state and reason, one decision per evaluation |
| Control boundary (`control/`) | capabilities, executors, operations, audit history, counters | `register_*`, `dispatch_control`, `clear` | repeated operation ids, failing executors, undeclared capabilities | executed at most once per operation id, never without capability, audit agrees with what was executed |
| Agent adapters and transports (`agents/`) | sessions, running processes | `execute_step`, `execute_control`, `attach/detach` | STOP racing with start, exit and timeout of a process; two steps publishing under the same event ids; what publish raises is swallowed | a STOP that reports success stopped something; no process is forgotten; a step's events are told in order, and lost only for a known reason |
| Policy manager (`policy/`, `api/repositories/memory.py`) | revisions, the revision each policy points at, the active key | create, update, activate | validated before it is normalised; a pointer that may move back; a revision replaced by one that is not active | at most one active revision, which is the one served, and one as long as none is replaced; the history only grows |
| Provider and model registry (`registry/`) | providers, models | register, update, delete, seed | seeding looks and registers under two locks while administrators delete | no model without its provider, nothing twice |
| Classifier, resolver, router (`classifier/`, `resolver/`, `router/`) | none | `classify`, `resolve`, `route` | three passes over one request, each reading names and the words of needs its own way; two reads of the catalogue | the targets are exactly the models that serve the request; what is refused could not be served |
| Context (`context/`) | contexts | build, validate, create | validated before it is normalised | a context per created execution |
| Providers and integrations (`providers/`, `integrations/`) | adapter registry, request history | `execute_target`, `register`, `unregister` | the adapter may be replaced between routing and execution; errors normalised twice | the answer is of the selected target; failures keep what is known of them |
| REST API (`api/`) | executions, events, policies, contexts | one handler per route | repositories handed to services one by one | records agree across repositories |
| SDK, CLI, MCP, ChatGPT (`sdk/`, `cli/`, `mcp/`, `chatgpt/`) | none | commands, tools, actions over the API | a connection may break after the request was served | nobody is told something false |
| Events collector and validation, contracts, deployment | a list; none | -- | -- | -- |

How they interact: the lifecycle service and the adapters publish on the bus;
the bus calls `handle_event` of the observers on the publisher's thread; the
e2e environment reads the observers' summaries, has the state engine derive,
the governor evaluate and the boundary dispatch, and the boundary calls
`execute_control` of the adapter registered for the execution.

## 2. Plan

In the order in which it was carried out, the most important behaviour first:

1. `Lifecycle`, `LifecyclePromise`, `EventBus`, `TokenObserver`: executions and
   what carries their news.
2. `Governance`, `AgentControl`: from observations to a decision, from a
   decision to a process.
3. `ToolObserver`, `WebObserver`, `HealthEngine`, `Economics`: the other
   consumers of events; `AgentSteps`, the seven vendor modules and
   `AgentVendors`: the producers, composed with the observers.
4. `PolicyStore`, `ExecutionContexts`, `ApiServer`, `FrontCommands`,
   `FrontEnds`: what callers reach, composed from the store outwards.
5. `Catalog`, `Classifier`, `Routing`, `Adapters`, `Pipeline`: from a request to
   a provider, composed likewise.
6. Proofs, a module for each group of components that belong together:
   `LifecycleProofs`, `EventBusProofs`, `TelemetryProofs` (token, tool and web
   observers, health, economics), `GovernanceProofs`, `AgentControlProofs`,
   `AgentVendorsProofs`, `PipelineProofs`, `FrontEndsProofs` (policy store, server
   and callers).

## 3. The modules

### Lifecycle

`records` is the repository's dictionary, `held[t]` the local copy of the
record in thread `t` (`record`, `completed_rec`, `failed_rec`, `updated` in
`service.py`), `pc[t]` where the thread stands, `answer[e]` what the provider
gave it, `events` what the bus accepted. `IdOf` is the execution id each thread
passes, chosen once in `Init` among `Assignments`, so that one run covers
duplicate ids and separate ones. There is one action per repository call
(`CheckExists`, `SaveCreated`, `Initialize`, ...), per published event and for
the provider call, because the repository's lock is released between them;
`Transition` is `update_state`, validation of `VALID_TRANSITIONS` included, and
sends the thread where the code goes when the call raises: to the caller, or to
the `except` block if it stands in the `try`. `save` overwrites the stored
record with the thread's copy, as the code does. Classification, resolution and
routing are local computations; their result is a choice in `SaveResolution`
(some target or none). Timestamps are the two flags `started` and `completed`,
a result is its status. Not modelled: exceptions thrown by the classifier,
resolver or router, the wording of reasons, the contents of a context,
read-only operations, and a caller that only creates.

`LifecyclePromise` says what the service promises without records, copies or
locks: an execution is created once, is started, settles once, its caller gets
one answer that agrees, and subscribers hear of that outcome or of none.
`Lifecycle!PromiseKept` is the refinement.

### EventBus

`published`, `sequences`, `handler_errors`, `subscriptions`, `closed` are the
bus's fields; `published` is the set of the dictionary's values. Subscription
ids are numbered in the order they are handed out, which stands for the
insertion order of the dictionary, so `Invoke` takes the smallest pending one.
`Accept` is the locked half of `publish` (checks, registry, sequence, snapshot
in `matching`), then `Invoke`, `RecordError` and `Return` are steps of their
own, with any other operation of any thread in between. `Refuse` is a call that
ends in the locked half. `isolate` is the constructor's flag, chosen in `Init`.
The bounds `MaxPublish`, `MaxSubs` and `MaxClears` limit the number of calls,
nothing else. Schema validation of events is taken as passed.

### TokenObserver

`seen` and `summaries` are the observer's two dictionaries; `handle_event` runs
under one lock, so it is one action, and its five `_process_*` handlers are
operators on a summary, composed as the code composes them: `Counted` first
(which raises `last_sequence`), then the handler. `Else(new, old)` is the
`if x is not None` update of the code and `OrZero` its `x or 0`. A missing
summary is `NewSummary`, which `handle_event` would create. Provider and model
are one `target`; cached tokens are left out (they are copied like the other
counts). `clear` forgets everything.

### Governance

One execution, and the environment's loop around it: `derive_state`,
`evaluate_governor` and the last steps of `execute_e2e`, called by any number of
`Controllers`. `summaries` is what the five observers would answer now and
`active` what the policy manager would; both change at any moment (`Observe...`,
`ChangePolicy`). `at[c]` is where a call stands and `work[c]` its locals: the
policy it read first, the bundle it fills one `ReadSummary` at a time in the
order of the code, the snapshot it got, the action decided. `record` and
`history` are the engine's dictionaries, `decisions` and `eval_count` the
governor's; `Derive` and `Evaluate` are the parts under their locks. `began` only
observes: the summaries as the call began.

`Evidence`, `OutagesSeen`, `Triggered` and `Canonical` are `update_bundle`'s
evidence rules and precedence, `Binding` and `Decided` the governor's choice.
A policy is a member of `Policies`, with its `limits` and `actions` given as
functions; `NoPolicy` stands for `policy=None`. An error is its category, an
outage reason bears the name of its category, an amount is one of a few
numbers. The activity observers are what their answers may be: a call begins,
ends, ends unseen, or ends a second time with another outcome (`Observed`);
totals and errors never shrink, amounts may. The `clear` of an observer, which
nothing under `src/infuse` calls, would take evidence back and is left out; those
of the engine and the governor are in.

What the code does and a reader might not expect: the environment never passes
`context_metadata`, so a repetitive loop is never seen by this loop; "consecutive"
tool failures are compared with the total of failed calls (`engine.py:92`);
a snapshot gives only the reasons of its own state (`engine.py:195`); if no
policy is active when `evaluate_governor` reads it but one is when `derive_state`
does, the state is derived under the one and decided on with the default
bindings; `execute_e2e` announces EXECUTION_COMPLETED whatever was dispatched.
Not modelled: STATE_CHANGED and GOVERNOR_DECISION events (best effort, nothing
reads them back), messages, signals and timestamps, and the audit report.

### AgentControl

The control boundary, `ClaudeCodeAdapter` and `ClaudeSubprocessTransport`.
`capabilities`, `executors`, `operations`, `history` and `seq_counters` are the
boundary's dictionaries and `busy` the controller that holds its lock, which it
keeps while the executor runs. `ctl`, `call`, `status` and `reached` are the
dispatching threads; `active` is the transport's `_active_processes`; `proc`,
`returncode` and `signals` describe the process of each stepper's last step and
`pc`, `outcome`, `steps`, `announced` the stepping thread. `received`,
`overlapped`, `made` and `configured` observe or bound. Launching a process and
registering it are two steps, as are looking it up and signalling it: although
the latter happen under the transport's lock, processes end on their own in
between. `Reap` is the timeout path (kill, wait), `ProcessError` the non-zero
return code. A capability is the set of actions its flags and list support; an
operation id the code would generate is one nobody else uses. The process itself
(`Exit`, `ReturnCodes`, `Signalled`) is external.

Not modelled: the best-effort ControlActionIssued event, bus handlers that call
the boundary again, and grandchildren that keep a pipe open. Sessions, attach
and detach, an absent CLI and the other vendors are `AgentVendors`' subject.

### ToolObserver, WebObserver, HealthEngine, Economics

Each observer's dictionaries are one variable (`tools`, `web`, `health`: a record
per execution), because its handler holds one lock throughout; `ToolTaken`,
`WebTaken` and `HealthTaken` are the handlers as operators on that value, used
both alone and behind an adapter. Correlation is the code's: by id, else the
first open record of the same tool or URL. What a later response does not say stays
as an earlier one left it: `Code` and `Outcome` are the merge of `web/observer.py`,
stale codes included. Subscriptions (`..._links`,
`..._subs`) are modelled as far as a second attach matters. Providers' names go
through `Lower`, which a configuration gives. `Economics` splits `calculate` into
the three steps between which no lock is held; costs are exact millionths.

### AgentSteps, the vendors, AgentVendors

`AgentSteps` holds what the seven adapters have in common; `ClaudeAgent`,
`CodexAgent`, `HermesAgent`, `LovableAgent`, `OpenClawAgent`, `OpenCodeAgent` and
`ReferenceAgent` say what each of them does, for each is code of its own and
they differ in details. `AgentVendors` runs one of them, chosen in `Init`, between
two threads and the bus: `adapter` is its sessions (objects, because a step keeps
the one it began with), `processes` what its transport has running, `agent_runs`
the steps with what each still has to publish, `told` what the bus accepted. All
events of a step are published in one `try` that swallows what it catches, so the
rest of a step is dropped when the bus is closed (`CloseBus`, at any moment), when
it knows an event id with other content (`Refuses`), or when a handler raised on a
bus that does not isolate them (`Raises`), after the event was accepted and
observed; a bus that knows the very event takes it silently and the step goes on
(`Repeats`). There is one bus; its `clear`, which nothing under `src/infuse` but
`close` calls, and observers that leave it before its end are left out. A parsed
standard output is a record of what it reports.

### PolicyStore, ExecutionContexts, ApiServer, FrontCommands, FrontEnds

`revisions`, `latest` and `active_key` are the in-memory policy repository;
`validate_policy`, `normalize_policy` and `_bump_version` are the manager's passes
in the code's order, names and versions carrying whether blanks surround them; a
version is its text before the last point and its last number. A
handler of the API awaits nothing, so a request is served in one step. `results`,
`events` and `contexts` are the repositories behind it and `deployment` which
services share one. `FrontCommands` lists which operations a command, tool or
action performs, `FrontEnds` what the SDK refuses, what a broken connection makes
of a call and what the caller is told; `call`, `wire`, `reply` follow each call,
`applied` observes whether serving it changed anything.

### Catalog, Classifier, Routing, Adapters, Pipeline

`providers` and `models` are the registry, every operation an action, `seeding`
where `_seed_defaults` stands between its look and its registration. `Classifier`
and `Routing` are pure: the rules, scores as far as they are compared, filters and
sort keys of `classify`, `resolve` and `route`. `Adapters` holds the adapter
registry and what an adapter makes of an answer or a failure. `Pipeline` chains
them as `execute` does, with a step per read of the catalogue (models and
providers are read one after the other), and administrators change catalogue and
adapters between any two. `CallProvider` and `NormalizeError` are two steps, for the
adapters may change during the call. What is asked of a model comes from the three
flags of an `ExecutionRequest` (`from_execution_request`) or, with any words and a
strategy among its constraints, from a caller who fills in the builder
(`set_constraints`). A string is a text and whether it is padded; `Lowered` and
`Alphabet` give the few texts their lower case and order.

## 4. The runs

| Run | Question | Bounds, and why they are enough |
|---|---|---|
| `lifecycle_race` | What holds whatever callers do? Audit trail, result against state, outcomes earned by a target and an answer of the provider, finality of a cancellation of a RUNNING execution, and termination. | Two executors and two cancellers. In one assignment both executors and one canceller share an id, in the other each executor has its own and both cancellers meet on the first: the two-thread conflicts on one record, and a third thread that breaks in. |
| `lifecycle_announced` | Is the promise kept when ids are unique and callers cancel only what they were told has started? Refinement of `LifecyclePromise` with liveness, agreement of answers, events and records. | Same threads; the bus may fail at any event. |
| `stale_save` (violation) | Without that restriction: a terminal state is left. | One executor and one canceller are enough. |
| `bus` | At most once, whole audience, failures recorded and raised, the bus's tables in agreement (highest sequence, one event per id, nothing in a closed bus). | Two publishers with two calls each, three envelopes of which two conflict, two subscriptions with two filters, one clear, one close; both values of the isolation flag. Two subscriptions make order and skipping visible; two publishers make overlapping dispatches. |
| `telemetry` | Six questions, one per `subject` the initial state picks: are token counts, correlations of tool and web activity, health totals and costs those of the events, in whatever order these come; and are a step's events told, numbered and paired, whatever adapter ran it and however the bus fails it? | `tokens`: eight events of one execution, numbered below, between and above, with partial and absent counts, two of another that reuse ids. `tools`, `web`: two tools or targets, called with and without ids, answered early, late and badly. `health`: two executions, a provider under two spellings, every event type. `economics`: two callers with three calls, two rates per target and three changes of rates. `agents`: all seven vendors, with their own and their reference transports; two threads and two steps that may overlap or run one step index twice, and one attach, detach, control, clear or close of the bus at any moment, which isolates handlers or not. One clear each, after which all may arrive again. |
| `governance` | Do calls miss or invent evidence, is a reached limit always governed by the call's own policy, do the histories stay whole? | Two controllers (symmetric) with two calls between them of any kind; two events, policy changes or clears at any point; two policies, one without limits and one whose limits a single event reaches, with bindings that differ from the defaults; an outage and a harmless error category. Two calls show one derivation overtaking another; two changes suffice for an event and an activation between two reads of one call, and none of the properties relates more than two of them. |
| `control` | At most one execution per operation id, audit, process registry, outcome of steps, and every call returns. | Two steppers on one execution, alone or overlapping, two controllers with three calls, two configurations of the boundary; soft STOP, hard STOP and THROTTLE under one operation id and CONTINUE under another, so that repetition, refusal and both signals occur; processes may end, ignore SIGTERM or run for ever. |
| `false_success` (violation) | Is a STOP that is reported as COMPLETED one that reached a process? | Same instance. |
| `supersession` (violation) | Do estimates ever overwrite an authoritative summary? | The token events, one execution. |
| `frontends` | `manager`: is at most one policy in force and is it the one served, what takes it out of force, and does history only grow? `clients`: do executions, contexts and events agree across repositories, and is every caller told the truth? | Two policies, two payloads of which one is invalid, four versions of which one is padded and one unnumbered, three revisions each. Two calls of HTTP, SDK, CLI and MCP clients, or three of ChatGPT's, which come one after the other; services sharing a repository or not; a connection that breaks before or after a request is served. Two calls show a retry of what was done and two clients of one policy. |
| `lost_revision` (violation) | Does a recorded revision keep its contents? | One policy. |
| `pipeline` | Does the catalogue stay whole under seeding and administration, and are the targets exactly the models that serve what was asked? | One execution, for executions share only the catalogue and the adapters; two changes of the catalogue and one of the adapters at any moment; the catalogue seeding, seeded, or with LiteLLM's; requests that pad, respell and exclude names, ask needs by a flag, an alias, a keyword or a word of their own, met or not, and every strategy. |


Each property has a mutant, an operator `Mut_...` beside the definition it
stands in for: the change a plausible bug would make, for which TLC finds that
property violated under the run's own configuration.

The properties of `lifecycle_announced` and `CancelOfRunningSticks` do not hold
without their restriction, and `stale_save` shows why: `execute` writes back a
copy of the record it took before a cancellation. `CancelOfRunningSticks` and
the second half of `OutcomesAreEarned` speak of executions that have their id to themselves; with a
duplicate `create_execution` in the race, a second `save` resets the record.

**Findings.** Four have a run:

- `stale_save`: a terminal execution can transition further (`service.py:189`
  against `docs/execution_lifecycle.md:77`).
- `supersession`: a stream estimate with a new sequence number overwrites
  authoritative counts (`observer.py:142` against `docs/token_observer.md:58`).
- `false_success`: a STOP that found no process is answered COMPLETED while the
  process, started but not yet registered, runs on (`adapter.py:312` and
  `transport.py:101` to `113` against `docs/claude_code_adapter.md:51` and the
  dispatch flow of `docs/execution_control_boundary.md`).
- `lost_revision`: an update made after an older revision was activated is stored
  under a recorded version and replaces it (`manager.py:104`, `memory.py:180`
  against `docs/architecture/policy_manager.md:66`).

Each of the four documents a rule that the code keeps in part, as does one of those
below, and the proofs say in which:

| Refuted | Holds, and is proved |
|---|---|
| `TerminalAbsorbing` | of every execution, when ids are not shared and cancels come after the announced start (`SettledStays`) |
| `Supersession` | of an estimate that arrives behind an event with a higher number (`DelayedNeverOverwrite`); one that is not behind overwrites |
| `StopReachesProcess` | of a process that its step has registered, as long as no second step of the execution overlaps (`StopsReachFindable`); and a signal never reaches the wrong process (`SignalsStay`) |
| one active revision (`policy_manager.md:115`, no run) | that there is at most one, and that one stays in force but where an update that is not active replaces its revision (`HistoryOnlyGrows`); for callers that submit the default version and activate no older revision there is always one (`ForwardKeepsOneActive`) |
| `SnapshotsAreImmutable` | while each policy's next number is free and versions come without blanks (`SnapshotsKeptWhileFree`): a version with blanks is compared before it is stripped (`manager.py:102`), the second way to lose a revision. Without conditions on the state, for callers that submit the default version and activate no older revision (`ForwardKeepsSnapshots`) |

But for `HistoryOnlyGrows`, whose property the `frontends` run checks, no run checks
what these theorems state: their properties stand in the modules of the
components, after those they qualify, and are proved for every instance.

Twenty-one were met while translating and need no run: the code says so by itself.
The models that reach these lines follow the code. `PROJECT.json` quotes the
lines each contradicts.

- Errors: `router.py:157` names a class the module does not import, so
  WORKLOAD_FIT raises NameError unless the complexity is HIGH; an environment
  with a `default_policy` cannot be constructed (`environment.py:163`), and
  `execute_e2e` without a task description raises (`environment.py:370`).
- Failures told as something else: `execute_e2e` answers COMPLETED after a STOP
  (`environment.py:432`); failed tools are published as successful
  (`codex/adapter.py:326`); an error normalised twice loses its retryability
  (`service.py:316`); a late answer is a transport error, not a time-out
  (`sdk/transport.py:161`); 529 is not UNAVAILABLE (`health/classifier.py:22`);
  an average latency below the minimum (`health/engine.py:69`).
- Interfaces that promise more: events of submitted executions are refused
  (`deployment/server.py:49`); policies cannot be created through the API
  (`routes/policies.py:33`); SDK controls are UNSUPPORTED (`sdk/control.py:38`),
  its state always NORMAL (`sdk/execution.py:167`), MCP's event list always empty
  (`mcp/tools.py:200`).
- Order of validation and normalisation: a padded name is both allowed and
  blocked (`policy/validation.py:97`); an update that is inactive under a padded
  version replaces the active revision, and none is in force
  (`policy/manager.py:102`).
- Needs: a request for browsing, which the classifier counts as the web, is
  asked of a model under both names (`resolver/resolver.py:114`); one for streaming
  is computed and never compared (`resolver/resolver.py:195`).
- Left over: a response that says nothing of its outcome is told as a failure when
  a response without an id left a failing code in its record
  (`web/observer.py:209`).
- Swallowed: what `publish` raises for one event, accepted or not, costs the events
  of the step that follow, and nobody is told (`codex/adapter.py:368`).
- Exclusions: the default provider serves a request that prefers none, also one
  that excludes it (`api/services/default.py:67`).

**Fairness.** `Lifecycle`: each thread's `execute` or `cancel_execution` is
weakly fair, which says that the operating system schedules the thread and that
the provider call returns or raises (provider calls are made with a timeout).
Cancellers may never call at all where they wait for an announcement:
`cancel_execution` is then disabled. `AgentControl`: the threads that step and
those that dispatch are weakly fair, the timeout of `communicate` included, and
a process that was sent SIGKILL ends; one that was not may run for ever, and
nobody has to call anything. The other runs check safety only: what they ask
of a call is asked when it returns, and each of their steps runs to its end under
one lock or in one coroutine. No property assumes that the bus delivers: in
`Lifecycle` it may drop any event, in `AgentVendors` it may be closed, refuse an
event or raise what a handler raised, and `ActivityIsPaired` names the one case it
excludes, a handler that raises on the first event of a pair, which ends the step
with its call told and the completion not.

## 5. The proofs

TLAPS proves for every set of threads, ids and events, and all bounds:

- `LifecycleProofs!TypeCorrect`, `AuditTrailHolds`, `ResultsMatch`,
  `OutcomesEarned`, `CancelSticks`, from
  `ThreadsAssumption` (executors and cancellers are disjoint, `NoThread` is not
  a thread, assignments are functions from threads to ids). The audit trail is
  inductive as it stands once it speaks of the private copies too: a lemma
  shows that `Moved` keeps `AuditChain`, and every action either applies `Moved`
  to a record or copies one. `ResultMatchesState` needs the strengthening
  `ResultInv`, which says which copies a thread may hold at which label (`Fit`):
  a thread between a transition and its save holds a record of that outcome
  without a result, and every other copy has a result only if it is terminal.
  `EarnedInv` extends `OutcomesAreEarned` to those copies and to what an
  executor about to route or run relies on. `StruckInv` says why a cancellation
  sticks: a record is RUNNING only while its one executor stands where it saves
  no copy, so whoever cancels it there meets no older copy.
- `LifecycleProofs!AnswersAgree`, `EventsAgree`, `PromiseSafe`: when every
  execution has its id to itself and callers cancel only what they were told has
  started (`Alone`), answers and events agree with the record, and the lifecycle
  implements the safety part of `LifecyclePromise`. `PhaseInv` gives the stored
  state at each label of the executor and who may have published what. Every
  step of an executor is then a `SilentStep` or a `SpokenStep`, a cancellation a
  `CancelStep`, and each of the three maps to a step of the promise or to none.
- `LifecycleProofs!SettledStays`, with the same hypothesis: once a record is
  terminal, `PhaseInv` leaves its one executor no step that changes the state, and a
  cancellation of it is refused.
- `EventBusProofs!TypeCorrect`, `DeliveredAtMostOnce`, `TablesAlwaysAgree`,
  `WholeAudienceCalled`, `NoFailureLost`, from `BusAssumption`. A
  handler could be called twice by one dispatch, by two dispatches of the same
  id, or after a clear has forgotten the id. The inductive invariant `OnceInv`
  says that a receipt excludes the subscription from every pending dispatch of
  that id, that no two dispatches of one id share a pending subscription, and
  that a live subscription's receipts, and those still to come, are of ids in
  the registry -- which a clear empties together with the subscriptions.
  `TablesInv` is `TablesAgree` with its sets of sequences unfolded. The other two
  need `CallsInv`, that receipts carry the number of a call already made and
  only matching handlers are pending, and `FailInv`, that `failed` foretells
  during a dispatch what the publish will raise.
- `TelemetryProofs!TypeCorrect`, `CountsStayEarned`, `HistoryStaysComplete`,
  from `ObserverAssumption` (an event id names one event of an execution, which
  the bus sees to). `SummaryInv` relates a summary to the set of events taken:
  `Earned` to those that carry or vouch for its values, `Entered` its history,
  `Tallied` its counters. `Effect` says what any of the five handlers may do to a
  summary, and one lemma per handler that it does no more.
- `TelemetryProofs!DelayedNeverOverwrite`: `SummaryInv` has a summary's highest number
  bound those of all events taken (`last_sequence`), and an estimate below it is
  logged and nothing else (`DelayedIsLogged`).
- `AgentControlProofs!TypeCorrect`, `RegistryIsAccurate`, `StepsAlwaysEndTruly`,
  `AuditAlwaysAgrees`, from `ControlAssumption`. `RegistryInv` adds to
  `RegistryAccurate` who may have overlapped (`OverlapKnown`), `EndInv` what a
  step's process looks like at each label, and `AuditInv` that one controller
  at most is inside the boundary (`OneInside`), that its operation is not yet
  known (`InsideIsFresh`), that an executor received each id once
  (`ReceivedOnce`) and that the history is bounded by the counters.
- `AgentControlProofs!StopsReachFindable`, `SignalsStay`: the first from
  `RegistryInv` and `EndInv`, which place every step that runs and is registered.
  The second needs `AimInv`: between look-up and signal the transport's lock keeps
  an entry for the controller's execution, and only a STOP gets that far.
- `GovernanceProofs!TypeCorrect`, `TrailsStayWhole`, `NothingIsMissed`,
  `NothingIsInvented`, `RunawayAlwaysGoverned`, from `GovernanceAssumption` and
  `NoneIsNoRecord`. The histories are inductive as they stand. The other three
  follow from `CallInv`: `SeenInv` places what a call has read between the
  summaries as it began and those of now (`Below`), source by source as the
  stages are passed, which `SummariesGrow` preserves; `ConsistentInv` ties the
  snapshot to the bundle and the action to snapshot and policy. `LastingGrows`
  then carries lasting evidence upwards, and `CanonicalIsMostSevere` turns it
  into a severity.

- `PipelineProofs!CatalogStaysWhole`, from no assumption. The invariant is
  inductive as it stands: each operation compares normalised ids and changes
  both tables under one lock, and registering looks again at what seeding saw.
- `PipelineProofs!RoutingStaysExact`, from `ModelsAssumption` (ids are among the
  ordered `Alphabet`, flags and capabilities are as the schema has them) and
  `PipelineAssumption` (requests are well-formed, LiteLLM's adapter has its own
  id). `PipelineInv` says of each execution what its stage has settled: that the
  context carries the request's words trimmed (`ContextCarries`), that what was
  listed are models with their records as they stood (`CatalogListsModels`), that
  the targets are compatible ones, and that a reply names the first. The sort is
  by the number of smaller keys: `KeysAreOrdered` shows the keys to be totally
  ordered, `Ranked` that the members of a finite ordered set are numbered without
  gaps by how many are smaller, so sorting neither loses nor invents a candidate
  (`SortingKeepsAll`, `RouteKeepsAll`). `AskedIs` unfolds what a
  request asks, word by word and alias by alias; `NeedsAreAsked` shows that what the
  resolver makes of context and classification are just those needs, and
  `ResolverIsExact` that a model passes its test just when it serves them.
- `TelemetryProofs!ToolsAreCorrelated`, `WebIsCorrelated`, from `ToolAssumption`
  and `WebAssumption`: an event id names one event of an execution, and a call or
  request id one call and one completion of it. Both properties speak of what
  was handled and what is recorded; the inductive `ToolInv` and `WebInv` say for
  each *record* which events it stands for (`InvocationInv`, `WebRecordInv`), that
  keys are distinct, and that each event handled is told by one record: by the
  record of its id, or, without an id, by one it opened or the first open one of
  its name. Appending a record and replacing one in place are shown to keep this
  once and for all (`AppendedInv`, `ReplacedInv` and their likes for the web), and
  the totals follow because a summary is recounted from the records, which three
  cases part (`ThreeParts`). A completion or a response without an id may be told by
  a record that the one with the id takes over later; the properties say when
  (`Overtaken`, `Replaced`), and the invariants which records that can have happened
  to (`Superseded`, of the events in `Nameless`). The outcome of a response that says
  none is what the code left in the record says: `CodesLeft` is where such codes can
  come from, and `Misled` the one case where the outcome is not the response's own.
- `TelemetryProofs!HealthAgreement`, from `HealthAssumption`. The totals of a provider
  are compared with sets of events handled, and hold only together with where
  those events' executions stand: `HealthInv` adds that an execution whose end
  named a provider keeps one (`TerminalProvidersKept`), that a finalized summary
  shows its outcome, and that the latencies are known together. What a handler
  does to one execution and to the aggregates of the names it bears is a lemma
  (`AggregatedEffect`, `EventAppliedEffect`).
- `TelemetryProofs!CostsEarned`, from `EconomicsAssumption`, an action property: `CostInv`
  says that the rate a caller holds was registered since its call began, whatever
  is registered or deleted meanwhile; `CalculatorIsHonest` is about the calculator
  alone, for all counts and rates with holes.
- `AgentVendorsProofs!SessionsAreCounted`, `AStepIsTold`, `PairsAreMatched`, from
  `AgentAssumption`: a setup gives a vendor a transport it has, the lists in an
  output are lists, a control names an execution, and an absent value is neither an
  error nor an event id. Each vendor is code of its own and each definition was
  expanded for the seven of them, in lemmas that leave the rest one case: what a
  step's events are (`PlanShape`: one for the step, then pairs whose ids carry
  execution, step index and place), what beginning a step, attaching, detaching and
  a control do to the sessions, what a transport answers. The run has one execution
  and two steps, the theorems any number.
  `SessionInv` counts: numbers of the runs of an object are those from one to its
  count, and an owner is named for each control, as an action of its own takes it
  (`CountsAdd`, `AllGiven`). `ProcessInv` ties the processes registered or killed to
  the runs that have them, so that a killed step is one that has not answered.
  `TellInv` gives for each run how far it has published, that each event it is past
  was told, by it or by a run of the same step that said the same, that what it
  told itself are events of its plan in order, and where it stopped short, why:
  the bus is closed, a handler raised on its last event, or another run told the
  next one (`Lost`); `SequenceInv` keeps the sequence of an event between
  the step's number and its session's count, which only grows.
  `PairInv` says of an execution without overlapping steps, as long as no handler
  raised on a question (`QuestionsPass`), that one run at most is live, that the observers have seen no id that the bus was not told, and that
  every record holds a pair but for the last question of the run that publishes, or
  that the closing of the bus stopped there. A
  reply cannot be taken for another's: its id is new to the bus (`ReplyIsNew`), and
  the only record of its name still open is the question told right before it.
- `FrontEndsProofs!OneGoverns`, `HistoryOnlyGrows`, from `PolicyAssumption`.
  `ActiveIsServed` says nothing of a key that points at an inactive revision and
  is not inductive; `StoreInv` is, with `ActiveIsKeyed`: whatever is active is
  the keyed revision. `Storing` and `Marking` say where the entries of a new
  history come from; `SavesGovern` and `ActivationGoverns` that a revision is in force
  after every call, if one was before, unless the keyed one was replaced.
- `FrontEndsProofs!SnapshotsKeptWhileFree`, `ForwardKeepsSnapshots`,
  `ForwardKeepsOneActive`: saving under a
  number not recorded changes no other revision (`FreshSaveKeeps`), activating
  changes what is active and nothing a revision says (`ActivationKeeps`). The other
  two need `Ascending`, that a policy points at its newest number, which every
  call keeps that goes forward, so that no update finds its number taken.
- `FrontEndsProofs!RecordsStayTrue`, `CallersAreToldTheTruth`, from `PolicyAssumption`,
  `CallsAssumption` and `AskedAssumption` (a well-formed body carries one request or
  one policy of the schema; ill-formed ones are calls like any other).
  `RecordsInv` numbers contexts and results, which the code keeps in two
  repositories and fills one after the other in one handler, and `CallInv` says of
  each call, at each point of its connection, what may have been done for it: a
  reply on its way is `Fair`, and what was `Done` stays, because results and events
  are only appended and histories only grow (`NothingLost`). ChatGPT's in-process
  transport reads some errors as answers, but none of an operation that writes
  (`ChatGptWrites`).

Every safety property of a passing run is thus a theorem, but for `PromiseKept`,
whose safety part is one. Left to TLC: liveness (`ExecutionsSettle`, `CallsReturn`,
the fairness half of `PromiseKept`), because fairness is stated with ENABLED, and
the four violations, which are counterexamples. What a fold returns for every
sequence needs induction over data, which the installed provers cannot apply: where
a proof needs the least index or number with some property, it is taken from the
well-foundedness of the naturals (`LeastElement`), and what a step's lists amount to
is shown index by index rather than by recursion on their length.

## 6. Not modelled

- The event collector (it appends what one subscription receives, which
  `EventBus` records as received) and the validation of events, a schema check
  without state.
- Contracts and deployment: data classes, process configuration, health
  endpoints; no state of their own.
- Of the end-to-end environment, the wiring before the first derivation and the
  audit report; of the providers, streaming and the integration registry, which
  nothing else in the program uses.
- Of the front ends, parsing of arguments, formatting, credentials and
  authentication; everywhere, wording, logging, correlation ids and timestamps
  beyond their order.
- The web frontend.
