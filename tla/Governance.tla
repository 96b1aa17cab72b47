----------------------------- MODULE Governance -----------------------------
(* The governance loop of one execution (e2e/environment.py,               *)
(* state/engine.py, governor/engine.py): a controller reads the active     *)
(* policy and the summaries of five observers, one after the other, has    *)
(* the state engine derive a state and the governor decide, and dispatches *)
(* the decision.  derive_state and evaluate_governor take no lock of the   *)
(* environment, so several controllers run the loop while events go on     *)
(* arriving and the active policy changes.  The engine and the governor    *)
(* each do their part under their own lock.  What the dispatched action    *)
(* then does is AgentControl's subject.                                    *)
EXTENDS Integers, Sequences

CONSTANTS Controllers,      \* threads that run the loop
          None,             \* Python's None
          Policies,         \* the policy revisions that may be active
          NoPolicy,         \* what policy=None stands for: no limits, default bindings
          limits, actions,  \* the limits and the action bindings of each of them
          Categories,       \* error categories the health engine may record
          Latencies, TokenCounts, Costs,   \* values the summaries may show
          MaxRounds,        \* bound: calls of the environment
          MaxChanges        \* bound: events, changes of the active policy, clears

Limits == {"max_tool_calls", "max_tool_failures", "max_web_requests", "max_time",
           "loop_threshold", "max_cost", "max_total_tokens"}
Bindings == {"budget_action", "token_action", "request_action", "runtime_action",
             "provider_failure_action", "anomaly_action"}
GovernorActions == {"CONTINUE", "OPTIMIZE", "ESCALATE", "DOWNGRADE", "SWITCH",
                    "THROTTLE", "STOP"}

ASSUME GovernanceAssumption ==
    /\ None \notin Int /\ None \notin Policies
    /\ limits \in [Policies \cup {NoPolicy} -> [Limits -> Nat \cup {None}]]
    /\ actions \in [Policies \cup {NoPolicy} -> [Bindings -> GovernorActions]]
    /\ \A l \in Limits : limits[NoPolicy][l] = None
    /\ Latencies \subseteq Nat \cup {None}
    /\ TokenCounts \subseteq Nat /\ Costs \subseteq Nat
    /\ MaxRounds \in Nat /\ MaxChanges \in Nat

----------------------------------------------------------------------------
(* From evidence to a state: the pure part of update_bundle.               *)

States == {"NORMAL", "COST_PRESSURE", "QUALITY_DEGRADED", "PROVIDER_CONSTRAINED", "RUNAWAY"}

Severity == [NORMAL |-> 1, COST_PRESSURE |-> 2, QUALITY_DEGRADED |-> 3,
             PROVIDER_CONSTRAINED |-> 4, RUNAWAY |-> 5]

Outages == {"RATE_LIMIT", "UNAVAILABLE", "AUTHENTICATION", "TIMEOUT", "PROVIDER_ERROR"}

Reached(x, limit) == x # None /\ limit # None /\ x >= limit

\* At 80% of the limit; int() rounds the token limit down, the cost is a float.
NearCost(x, limit) == x # None /\ limit # None /\ 10 * x >= 8 * limit
NearTokens(x, limit) == x # None /\ limit # None /\ x >= (8 * limit) \div 10

AllFailed(s) == s # None /\ s.failed > 0 /\ s.successful = 0

ReasonsOf ==
    [RUNAWAY |-> {"MAX_TOOL_CALLS_EXCEEDED", "CONSECUTIVE_TOOL_FAILURES_EXCEEDED",
                  "MAX_WEB_REQUESTS_EXCEEDED", "EXECUTION_TIME_EXCEEDED",
                  "REPETITIVE_LOOP_DETECTED"},
     PROVIDER_CONSTRAINED |-> Outages,
     QUALITY_DEGRADED |-> {"EXECUTION_FAILURE", "ALL_TOOL_CALLS_FAILED",
                           "ALL_WEB_REQUESTS_FAILED"},
     COST_PRESSURE |-> {"BUDGET_EXCEEDED", "COST_PRESSURE_HIGH", "TOKEN_CEILING_EXCEEDED",
                        "TOKEN_PRESSURE_HIGH"},
     NORMAL |-> {"NORMAL_EXECUTION"}]

Reasons == UNION {ReasonsOf[s] : s \in States}

\* An outage is a reason of its own, named here as its category.
OutagesSeen(b) == IF b.health = None THEN {} ELSE b.health.errors \cap Outages

\* Which of the other reasons the summaries b give under the limits l.
Evidence(b, l) ==
    [MAX_TOOL_CALLS_EXCEEDED |-> b.tools # None /\ Reached(b.tools.total, l.max_tool_calls),
     CONSECUTIVE_TOOL_FAILURES_EXCEEDED |->
         b.tools # None /\ Reached(b.tools.failed, l.max_tool_failures),
     MAX_WEB_REQUESTS_EXCEEDED |-> b.web # None /\ Reached(b.web.total, l.max_web_requests),
     EXECUTION_TIME_EXCEEDED |-> b.health # None /\ Reached(b.health.latency, l.max_time),
     REPETITIVE_LOOP_DETECTED |-> Reached(b.repetitive_loops, l.loop_threshold),
     EXECUTION_FAILURE |-> b.health # None /\ b.health.failed /\ OutagesSeen(b) = {},
     ALL_TOOL_CALLS_FAILED |-> AllFailed(b.tools),
     ALL_WEB_REQUESTS_FAILED |-> AllFailed(b.web),
     BUDGET_EXCEEDED |-> Reached(b.cost, l.max_cost),
     COST_PRESSURE_HIGH |-> ~Reached(b.cost, l.max_cost) /\ NearCost(b.cost, l.max_cost),
     TOKEN_CEILING_EXCEEDED |-> Reached(b.tokens, l.max_total_tokens),
     TOKEN_PRESSURE_HIGH |->
         ~Reached(b.tokens, l.max_total_tokens) /\ NearTokens(b.tokens, l.max_total_tokens)]

PolicyOr(policy) == IF policy = None THEN NoPolicy ELSE policy

\* The reasons a bundle gives; NORMAL_EXECUTION if there is no other.
Triggered(b) ==
    LET evidence == Evidence(b, limits[PolicyOr(b.policy)])
        found == {r \in DOMAIN evidence : evidence[r]} \cup OutagesSeen(b)
    IN IF found = {} THEN {"NORMAL_EXECUTION"} ELSE found

\* Mutant: the first state that is triggered is taken, the least severe one.
Mut_Canonical(reasons) ==
    CHOOSE s \in States :
        /\ ReasonsOf[s] \cap reasons # {}
        /\ \A t \in States : ReasonsOf[t] \cap reasons # {} => Severity[s] <= Severity[t]

\* The most severe state some reason stands for.
Canonical(reasons) ==
    CHOOSE s \in States :
        /\ ReasonsOf[s] \cap reasons # {}
        /\ \A t \in States : ReasonsOf[t] \cap reasons # {} => Severity[t] <= Severity[s]

\* The binding of the policy a state and its reasons call for.
Binding(state, reasons) ==
    IF state = "COST_PRESSURE"
    THEN IF reasons \cap {"TOKEN_CEILING_EXCEEDED", "TOKEN_PRESSURE_HIGH"} # {}
         THEN "token_action" ELSE "budget_action"
    ELSE IF state # "RUNAWAY" THEN "provider_failure_action"
    ELSE IF "EXECUTION_TIME_EXCEEDED" \in reasons THEN "runtime_action"
    ELSE IF "MAX_WEB_REQUESTS_EXCEEDED" \in reasons THEN "request_action"
    ELSE "anomaly_action"

\* Mutant: no case for NORMAL, the action stays None.
Mut_Decided(policy, snap) ==
    IF snap.state = "NORMAL" THEN None
    ELSE actions[PolicyOr(policy)][Binding(snap.state, snap.reasons)]

Decided(policy, snap) ==
    IF snap.state = "NORMAL" THEN "CONTINUE"
    ELSE actions[PolicyOr(policy)][Binding(snap.state, snap.reasons)]

----------------------------------------------------------------------------
VARIABLES
    summaries,      \* what the five observers would answer now
    active,         \* what the policy manager would answer now
    record,         \* the engine's record of the execution
    history,        \* the engine's history of the execution
    decisions,      \* the governor's history of the execution
    eval_count,     \* the governor's count of evaluations
    at,             \* where each controller stands
    work,           \* what it holds: goal, policy, bundle, snapshot, action
    dispatched,     \* actions handed to the control boundary
    began,          \* observation: the summaries as each controller's call began
    count           \* bounds: rounds and changes so far, and runs of execute_e2e

engine == <<record, history>>
governor == <<decisions, eval_count>>
world == <<summaries, active>>
vars == <<summaries, active, record, history, decisions, eval_count, at, work,
          dispatched, began, count>>

Sources == {"tokens", "cost", "health", "tools", "web"}

\* derive_state asks the observers in this order.
Following == [tokens |-> "cost", cost |-> "health", health |-> "tools",
              tools |-> "web", web |-> "policy"]

Goals == {"derive_state", "evaluate_governor", "execute_e2e"}

Unread == [tokens |-> None, cost |-> None, health |-> None, tools |-> None, web |-> None]

\* The environment never passes context_metadata: no loops are ever reported.
EmptyBundle == [tokens |-> None, cost |-> None, health |-> None, tools |-> None,
                web |-> None, policy |-> None, repetitive_loops |-> 0]

NoWork == [goal |-> None, policy |-> None, bundle |-> EmptyBundle, snap |-> None,
           action |-> None]

Init ==
    /\ summaries = Unread
    /\ active \in Policies
    /\ record = None /\ history = <<>>
    /\ decisions = <<>> /\ eval_count = 0
    /\ at = [c \in Controllers |-> "idle"]
    /\ work = [c \in Controllers |-> NoWork]
    /\ dispatched = <<>>
    /\ began = [c \in Controllers |-> Unread]
    /\ count = [rounds |-> 0, changes |-> 0, driven |-> 0]

Change == count.changes < MaxChanges /\ count' = [count EXCEPT !.changes = @ + 1]

----------------------------------------------------------------------------
(* The world: what the observers have seen of the execution, and the       *)
(* active policy, change under the controllers' feet.  The observers'      *)
(* clear(), which no code calls while executions are governed, is left     *)
(* out: it alone takes evidence back.                                      *)

Outcomes == {"successful", "failed"}
NoActivity == [total |-> 0, successful |-> 0, failed |-> 0]

Called(s) == [s EXCEPT !.total = @ + 1]
Ended(s, o) == [s EXCEPT ![o] = @ + 1]
Revised(s, o, p) == [s EXCEPT ![o] = @ - 1, ![p] = @ + 1]

\* A call begins; an open call ends; an end arrives whose call was not seen;
\* a second end is reported for a call.
Observed(s) ==
    {Called(s)}
      \cup {Ended(s, o) : o \in {o \in Outcomes : s.successful + s.failed < s.total}}
      \cup {Ended(Called(s), o) : o \in Outcomes}
      \cup {Revised(s, q[1], q[2]) : q \in {q \in Outcomes \X Outcomes : s[q[1]] > 0}}

\* The tool observer or the web observer handles an event.
ObserveActivity(source) ==
    /\ Change
    /\ \E s \in Observed(IF summaries[source] = None THEN NoActivity ELSE summaries[source]) :
           summaries' = [summaries EXCEPT ![source] = s]
    /\ UNCHANGED <<active, engine, governor, at, work, dispatched, began>>

\* The token observer's total, or the cost the economics engine computed from
\* it, becomes some value: an estimate may be corrected downwards.
ObserveAmount(source, amounts) ==
    /\ Change
    /\ \E n \in amounts : summaries' = [summaries EXCEPT ![source] = n]
    /\ UNCHANGED <<active, engine, governor, at, work, dispatched, began>>

Health == IF summaries.health = None
          THEN [errors |-> {}, failed |-> FALSE, latency |-> None]
          ELSE summaries.health

Timed(h, latency) == IF latency = None THEN h ELSE [h EXCEPT !.latency = latency]

Completed(h, latency) == [Timed(h, latency) EXCEPT !.failed = FALSE]

Failed(h, category, latency) ==
    [Timed(h, latency) EXCEPT !.failed = TRUE, !.errors = @ \cup {category}]

\* PROVIDER_ERROR, EXECUTION_FAILED, EXECUTION_COMPLETED.
HealthAfter ==
    {[Health EXCEPT !.errors = @ \cup {k}] : k \in Categories}
      \cup {Failed(Health, k, n) : k \in Categories, n \in Latencies}
      \cup {Completed(Health, n) : n \in Latencies}

\* The health engine handles an event.
ObserveHealth ==
    /\ Change
    /\ \E h \in HealthAfter :
           summaries' = [summaries EXCEPT !.health = h]
    /\ UNCHANGED <<active, engine, governor, at, work, dispatched, began>>

\* Another revision is activated, or the active one is replaced by an inactive one.
ChangePolicy ==
    /\ Change
    /\ active' \in (Policies \cup {None}) \ {active}
    /\ UNCHANGED <<summaries, engine, governor, at, work, dispatched, began>>

----------------------------------------------------------------------------
(* A call of the environment by controller c.                              *)

Go(c, stage) == at' = [at EXCEPT ![c] = stage]

\* execute_e2e creates the execution, so only one controller drives it.  The
\* policy is read first, except by derive_state.
Begin(c) ==
    /\ at[c] = "idle"
    /\ count.rounds < MaxRounds
    /\ \E g \in Goals :
          /\ g = "execute_e2e" => count.driven = 0
          /\ count' = [rounds |-> count.rounds + 1, changes |-> count.changes,
                       driven |-> IF g = "execute_e2e" THEN 1 ELSE count.driven]
          /\ work' = [work EXCEPT ![c] =
                        [NoWork EXCEPT !.goal = g,
                                       !.policy = IF g = "derive_state" THEN None ELSE active]]
    /\ began' = [began EXCEPT ![c] = summaries]
    /\ Go(c, "tokens")
    /\ UNCHANGED <<world, engine, governor, dispatched>>

\* One get_observation, get_summary, get_execution_health, get_execution_summary.
ReadSummary(c) ==
    /\ at[c] \in Sources
    /\ work' = [work EXCEPT ![c].bundle[at[c]] = summaries[at[c]]]
    /\ Go(c, Following[at[c]])
    /\ UNCHANGED <<world, engine, governor, dispatched, began, count>>

\* eff_policy = policy or self.policy_manager.get_active_policy()
ResolvePolicy(c) ==
    /\ at[c] = "policy"
    /\ work' = [work EXCEPT ![c].bundle.policy =
                  IF work[c].policy = None THEN active ELSE work[c].policy]
    /\ Go(c, "derive")
    /\ UNCHANGED <<world, engine, governor, dispatched, began, count>>

IsTransition(state) == record # None /\ record.state # state

\* Mutant: a reason once given is given again.
Mut_Snapshot(b) ==
    LET reasons == Triggered(b) \cup (IF record = None THEN {} ELSE record.reasons)
        state == Canonical(reasons)
    IN [state |-> state,
        previous |-> IF record = None THEN None ELSE record.state,
        reasons |-> reasons \cap ReasonsOf[state],
        transitions |-> IF record = None THEN 0
                        ELSE IF IsTransition(state) THEN record.transitions + 1
                        ELSE record.transitions,
        derivations |-> IF record = None THEN 1 ELSE record.derivations + 1]

\* What update_bundle computes from a bundle and the prior record.
Snapshot(b) ==
    LET reasons == Triggered(b)
        state == Canonical(reasons)
    IN [state |-> state,
        previous |-> IF record = None THEN None ELSE record.state,
        reasons |-> reasons \cap ReasonsOf[state],
        transitions |-> IF record = None THEN 0
                        ELSE IF IsTransition(state) THEN record.transitions + 1
                        ELSE record.transitions,
        derivations |-> IF record = None THEN 1 ELSE record.derivations + 1]

\* Mutant: every derivation goes into the history, transition or not.
Mut_Recorded(snap) == Append(history, [state |-> snap.state, previous |-> snap.previous])

\* The history begins with the first snapshot and grows with transitions only.
Recorded(snap) ==
    IF history = <<>> \/ IsTransition(snap.state)
    THEN Append(history, [state |-> snap.state, previous |-> snap.previous])
    ELSE history

\* update_bundle, under the engine's lock.
Derive(c) ==
    /\ at[c] = "derive"
    /\ LET snap == Snapshot(work[c].bundle)
       IN /\ record' = snap
          /\ history' = Recorded(snap)
          /\ work' = [work EXCEPT ![c].snap = snap]
    /\ Go(c, IF work[c].goal = "derive_state" THEN "return" ELSE "evaluate")
    /\ UNCHANGED <<world, governor, dispatched, began, count>>

\* Mutant: the governor is handed the engine's latest snapshot.
Mut_Evaluated(c) == IF record = None THEN work[c].snap ELSE record

\* The snapshot the governor decides on: the one the caller derived.
Evaluated(c) == work[c].snap

\* evaluate, under the governor's lock.
Evaluate(c) ==
    /\ at[c] = "evaluate"
    /\ LET snap == Evaluated(c)
           action == Decided(work[c].policy, snap)
       IN /\ decisions' = Append(decisions, [number |-> eval_count + 1,
                                             state |-> snap.state, action |-> action])
          /\ work' = [work EXCEPT ![c].action = action]
    /\ eval_count' = eval_count + 1
    /\ Go(c, IF work[c].goal = "execute_e2e" THEN "dispatch" ELSE "return")
    /\ UNCHANGED <<world, engine, dispatched, began, count>>

\* CONTINUE is not dispatched.
Dispatch(c) ==
    /\ at[c] = "dispatch"
    /\ dispatched' = IF work[c].action = "CONTINUE" THEN dispatched
                     ELSE Append(dispatched, work[c].action)
    /\ Go(c, "complete")
    /\ UNCHANGED <<world, engine, governor, work, began, count>>

\* Whatever was dispatched, execute_e2e publishes EXECUTION_COMPLETED.
Complete(c) ==
    /\ at[c] = "complete"
    /\ summaries' = [summaries EXCEPT !.health = Completed(Health, None)]
    /\ Go(c, "return")
    /\ UNCHANGED <<active, engine, governor, work, dispatched, began, count>>

Return(c) ==
    /\ at[c] = "return"
    /\ work' = [work EXCEPT ![c] = NoWork]
    /\ began' = [began EXCEPT ![c] = Unread]
    /\ Go(c, "idle")
    /\ UNCHANGED <<world, engine, governor, dispatched, count>>

ClearEngine ==
    /\ Change
    /\ record' = None /\ history' = <<>>
    /\ UNCHANGED <<world, governor, at, work, dispatched, began>>

ClearGovernor ==
    /\ Change
    /\ decisions' = <<>> /\ eval_count' = 0
    /\ UNCHANGED <<world, engine, at, work, dispatched, began>>

World ==
    \/ \E source \in {"tools", "web"} : ObserveActivity(source)
    \/ ObserveAmount("tokens", TokenCounts)
    \/ ObserveAmount("cost", Costs)
    \/ ObserveHealth
    \/ ChangePolicy
    \/ ClearEngine
    \/ ClearGovernor

Call(c) ==
    \/ Begin(c) \/ ReadSummary(c) \/ ResolvePolicy(c) \/ Derive(c)
    \/ Evaluate(c) \/ Dispatch(c) \/ Complete(c) \/ Return(c)

Next == World \/ \E c \in Controllers : Call(c)

Spec == Init /\ [][Next]_vars

----------------------------------------------------------------------------
(* Properties.                                                             *)

Activity == {s \in [total : Nat, successful : Nat, failed : Nat] :
                s.successful + s.failed <= s.total}
HealthSummary == [errors : SUBSET Categories, failed : BOOLEAN, latency : Latencies \cup {None}]
Summaries == [tokens : Nat \cup {None}, cost : Nat \cup {None},
              health : HealthSummary \cup {None},
              tools : Activity \cup {None}, web : Activity \cup {None}]
Bundles == [tokens : Nat \cup {None}, cost : Nat \cup {None},
            health : HealthSummary \cup {None},
            tools : Activity \cup {None}, web : Activity \cup {None},
            policy : Policies \cup {None}, repetitive_loops : {0}]
Snapshots == [state : States, previous : States \cup {None}, reasons : SUBSET Reasons,
              transitions : Nat, derivations : Nat]
Entries == [state : States, previous : States \cup {None}]
Decisions == [number : Nat, state : States, action : GovernorActions]
Works == [goal : Goals \cup {None}, policy : Policies \cup {None}, bundle : Bundles,
          snap : Snapshots \cup {None}, action : GovernorActions \cup {None}]
Stages == Sources \cup {"idle", "policy", "derive", "evaluate", "dispatch", "complete", "return"}
Counts == [rounds : Nat, changes : Nat, driven : {0, 1}]

ASSUME NoneIsNoRecord ==
    None \notin Snapshots /\ None \notin Activity /\ None \notin HealthSummary

Derived(c) == at[c] \in {"evaluate", "dispatch", "complete", "return"}
HasDecided(c) == at[c] \in {"dispatch", "complete", "return"} /\ work[c].action # None

\* Type invariant: the dictionaries of engine and governor, the summaries and
\* the locals of every call hold what the code's types say, and every decision
\* carries an action of the governor's vocabulary.
TypeOK ==
    /\ summaries \in Summaries
    /\ active \in Policies \cup {None}
    /\ record \in Snapshots \cup {None}
    /\ history \in Seq(Entries)
    /\ decisions \in Seq(Decisions)
    /\ eval_count \in Nat
    /\ at \in [Controllers -> Stages]
    /\ work \in [Controllers -> Works]
    /\ dispatched \in Seq(GovernorActions)
    /\ began \in [Controllers -> Summaries]
    /\ count \in Counts

\* The engine's history is the chain of state changes: it begins without a
\* predecessor, each entry takes over from the one before and differs from it,
\* and the record stands at its end with as many transitions.
EngineTrail ==
    /\ record = None <=> history = <<>>
    /\ record # None =>
          /\ history[1].previous = None
          /\ history[Len(history)].state = record.state
          /\ record.transitions = Len(history) - 1
          /\ record.derivations >= Len(history)
    /\ \A i \in 1 .. Len(history) - 1 :
          /\ history[i + 1].previous = history[i].state
          /\ history[i + 1].state # history[i].state

\* The governor's history numbers its decisions without gap or repetition.
GovernorTrail ==
    /\ eval_count = Len(decisions)
    /\ \A i \in 1 .. Len(decisions) : decisions[i].number = i

\* Both histories stay whole however the controllers' calls and the clears of
\* engine and governor interleave.
TrailsAreWhole == EngineTrail /\ GovernorTrail

\* Evidence that stays once it is there: records are counted, errors listed,
\* and neither is ever taken back.
Lasting == {"MAX_TOOL_CALLS_EXCEEDED", "MAX_WEB_REQUESTS_EXCEEDED"} \cup Outages

View(s, policy) ==
    [tokens |-> s.tokens, cost |-> s.cost, health |-> s.health, tools |-> s.tools,
     web |-> s.web, policy |-> policy, repetitive_loops |-> 0]

\* A call misses nothing that was there when it began: the state it derives is
\* at least as severe as the lasting evidence of that moment, although the
\* summaries are read one by one while events arrive and other calls derive.
NothingMissed ==
    \A c \in Controllers : Derived(c) =>
        LET known == Triggered(View(began[c], work[c].bundle.policy)) \cap Lasting
        IN \A s \in States :
              known \cap ReasonsOf[s] # {} => Severity[work[c].snap.state] >= Severity[s]

\* A call invents nothing: every lasting reason its snapshot gives is still
\* borne out by what the observers have seen, under the policy it read.
NothingInvented ==
    \A c \in Controllers : Derived(c) =>
        \A r \in work[c].snap.reasons \cap Lasting :
            r \in Triggered(View(summaries, work[c].bundle.policy))

\* If a limit on calls or requests of the policy a call works under was reached
\* when the call began, the decision is an action this very policy binds to a
\* runaway execution: neither an activation in between, nor another controller's
\* derivation from older evidence, nor a clear makes it anything else.
RunawayIsGoverned ==
    \A c \in Controllers : HasDecided(c) /\ work[c].policy # None =>
        LET p == work[c].policy
        IN Triggered(View(began[c], p)) \cap Lasting \cap ReasonsOf["RUNAWAY"] # {}
             => work[c].action \in {actions[p][b] : b \in
                                      {"runtime_action", "request_action", "anomaly_action"}}
=============================================================================
