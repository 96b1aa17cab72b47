---------------------------- MODULE PolicyStore -----------------------------
(***************************************************************************)
(* The policy manager (infuse/policy/) over the in-memory repository       *)
(* (infuse/api/repositories/memory.py).                                    *)
(*                                                                         *)
(* A policy is validated as it came, then normalised, then saved as a      *)
(* revision; at most one revision of one policy is active.  Calls come     *)
(* from coroutines of one event loop and await nothing: each is a step.    *)
(***************************************************************************)
EXTENDS Integers, Sequences, FiniteSets

CONSTANTS
    PolicyIds,   \* stripped policy ids
    Payloads,    \* what a submitted policy may say: [limits, lists, actions]
    Submitted,   \* the versions a submitted policy may carry
    MaxNumber,   \* bound: the number a version may be bumped from
    MaxRevisions \* bound: revisions of one policy

-----------------------------------------------------------------------------
(***************************************************************************)
(* Policies.  limits holds the numeric fields that are set, in the unit of *)
(* each; lists the name lists that are set, a name being its text and      *)
(* whether blanks surround it; actions the bound Governor actions.         *)
(***************************************************************************)
Limits ==
    {"max_cost_per_task", "max_cost_per_day", "max_cost_per_month",
     "max_input_tokens", "max_output_tokens", "max_total_tokens",
     "max_rpm", "max_requests_per_task", "max_execution_time_seconds",
     "max_web_requests_per_task", "max_tool_calls_per_task",
     "max_consecutive_tool_failures", "max_retries", "backoff_factor",
     "token_velocity_surge_threshold", "repetitive_loop_threshold"}

NameLists ==
    {"allowed_providers", "allowed_models", "blocked_providers", "blocked_models",
     "allowed_domains", "blocked_domains", "allowed_tools", "blocked_tools",
     "retry_on_errors"}

ActionFields ==
    {"budget_action", "token_action", "request_action", "runtime_action",
     "provider_failure_action", "anomaly_action"}

GovernorActions == {"CONTINUE", "OPTIMIZE", "THROTTLE", "SWITCH", "PAUSE", "STOP"}

\* A version: the words and dots that precede its trailing number, that number
\* or Unnumbered, and whether blanks surround it.  Release is "1.0.0".
Unnumbered == -1
Version(stem, number) == [stem |-> stem, number |-> number, padded |-> FALSE]
Release == Version(<<"1", ".", "0", ".">>, 0)

IsVersion(v) ==
    v.stem \in Seq(STRING) /\ v.number \in Nat \cup {Unnumbered} /\ v.padded \in BOOLEAN

ASSUME PolicyAssumption ==
    /\ MaxNumber \in Nat /\ MaxRevisions \in Nat
    /\ \A v \in Submitted : /\ v = [stem |-> v.stem, number |-> v.number, padded |-> v.padded]
                            /\ IsVersion(v)
    /\ \A c \in Payloads :
          /\ c = [limits |-> c.limits, lists |-> c.lists, actions |-> c.actions]
          /\ DOMAIN c.limits \subseteq Limits /\ DOMAIN c.lists \subseteq NameLists
          /\ DOMAIN c.actions \subseteq ActionFields

Defaults == [limits |-> [l \in {"max_retries", "backoff_factor"} |-> 3],
             lists |-> [l \in {} |-> {}], actions |-> [f \in {} |-> "CONTINUE"]]

VARIABLES
    revisions,  \* _revisions: each policy's revisions, oldest first
    latest,     \* _policies: the version of the revision each policy points at
    active_key  \* _active_key: the policy and version made active last, if any

policy_vars == <<revisions, latest, active_key>>

-----------------------------------------------------------------------------
(***************************************************************************)
(* Validation, normalisation and versioning                                *)
(***************************************************************************)
Positive == {"max_rpm", "max_requests_per_task", "max_execution_time_seconds",
             "backoff_factor", "token_velocity_surge_threshold", "repetitive_loop_threshold"}

NoLessThan ==  \* the second limit may not be below the first
    {<<"max_cost_per_task", "max_cost_per_day">>, <<"max_cost_per_day", "max_cost_per_month">>,
     <<"max_input_tokens", "max_total_tokens">>, <<"max_output_tokens", "max_total_tokens">>}

Exclusive ==
    {<<"allowed_providers", "blocked_providers">>, <<"allowed_models", "blocked_models">>,
     <<"allowed_domains", "blocked_domains">>, <<"allowed_tools", "blocked_tools">>}

ActionsBound(p) == \A f \in DOMAIN p.actions : p.actions[f] \in GovernorActions

\* Names are compared as they were sent: "a" and " a " do not overlap.
validate_policy(p) ==
    /\ p.version.stem # <<>> \/ p.version.number # Unnumbered
    /\ \A l \in DOMAIN p.limits : p.limits[l] >= IF l \in Positive THEN 1 ELSE 0
    /\ \A pair \in NoLessThan :
          {pair[1], pair[2]} \subseteq DOMAIN p.limits => p.limits[pair[1]] <= p.limits[pair[2]]
    /\ \A pair \in Exclusive :
          {pair[1], pair[2]} \subseteq DOMAIN p.lists =>
             p.lists[pair[1]] \cap p.lists[pair[2]] = {}
    /\ ActionsBound(p)

Clean(names) == {[n EXCEPT !.padded = FALSE] : n \in {n \in names : n.text # ""}}

Strip(v) == [v EXCEPT !.padded = FALSE]

normalize_policy(p) ==
    [p EXCEPT !.version = Strip(p.version),
              !.lists = [l \in DOMAIN p.lists |-> Clean(p.lists[l])]]

_bump_version(v) ==
    IF v.number = Unnumbered THEN Version(Append(v.stem, "."), 1)
    ELSE Version(v.stem, v.number + 1)

-----------------------------------------------------------------------------
(***************************************************************************)
(* The repository                                                          *)
(***************************************************************************)
Revisions(pid) == {revisions[pid][i] : i \in DOMAIN revisions[pid]}
Versions(pid) == {r.version : r \in Revisions(pid)}
get_revision(pid, v) == CHOOSE r \in Revisions(pid) : r.version = v
Exists(pid) == revisions[pid] # <<>>
get_by_id(pid) == get_revision(pid, latest[pid])

\* The revision that governs: the keyed one while it is active, else
\* whichever active revision a policy points at.
Keyed == {k \in active_key : k[2] \in Versions(k[1]) /\ get_revision(k[1], k[2]).is_active}
Pointed == {<<pid, latest[pid]>> : pid \in {q \in PolicyIds : Exists(q) /\ get_by_id(q).is_active}}
get_active == IF Keyed # {} THEN Keyed ELSE Pointed

\* revs with every revision but version v of pid deactivated.
Only(revs, pid, v) ==
    [q \in PolicyIds |-> [i \in DOMAIN revs[q] |->
        [revs[q][i] EXCEPT !.is_active = @ /\ q = pid /\ revs[q][i].version = v]]]

\* revs with p in the place of the revision of its version, or after the last.
Stored(revs, p) ==
    [revs EXCEPT ![p.policy_id] =
        IF p.version \in Versions(p.policy_id)
        THEN [i \in DOMAIN @ |-> IF @[i].version = p.version THEN p ELSE @[i]]
        ELSE Append(@, p)]

\* Mutant: the revisions that were active stay active.
Mut_save(p) ==
    /\ revisions' = Stored(revisions, p)
    /\ latest' = [latest EXCEPT ![p.policy_id] = p.version]
    /\ active_key' = IF p.is_active THEN {<<p.policy_id, p.version>>} ELSE active_key

\* Mutant: the new revision takes the place of the newest one.
Mut_save_last(p) ==
    /\ revisions' = [Only(revisions, p.policy_id, p.version) EXCEPT ![p.policy_id] =
                        IF @ = <<>> THEN <<p>> ELSE [@ EXCEPT ![Len(@)] = p]]
    /\ latest' = [latest EXCEPT ![p.policy_id] = p.version]
    /\ active_key' = IF p.is_active THEN {<<p.policy_id, p.version>>} ELSE active_key

save(p) ==
    /\ latest' = [latest EXCEPT ![p.policy_id] = p.version]
    /\ IF p.is_active
       THEN /\ revisions' = Only(Stored(revisions, p), p.policy_id, p.version)
            /\ active_key' = {<<p.policy_id, p.version>>}
       ELSE /\ revisions' = Stored(revisions, p)
            /\ UNCHANGED active_key

set_active(pid, v) ==
    /\ revisions' = [q \in PolicyIds |-> [i \in DOMAIN revisions[q] |->
                        [revisions[q][i] EXCEPT !.is_active = q = pid /\ revisions[q][i].version = v]]]
    /\ latest' = [latest EXCEPT ![pid] = v]
    /\ active_key' = {<<pid, v>>}

-----------------------------------------------------------------------------
(***************************************************************************)
(* The manager                                                             *)
(***************************************************************************)
Policy(pid, v, active, content) ==
    [policy_id |-> pid, version |-> v, is_active |-> active, limits |-> content.limits,
     lists |-> content.lists, actions |-> content.actions]

PolicyInit ==
    /\ \E pid \in PolicyIds :  \* the seeded default
          /\ revisions = [q \in PolicyIds |->
                             IF q = pid THEN <<Policy(pid, Release, TRUE, Defaults)>> ELSE <<>>]
          /\ latest = [q \in PolicyIds |-> Release]
          /\ active_key = {<<pid, Release>>}

create_policy(p, activate) ==
    /\ validate_policy(p) /\ ~Exists(p.policy_id)
    /\ save([normalize_policy(p) EXCEPT !.is_active = @ \/ activate])

\* The version an update is stored under.  The bump_version flag changes
\* nothing: what it guards asks for a taken version or for 1.0.0 again.
Renumbered(p) ==
    IF p.version \in Versions(p.policy_id) \cup {latest[p.policy_id], Release}
    THEN [p EXCEPT !.version = _bump_version(latest[p.policy_id])]
    ELSE p

update_policy(p) ==
    /\ Exists(p.policy_id) /\ validate_policy(Renumbered(p))
    /\ save(normalize_policy(Renumbered(p)))

Activate(pid, v) == v \in Versions(pid) /\ set_active(pid, v)
ActivateLatest(pid) == Exists(pid) /\ set_active(pid, latest[pid])

activate_policy(pid) == ActivateLatest(pid) \/ \E v \in Versions(pid) : Activate(pid, v)

Room(pid) == Len(revisions[pid]) < MaxRevisions /\ latest[pid].number < MaxNumber

Drafts == {Policy(pid, v, active, content) :
              pid \in PolicyIds, v \in Submitted, active \in BOOLEAN, content \in Payloads}

PolicyNext ==
    \/ \E p \in Drafts, activate \in BOOLEAN : create_policy(p, activate)
    \/ \E p \in Drafts : Room(p.policy_id) /\ update_policy(p)
    \/ \E pid \in PolicyIds : activate_policy(pid)

PolicySpec == PolicyInit /\ [][PolicyNext]_policy_vars

-----------------------------------------------------------------------------
(***************************************************************************)
(* Properties                                                              *)
(***************************************************************************)
IsPolicy(p) ==
    /\ p = [policy_id |-> p.policy_id, version |-> p.version, is_active |-> p.is_active,
            limits |-> p.limits, lists |-> p.lists, actions |-> p.actions]
    /\ p.is_active \in BOOLEAN
    /\ IsVersion(p.version) /\ ~p.version.padded

\* No two revisions of a policy share a version, and a policy points at one
\* of its own revisions.
OnePerVersion ==
    \A pid \in PolicyIds :
       /\ \A i, j \in DOMAIN revisions[pid] :
             revisions[pid][i].version = revisions[pid][j].version => i = j
       /\ Exists(pid) => latest[pid] \in Versions(pid)

ActiveOnes == UNION {{<<pid, r.version>> : r \in {s \in Revisions(pid) : s.is_active}} :
                        pid \in PolicyIds}

\* Through any sequence of creations, updates and activations, at most one
\* revision of one policy is active, and it is the one get_active answers, or
\* none: none of the manager's readers sees another policy in force.  That
\* there always is one (docs/architecture/policy_manager.md) the code does
\* not keep, see KeepsGoverning.
ActiveIsServed ==
    /\ OnePerVersion
    /\ Cardinality(ActiveOnes) <= 1
    /\ get_active = ActiveOnes

\* No revision's version leaves the history or moves.
KeepsVersions ==
    \A pid \in PolicyIds : \A i \in DOMAIN revisions[pid] :
       i \in DOMAIN revisions'[pid] /\ revisions'[pid][i].version = revisions[pid][i].version

\* The policy in force gives way to nothing only when an update that is not
\* active is stored in the place of its revision, to which _active_key still
\* points.
KeepsGoverning ==
    ActiveOnes' = {} =>
        \A k \in ActiveOnes : latest'[k[1]] = k[2] /\ UNCHANGED active_key

\* What the documentation calls the immutability of revisions and the one active
\* revision, as far as every call keeps them.
HistoryGrows == [][KeepsVersions /\ KeepsGoverning]_policy_vars

\* A recorded revision keeps its limits, lists and bindings forever
\* (docs/architecture/policy_manager.md).
KeepsContents ==
    \A pid \in PolicyIds : \A i \in DOMAIN revisions[pid] :
       LET old == revisions[pid][i]
       IN \E j \in DOMAIN revisions'[pid] :
             LET new == revisions'[pid][j]
             IN /\ new.version = old.version /\ new.limits = old.limits
                /\ new.lists = old.lists /\ new.actions = old.actions
SnapshotsAreImmutable == [][KeepsContents]_policy_vars

\* Versions are submitted without spaces around them.
Unpadded == \A v \in Submitted : ~v.padded

\* Every policy points at a revision whose next number is not recorded yet:
\* true until an older revision is activated, or a number below one stored is
\* submitted.
NextIsFree ==
    \A pid \in PolicyIds : Exists(pid) => _bump_version(latest[pid]) \notin Versions(pid)

\* As far as the code keeps these rules: while the next number of every policy
\* is free no call changes what a revision says, and none leaves no policy in
\* force.
KeptWhileFree ==
    [][NextIsFree => KeepsContents /\ (ActiveOnes # {} => ActiveOnes' # {})]_policy_vars

\* Of a policy's revisions, only the one it points at is activated.
Forward ==
    \A pid \in PolicyIds : \A v \in Versions(pid) : set_active(pid, v) => v = latest[pid]
=============================================================================
