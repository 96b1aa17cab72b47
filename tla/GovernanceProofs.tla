-------------------------- MODULE GovernanceProofs --------------------------
(***************************************************************************)
(* Theorems about Governance, for all sets of controllers, all policies,   *)
(* all values the summaries may show and all bounds.                       *)
(***************************************************************************)
EXTENDS Governance, TLAPS

\* Every reason stands for exactly one state, and every state has a reason.
LEMMA ReasonsPartition ==
    /\ \A s \in States : ReasonsOf[s] # {} /\ ReasonsOf[s] \subseteq Reasons
    /\ \A r \in Reasons : \E s \in States : r \in ReasonsOf[s]
    /\ "NORMAL_EXECUTION" \in Reasons
<1>1. \A s \in States : ReasonsOf[s] # {}
  BY DEF States, ReasonsOf, Outages
<1> QED
  BY <1>1 DEF Reasons, States, ReasonsOf

\* Severity ranks the states.
LEMMA SeverityRanks == \A s \in States : Severity[s] \in 1 .. 5
BY DEF States, Severity

\* The canonical state of a set of reasons is one of its states, and the most
\* severe of them.
LEMMA CanonicalIsMostSevere ==
    ASSUME NEW R, R # {}, R \subseteq Reasons
    PROVE  /\ Canonical(R) \in States
           /\ ReasonsOf[Canonical(R)] \cap R # {}
           /\ \A t \in States : ReasonsOf[t] \cap R # {} => Severity[t] <= Severity[Canonical(R)]
<1> DEFINE Shown(s) == ReasonsOf[s] \cap R # {}
           Top(s) == Shown(s) /\ \A t \in States : Shown(t) => Severity[t] <= Severity[s]
<1>1. \E s \in States : Shown(s)
  BY ReasonsPartition
<1>2. \E s \in States : Top(s)
  <2>1. CASE Shown("RUNAWAY")
    BY <2>1 DEF States, Severity
  <2>2. CASE ~Shown("RUNAWAY") /\ Shown("PROVIDER_CONSTRAINED")
    BY <2>2 DEF States, Severity
  <2>3. CASE ~Shown("RUNAWAY") /\ ~Shown("PROVIDER_CONSTRAINED") /\ Shown("QUALITY_DEGRADED")
    BY <2>3 DEF States, Severity
  <2>4. CASE /\ ~Shown("RUNAWAY") /\ ~Shown("PROVIDER_CONSTRAINED")
             /\ ~Shown("QUALITY_DEGRADED") /\ Shown("COST_PRESSURE")
    BY <2>4 DEF States, Severity
  <2>5. CASE /\ ~Shown("RUNAWAY") /\ ~Shown("PROVIDER_CONSTRAINED")
             /\ ~Shown("QUALITY_DEGRADED") /\ ~Shown("COST_PRESSURE")
    <3>1. Shown("NORMAL")
      BY <1>1, <2>5 DEF States
    <3> QED
      BY <2>5, <3>1 DEF States, Severity
  <2> QED
    BY <2>1, <2>2, <2>3, <2>4, <2>5
<1>3. Canonical(R) = CHOOSE s \in States : Top(s)
  BY DEF Canonical
<1>4. Canonical(R) \in States /\ Top(Canonical(R))
  <2> HIDE DEF Top
  <2> QED
    BY <1>2, <1>3
<1> QED
  BY <1>4

\* A bundle always gives some reason.
LEMMA TriggeredReasons ==
    ASSUME NEW b
    PROVE  Triggered(b) # {} /\ Triggered(b) \subseteq Reasons
<1> DEFINE evidence == Evidence(b, limits[PolicyOr(b.policy)])
<1>1. DOMAIN evidence \subseteq Reasons
  BY DEF Evidence, Reasons, States, ReasonsOf
<1>2. OutagesSeen(b) \subseteq Reasons
  BY DEF OutagesSeen, Reasons, States, ReasonsOf
<1> HIDE DEF evidence
<1> QED
  BY <1>1, <1>2, ReasonsPartition DEF Triggered, evidence

\* A snapshot is that of the most severe of the reasons it was derived from.
LEMMA SnapshotOf ==
    ASSUME TypeOK, NEW b
    PROVE  /\ Snapshot(b) \in Snapshots
           /\ Snapshot(b).state = Canonical(Triggered(b))
           /\ Snapshot(b).reasons \subseteq Triggered(b)
           /\ Snapshot(b).reasons \cap ReasonsOf[Snapshot(b).state] # {}
<1>1. Canonical(Triggered(b)) \in States
  BY TriggeredReasons, CanonicalIsMostSevere
<1>2. ReasonsOf[Canonical(Triggered(b))] \cap Triggered(b) # {}
  BY TriggeredReasons, CanonicalIsMostSevere
<1>3. Triggered(b) \subseteq Reasons
  BY TriggeredReasons
<1> HIDE DEF Reasons
<1> QED
  BY <1>1, <1>2, <1>3 DEF Snapshot, Snapshots, TypeOK, IsTransition

\* The action decided on is one of the governor's.
LEMMA DecidedIsAction ==
    ASSUME NEW p \in Policies \cup {None}, NEW snap \in Snapshots
    PROVE  Decided(p, snap) \in GovernorActions
<1>1. actions[PolicyOr(p)] \in [Bindings -> GovernorActions]
  BY GovernanceAssumption DEF PolicyOr
<1>2. snap.state # "NORMAL" => Binding(snap.state, snap.reasons) \in Bindings
  <2>1. snap.state \in States
    BY DEF Snapshots
  <2> QED
    BY <2>1 DEF States, Binding, Bindings
<1>3. "CONTINUE" \in GovernorActions
  BY DEF GovernorActions
<1> QED
  BY <1>1, <1>2, <1>3 DEF Decided

----------------------------------------------------------------------------
(* Type correctness.                                                       *)

\* A call that has derived holds its snapshot, one that has decided its action.
WorkInv ==
    \A c \in Controllers :
        /\ Derived(c) => work[c].snap \in Snapshots
        /\ at[c] \in {"dispatch", "complete"} => work[c].action \in GovernorActions

TypeInv == TypeOK /\ WorkInv

\* What an observer of calls or requests shows stays well-formed.
LEMMA ObservedActivity ==
    ASSUME NEW s \in Activity
    PROVE  Observed(s) \subseteq Activity
<1>1. Called(s) \in Activity
  BY DEF Called, Activity
<1>2. ASSUME NEW t \in Activity, NEW o \in Outcomes, t.successful + t.failed < t.total
      PROVE  Ended(t, o) \in Activity
  <2>1. CASE o = "successful"
    BY <1>2, <2>1 DEF Ended, Activity
  <2>2. CASE o = "failed"
    BY <1>2, <2>2 DEF Ended, Activity
  <2> QED
    BY <2>1, <2>2 DEF Outcomes
<1>3. Called(s).successful + Called(s).failed < Called(s).total
  BY DEF Called, Activity
<1>4. ASSUME NEW o \in Outcomes, NEW p \in Outcomes, s[o] > 0
      PROVE  Revised(s, o, p) \in Activity
  <2>1. CASE o = "successful" /\ p = "successful"
    BY <1>4, <2>1 DEF Revised, Activity
  <2>2. CASE o = "successful" /\ p = "failed"
    BY <1>4, <2>2 DEF Revised, Activity
  <2>3. CASE o = "failed" /\ p = "successful"
    BY <1>4, <2>3 DEF Revised, Activity
  <2>4. CASE o = "failed" /\ p = "failed"
    BY <1>4, <2>4 DEF Revised, Activity
  <2> QED
    BY <2>1, <2>2, <2>3, <2>4 DEF Outcomes
<1> QED
  BY <1>1, <1>2, <1>3, <1>4 DEF Observed

\* The empty bundle and the empty work have their types.
LEMMA EmptyTypes ==
    /\ Unread \in Summaries /\ NoWork \in Works /\ NoActivity \in Activity
    /\ EmptyBundle \in Bundles
BY DEF Unread, Summaries, NoWork, Works, NoActivity, Activity, EmptyBundle, Bundles

LEMMA TypeInit == Init => TypeInv
BY EmptyTypes DEF Init, TypeInv, TypeOK, WorkInv, Derived, Stages, Counts

\* The health summary keeps its type under every event.
LEMMA HealthTypes ==
    ASSUME TypeOK
    PROVE  /\ Health \in HealthSummary
           /\ \A k \in Categories : [Health EXCEPT !.errors = @ \cup {k}] \in HealthSummary
           /\ \A k \in Categories, n \in Latencies : Failed(Health, k, n) \in HealthSummary
           /\ \A n \in Latencies \cup {None} : Completed(Health, n) \in HealthSummary
<1> DEFINE h == Health
<1>1. h \in HealthSummary
  BY DEF Health, HealthSummary, TypeOK, Summaries
<1> HIDE DEF h
<1>2. \A k \in Categories : [h EXCEPT !.errors = @ \cup {k}] \in HealthSummary
  BY <1>1 DEF HealthSummary
<1>3. \A n \in Latencies \cup {None} : Timed(h, n) \in HealthSummary
  BY <1>1 DEF Timed, HealthSummary
<1>4. \A t \in HealthSummary :
         /\ [t EXCEPT !.failed = FALSE] \in HealthSummary
         /\ \A k \in Categories :
               [t EXCEPT !.failed = TRUE, !.errors = @ \cup {k}] \in HealthSummary
  BY DEF HealthSummary
<1>5. \A k \in Categories, n \in Latencies : Failed(h, k, n) \in HealthSummary
  BY <1>3, <1>4 DEF Failed
<1>6. \A n \in Latencies \cup {None} : Completed(h, n) \in HealthSummary
  BY <1>3, <1>4 DEF Completed
<1> QED
  BY <1>1, <1>2, <1>5, <1>6 DEF h

\* Counting a change keeps the counters' type.
LEMMA ChangeType ==
    ASSUME TypeOK, Change
    PROVE  count' \in Counts
<1>1. count \in Counts
  BY DEF TypeOK
<1>2. count' = [count EXCEPT !.changes = @ + 1]
  BY DEF Change
<1>3. count.changes + 1 \in Nat
  BY <1>1 DEF Counts
<1> QED
  BY <1>1, <1>2, <1>3 DEF Counts

\* The observers and the policy manager.
LEMMA TypeWorld ==
    ASSUME TypeInv, World
    PROVE  TypeInv'
<1> USE DEF TypeInv, engine, governor, world
<1>1. ASSUME NEW source \in {"tools", "web"}, ObserveActivity(source) PROVE TypeInv'
  <2>1. PICK s \in Activity : summaries' = [summaries EXCEPT ![source] = s]
    <3>1. (IF summaries[source] = None THEN NoActivity ELSE summaries[source]) \in Activity
      BY EmptyTypes DEF TypeOK, Summaries
    <3> QED
      BY <1>1, <3>1, ObservedActivity DEF ObserveActivity
  <2>2. summaries' \in Summaries
    BY <2>1 DEF TypeOK, Summaries
  <2>3. count' \in Counts
    BY <1>1, ChangeType DEF ObserveActivity
  <2> QED
    BY <1>1, <2>2, <2>3 DEF ObserveActivity, TypeOK, WorkInv, Derived
<1>2. ASSUME NEW source \in {"tokens", "cost"}, NEW amounts \in SUBSET Nat,
             ObserveAmount(source, amounts)
      PROVE  TypeInv'
  <2>1. summaries' \in Summaries
    BY <1>2 DEF ObserveAmount, TypeOK, Summaries
  <2>2. count' \in Counts
    BY <1>2, ChangeType DEF ObserveAmount
  <2> QED
    BY <1>2, <2>1, <2>2 DEF ObserveAmount, TypeOK, WorkInv, Derived
<1>3. CASE ObserveHealth
  <2>1. PICK h \in HealthSummary : summaries' = [summaries EXCEPT !.health = h]
    BY <1>3, HealthTypes DEF ObserveHealth, HealthAfter
  <2>2. summaries' \in Summaries
    BY <2>1 DEF TypeOK, Summaries
  <2>3. count' \in Counts
    BY <1>3, ChangeType DEF ObserveHealth
  <2> QED
    BY <1>3, <2>2, <2>3 DEF ObserveHealth, TypeOK, WorkInv, Derived
<1>4. CASE ChangePolicy
  BY <1>4, ChangeType DEF ChangePolicy, TypeOK, WorkInv, Derived
<1>5. CASE ClearEngine
  BY <1>5, ChangeType DEF ClearEngine, TypeOK, WorkInv, Derived
<1>6. CASE ClearGovernor
  BY <1>6, ChangeType DEF ClearGovernor, TypeOK, WorkInv, Derived
<1> QED
  BY <1>1, <1>2, <1>3, <1>4, <1>5, <1>6, GovernanceAssumption DEF World

\* A step of a call.
LEMMA TypeCall ==
    ASSUME TypeInv, NEW c \in Controllers, Call(c)
    PROVE  TypeInv'
<1> USE DEF TypeInv, engine, governor, world, Go
<1>1. CASE Begin(c)
  <2>1. PICK g \in Goals : work' = [work EXCEPT ![c] =
            [NoWork EXCEPT !.goal = g,
                           !.policy = IF g = "derive_state" THEN None ELSE active]]
    BY <1>1 DEF Begin
  <2>2. work' \in [Controllers -> Works]
    BY <2>1, EmptyTypes DEF TypeOK, Works
  <2>3. count' \in Counts
    BY <1>1 DEF Begin, TypeOK, Counts
  <2>4. /\ at' \in [Controllers -> Stages] /\ began' \in [Controllers -> Summaries]
        /\ at'[c] = "tokens"
    BY <1>1 DEF Begin, TypeOK, Stages, Sources
  <2>5. \A d \in Controllers \ {c} : at'[d] = at[d] /\ work'[d] = work[d]
    BY <1>1, <2>1 DEF Begin, TypeOK
  <2> QED
    BY <1>1, <2>2, <2>3, <2>4, <2>5 DEF Begin, TypeOK, WorkInv, Derived
<1>2. CASE ReadSummary(c)
  <2>1. work' = [work EXCEPT ![c].bundle[at[c]] = summaries[at[c]]] /\ at[c] \in Sources
    BY <1>2 DEF ReadSummary
  <2>2. work[c] \in Works /\ summaries \in Summaries
    BY DEF TypeOK
  <2>3. [work[c] EXCEPT !.bundle[at[c]] = summaries[at[c]]] \in Works
    <3>1. CASE at[c] = "tokens"
      BY <2>2, <3>1 DEF Works, Bundles, Summaries
    <3>2. CASE at[c] = "cost"
      BY <2>2, <3>2 DEF Works, Bundles, Summaries
    <3>3. CASE at[c] = "health"
      BY <2>2, <3>3 DEF Works, Bundles, Summaries
    <3>4. CASE at[c] = "tools"
      BY <2>2, <3>4 DEF Works, Bundles, Summaries
    <3>5. CASE at[c] = "web"
      BY <2>2, <3>5 DEF Works, Bundles, Summaries
    <3> QED
      BY <2>1, <3>1, <3>2, <3>3, <3>4, <3>5 DEF Sources
  <2>4. work' \in [Controllers -> Works]
    BY <2>1, <2>3 DEF TypeOK
  <2>5. Following[at[c]] \in Sources \cup {"policy"}
    BY <2>1 DEF Sources, Following
  <2>6. at' \in [Controllers -> Stages] /\ at'[c] \in Sources \cup {"policy"}
    BY <1>2, <2>5 DEF ReadSummary, TypeOK, Stages
  <2>7. \A d \in Controllers \ {c} : at'[d] = at[d] /\ work'[d] = work[d]
    BY <1>2, <2>1 DEF ReadSummary, TypeOK
  <2> QED
    BY <1>2, <2>4, <2>6, <2>7 DEF ReadSummary, TypeOK, WorkInv, Derived, Sources
<1>3. CASE ResolvePolicy(c)
  <2>1. work' \in [Controllers -> Works]
    <3> DEFINE p == IF work[c].policy = None THEN active ELSE work[c].policy
    <3>1. p \in Policies \cup {None}
      BY DEF TypeOK, Works
    <3>2. work' = [work EXCEPT ![c].bundle.policy = p]
      BY <1>3 DEF ResolvePolicy
    <3> HIDE DEF p
    <3>3. [work[c].bundle EXCEPT !.policy = p] \in Bundles /\ work[c] \in Works
      BY <3>1, ZenonT(40) DEF TypeOK, Works, Bundles
    <3>4. [work[c] EXCEPT !.bundle = [work[c].bundle EXCEPT !.policy = p]] \in Works
      BY <3>3 DEF Works
    <3> QED
      BY <3>2, <3>4 DEF TypeOK
  <2>2. \A d \in Controllers \ {c} : at'[d] = at[d] /\ work'[d] = work[d]
    BY <1>3 DEF ResolvePolicy, TypeOK
  <2>3. at' \in [Controllers -> Stages] /\ at'[c] = "derive"
    BY <1>3 DEF ResolvePolicy, TypeOK, Stages
  <2> QED
    BY <1>3, <2>1, <2>2, <2>3 DEF ResolvePolicy, TypeOK, WorkInv, Derived
<1>4. CASE Derive(c)
  <2> DEFINE snap == Snapshot(work[c].bundle)
  <2>1. snap \in Snapshots
    BY SnapshotOf
  <2>2. /\ record' = snap /\ history' = Recorded(snap)
        /\ work' = [work EXCEPT ![c].snap = snap]
    BY <1>4 DEF Derive
  <2> HIDE DEF snap
  <2>3. history' \in Seq(Entries)
    <3>1. [state |-> snap.state, previous |-> snap.previous] \in Entries
      BY <2>1 DEF Entries, Snapshots
    <3> QED
      BY <2>2, <3>1 DEF Recorded, TypeOK
  <2>4. work' \in [Controllers -> Works] /\ work'[c].snap \in Snapshots
    BY <2>1, <2>2 DEF TypeOK, Works
  <2>5. \A d \in Controllers \ {c} : at'[d] = at[d] /\ work'[d] = work[d]
    BY <1>4, <2>2 DEF Derive, TypeOK
  <2>6. at' \in [Controllers -> Stages] /\ at'[c] \in {"return", "evaluate"}
    BY <1>4 DEF Derive, TypeOK, Stages
  <2> QED
    BY <1>4, <2>1, <2>2, <2>3, <2>4, <2>5, <2>6 DEF Derive, TypeOK, WorkInv, Derived
<1>5. CASE Evaluate(c)
  <2> DEFINE action == Decided(work[c].policy, work[c].snap)
  <2>1. work[c].snap \in Snapshots /\ work[c].policy \in Policies \cup {None}
    BY <1>5 DEF Evaluate, WorkInv, Derived, TypeOK, Works
  <2>2. action \in GovernorActions
    BY <2>1, DecidedIsAction
  <2>3. /\ decisions' = Append(decisions, [number |-> eval_count + 1,
                                 state |-> work[c].snap.state, action |-> action])
        /\ work' = [work EXCEPT ![c].action = action]
    BY <1>5 DEF Evaluate, Evaluated
  <2> HIDE DEF action
  <2>4. decisions' \in Seq(Decisions)
    BY <2>1, <2>2, <2>3 DEF TypeOK, Decisions, Snapshots
  <2>5. work' \in [Controllers -> Works] /\ work'[c].action \in GovernorActions
        /\ work'[c].snap \in Snapshots
    BY <2>1, <2>2, <2>3 DEF TypeOK, Works
  <2>6. \A d \in Controllers \ {c} : at'[d] = at[d] /\ work'[d] = work[d]
    BY <1>5, <2>3 DEF Evaluate, TypeOK
  <2>7. at' \in [Controllers -> Stages]
    BY <1>5 DEF Evaluate, TypeOK, Stages
  <2> QED
    BY <1>5, <2>4, <2>5, <2>6, <2>7 DEF Evaluate, TypeOK, WorkInv, Derived
<1>6. CASE Dispatch(c)
  BY <1>6 DEF Dispatch, TypeOK, WorkInv, Derived, Stages
<1>7. CASE Complete(c)
  <2>1. summaries' \in Summaries
    BY <1>7, HealthTypes DEF Complete, TypeOK, Summaries
  <2> QED
    BY <1>7, <2>1 DEF Complete, TypeOK, WorkInv, Derived, Stages
<1>8. CASE Return(c)
  <2>1. \A d \in Controllers \ {c} : at'[d] = at[d] /\ work'[d] = work[d]
    BY <1>8 DEF Return, TypeOK
  <2> QED
    BY <1>8, <2>1, EmptyTypes DEF Return, TypeOK, WorkInv, Derived, Stages
<1> QED
  BY <1>1, <1>2, <1>3, <1>4, <1>5, <1>6, <1>7, <1>8 DEF Call

LEMMA TypeStep == TypeInv /\ [Next]_vars => TypeInv'
<1>1. ASSUME TypeInv, UNCHANGED vars PROVE TypeInv'
  BY <1>1 DEF TypeInv, vars, TypeOK, WorkInv, Derived
<1> QED
  BY <1>1, TypeWorld, TypeCall DEF Next

\* TypeOK for every number of controllers, every policy and every bound.
THEOREM TypeCorrect == Spec => []TypeOK
<1>1. TypeInv => TypeOK
  BY DEF TypeInv
<1> QED
  BY <1>1, TypeInit, TypeStep, PTL DEF Spec

----------------------------------------------------------------------------
(* The histories.                                                          *)

\* Appending what a derivation records keeps the chain.
LEMMA EngineTrailStep ==
    ASSUME TypeInv, EngineTrail, NEW c \in Controllers, Derive(c)
    PROVE  EngineTrail'
<1> DEFINE snap == Snapshot(work[c].bundle)
           entry == [state |-> snap.state, previous |-> snap.previous]
<1>1. /\ snap \in Snapshots
      /\ snap.previous = IF record = None THEN None ELSE record.state
      /\ snap.transitions = IF record = None THEN 0
                            ELSE IF IsTransition(snap.state) THEN record.transitions + 1
                            ELSE record.transitions
      /\ snap.derivations = IF record = None THEN 1 ELSE record.derivations + 1
  BY SnapshotOf DEF TypeInv, Snapshot
<1>2. record' = snap /\ history' = Recorded(snap)
  BY DEF Derive
<1>3. snap # None
  BY <1>1, NoneIsNoRecord DEF Snapshots
<1>4. entry \in Entries /\ history \in Seq(Entries)
  BY <1>1 DEF Entries, Snapshots, TypeInv, TypeOK
<1>5. record # None => record \in Snapshots
  BY DEF TypeInv, TypeOK
<1> HIDE DEF snap
<1>6. CASE record = None
  <2>1. history = <<>> /\ history' = <<entry>>
    BY <1>2, <1>4, <1>6 DEF EngineTrail, Recorded
  <2> QED
    BY <1>1, <1>2, <1>3, <1>6, <2>1 DEF EngineTrail, Snapshots
<1>7. CASE record # None /\ record.state # snap.state
  <2>1. history # <<>> /\ history' = Append(history, entry)
    BY <1>2, <1>7 DEF EngineTrail, Recorded, IsTransition
  <2>2. Len(history') = Len(history) + 1 /\ history'[Len(history')] = entry
    BY <1>4, <2>1
  <2>3. \A i \in 1 .. Len(history) : history'[i] = history[i]
    BY <1>4, <2>1
  <2>4. Len(history) \in Nat /\ Len(history) >= 1
    BY <1>4, <2>1
  <2>5. snap.transitions = Len(history) /\ snap.derivations >= Len(history')
    BY <1>1, <1>5, <1>7, <2>2, <2>4 DEF EngineTrail, IsTransition, Snapshots
  <2>6. \A i \in 1 .. Len(history') - 1 :
            /\ history'[i + 1].previous = history'[i].state
            /\ history'[i + 1].state # history'[i].state
    <3> SUFFICES ASSUME NEW i \in 1 .. Len(history)
                 PROVE  /\ history'[i + 1].previous = history'[i].state
                        /\ history'[i + 1].state # history'[i].state
      BY <2>2, <2>4
    <3>1. CASE i = Len(history)
      BY <1>1, <1>7, <2>2, <2>3, <2>4, <3>1 DEF EngineTrail
    <3>2. CASE i # Len(history)
      BY <2>3, <2>4, <3>2 DEF EngineTrail
    <3> QED
      BY <3>1, <3>2
  <2>7. history'[1].previous = None /\ history' # <<>>
    BY <1>7, <2>2, <2>3, <2>4 DEF EngineTrail
  <2> QED
    BY <1>2, <1>3, <2>2, <2>5, <2>6, <2>7 DEF EngineTrail
<1>8. CASE record # None /\ record.state = snap.state
  <2>1. history # <<>> /\ history' = history
    BY <1>2, <1>8 DEF EngineTrail, Recorded, IsTransition
  <2>2. /\ snap.transitions = record.transitions
        /\ snap.derivations = record.derivations + 1
    BY <1>1, <1>8 DEF IsTransition
  <2> QED
    BY <1>2, <1>3, <1>4, <1>5, <1>8, <2>1, <2>2 DEF EngineTrail, Snapshots
<1> QED
  BY <1>6, <1>7, <1>8

LEMMA GovernorTrailStep ==
    ASSUME TypeInv, GovernorTrail, NEW c \in Controllers, Evaluate(c)
    PROVE  GovernorTrail'
<1>1. PICK d : decisions' = Append(decisions, d) /\ d.number = eval_count + 1
  <2>1. decisions' = Append(decisions,
            [number |-> eval_count + 1, state |-> Evaluated(c).state,
             action |-> Decided(work[c].policy, Evaluated(c))])
    BY DEF Evaluate
  <2> QED
    BY <2>1
<1>2. decisions \in Seq(Decisions)
  BY DEF TypeInv, TypeOK
<1>3. /\ Len(decisions') = Len(decisions) + 1 /\ decisions'[Len(decisions')] = d
      /\ \A i \in 1 .. Len(decisions) : decisions'[i] = decisions[i]
  BY <1>1, <1>2
<1>4. eval_count' = eval_count + 1
  BY DEF Evaluate
<1> QED
  BY <1>1, <1>2, <1>3, <1>4 DEF GovernorTrail

\* The two histories are whole whatever the order of calls and clears.
THEOREM TrailsStayWhole == Spec => []TrailsAreWhole
<1>1. Init => TrailsAreWhole
  BY DEF Init, TrailsAreWhole, EngineTrail, GovernorTrail
<1>2. TypeInv /\ TrailsAreWhole /\ [Next]_vars => TrailsAreWhole'
  <2> SUFFICES ASSUME TypeInv, TrailsAreWhole, [Next]_vars PROVE TrailsAreWhole'
    OBVIOUS
  <2> USE DEF engine, governor, TrailsAreWhole
  <2>1. CASE World
    <3>1. CASE ClearEngine
      BY <3>1 DEF ClearEngine, EngineTrail, GovernorTrail
    <3>2. CASE ClearGovernor
      BY <3>2 DEF ClearGovernor, EngineTrail, GovernorTrail
    <3>3. CASE UNCHANGED <<engine, governor>>
      BY <3>3 DEF EngineTrail, GovernorTrail
    <3> QED
      BY <2>1, <3>1, <3>2, <3>3
         DEF World, ObserveActivity, ObserveAmount, ObserveHealth, ChangePolicy
  <2>2. ASSUME NEW c \in Controllers, Call(c) PROVE TrailsAreWhole'
    <3>1. CASE Derive(c)
      <4>1. EngineTrail'
        BY <3>1, EngineTrailStep
      <4> QED
        BY <3>1, <4>1 DEF Derive, GovernorTrail
    <3>2. CASE Evaluate(c)
      <4>1. GovernorTrail'
        BY <3>2, GovernorTrailStep
      <4> QED
        BY <3>2, <4>1 DEF Evaluate, EngineTrail
    <3>3. CASE UNCHANGED <<engine, governor>>
      BY <3>3 DEF EngineTrail, GovernorTrail
    <3> QED
      BY <2>2, <3>1, <3>2, <3>3
         DEF Call, Begin, ReadSummary, ResolvePolicy, Dispatch, Complete, Return
  <2>3. CASE UNCHANGED vars
    BY <2>3 DEF vars, EngineTrail, GovernorTrail
  <2> QED
    BY <2>1, <2>2, <2>3 DEF Next
<1> QED
  BY <1>1, <1>2, TypeInit, TypeStep, PTL DEF Spec

----------------------------------------------------------------------------
(* What a call has seen.                                                   *)

\* The observers only ever add: t shows all the calls, requests and errors of s.
ActivityBelow(s, t) == s # None => t # None /\ s.total <= t.total
HealthBelow(s, t) == s # None => t # None /\ s.errors \subseteq t.errors
Below(s, t) ==
    /\ HealthBelow(s.health, t.health)
    /\ ActivityBelow(s.tools, t.tools)
    /\ ActivityBelow(s.web, t.web)

\* What lasting evidence is about: the number of calls, that of requests, the errors.
LEMMA LastingEvidence ==
    ASSUME NEW b, NEW l, l = limits[PolicyOr(b.policy)]
    PROVE  /\ "MAX_TOOL_CALLS_EXCEEDED" \in Triggered(b)
                 <=> b.tools # None /\ Reached(b.tools.total, l.max_tool_calls)
           /\ "MAX_WEB_REQUESTS_EXCEEDED" \in Triggered(b)
                 <=> b.web # None /\ Reached(b.web.total, l.max_web_requests)
           /\ \A r \in Outages :
                 r \in Triggered(b) <=> b.health # None /\ r \in b.health.errors
<1> DEFINE e == Evidence(b, l)
<1>1. /\ "MAX_TOOL_CALLS_EXCEEDED" \in DOMAIN e /\ "MAX_WEB_REQUESTS_EXCEEDED" \in DOMAIN e
      /\ \A r \in Outages : r \notin DOMAIN e
  BY DEF Evidence, Outages
<1>2. e["MAX_TOOL_CALLS_EXCEEDED"] <=> b.tools # None /\ Reached(b.tools.total, l.max_tool_calls)
  BY DEF Evidence
<1>3. e["MAX_WEB_REQUESTS_EXCEEDED"] <=> b.web # None /\ Reached(b.web.total, l.max_web_requests)
  BY DEF Evidence
<1>4. \A r \in Outages : r \in OutagesSeen(b) <=> b.health # None /\ r \in b.health.errors
  BY DEF OutagesSeen
<1>5. /\ "MAX_TOOL_CALLS_EXCEEDED" \notin OutagesSeen(b)
      /\ "MAX_WEB_REQUESTS_EXCEEDED" \notin OutagesSeen(b)
  BY DEF OutagesSeen, Outages
<1>6. "NORMAL_EXECUTION" \notin Outages
  BY DEF Outages
<1>7. Triggered(b) = LET found == {r \in DOMAIN e : e[r]} \cup OutagesSeen(b)
                     IN IF found = {} THEN {"NORMAL_EXECUTION"} ELSE found
  BY DEF Triggered
<1> HIDE DEF e
<1> QED
  BY <1>1, <1>2, <1>3, <1>4, <1>5, <1>6, <1>7

\* More of the same keeps the lasting evidence there was.
LEMMA LastingGrows ==
    ASSUME NEW p \in Policies \cup {None},
           NEW b, b.policy = p, b.tools \in Activity \cup {None},
           b.web \in Activity \cup {None},
           NEW d, d.policy = p, d.tools \in Activity \cup {None},
           d.web \in Activity \cup {None},
           Below(b, d),
           NEW r \in Lasting, r \in Triggered(b)
    PROVE  r \in Triggered(d)
<1> DEFINE l == limits[PolicyOr(p)]
<1>1. l \in [Limits -> Nat \cup {None}]
  BY GovernanceAssumption DEF PolicyOr
<1>2. l.max_tool_calls \in Nat \cup {None} /\ l.max_web_requests \in Nat \cup {None}
  BY <1>1 DEF Limits
<1>3. b.tools # None /\ Reached(b.tools.total, l.max_tool_calls)
        => d.tools # None /\ Reached(d.tools.total, l.max_tool_calls)
  <2> HIDE DEF l
  <2> QED
    BY <1>2, GovernanceAssumption DEF Below, ActivityBelow, Reached, Activity
<1>4. b.web # None /\ Reached(b.web.total, l.max_web_requests)
        => d.web # None /\ Reached(d.web.total, l.max_web_requests)
  <2> HIDE DEF l
  <2> QED
    BY <1>2, GovernanceAssumption DEF Below, ActivityBelow, Reached, Activity
<1>5. b.health # None /\ r \in b.health.errors => d.health # None /\ r \in d.health.errors
  BY DEF Below, HealthBelow
<1> HIDE DEF Below
<1>6. CASE r = "MAX_TOOL_CALLS_EXCEEDED"
  BY <1>3, <1>6, LastingEvidence
<1>7. CASE r = "MAX_WEB_REQUESTS_EXCEEDED"
  BY <1>4, <1>7, LastingEvidence
<1>8. CASE r \in Outages
  BY <1>5, <1>8, LastingEvidence
<1> QED
  BY <1>6, <1>7, <1>8 DEF Lasting

\* An activity observer never takes a record back.
LEMMA ObservedGrows ==
    ASSUME NEW s \in Activity
    PROVE  \A t \in Observed(s) : t.total \in Nat /\ s.total <= t.total
<1>1. ASSUME NEW t \in Activity, NEW o \in Outcomes
      PROVE  Ended(t, o).total = t.total
  BY DEF Ended, Activity, Outcomes
<1>2. Called(s) \in Activity /\ Called(s).total = s.total + 1
  BY DEF Called, Activity
<1>3. ASSUME NEW o \in Outcomes, NEW p \in Outcomes
      PROVE  Revised(s, o, p).total = s.total
  BY DEF Revised, Activity, Outcomes
<1>4. s.total \in Nat
  BY DEF Activity
<1> QED
  BY <1>1, <1>2, <1>3, <1>4 DEF Observed

\* The health engine never takes an error back.
LEMMA HealthGrows ==
    ASSUME TypeOK
    PROVE  /\ \A h \in HealthAfter : h \in HealthSummary /\ Health.errors \subseteq h.errors
           /\ \A n \in Latencies \cup {None} :
                 Health.errors \subseteq Completed(Health, n).errors
<1>1. Health \in HealthSummary
  BY HealthTypes
<1>2. ASSUME NEW n PROVE Timed(Health, n).errors = Health.errors
  BY <1>1 DEF Timed, HealthSummary
<1>3. ASSUME NEW n \in Latencies \cup {None} PROVE Timed(Health, n) \in HealthSummary
  BY <1>1, <1>3 DEF Timed, HealthSummary
<1>4. ASSUME NEW k \in Categories, NEW n \in Latencies
      PROVE  Health.errors \subseteq Failed(Health, k, n).errors
  BY <1>2, <1>3 DEF Failed, HealthSummary
<1>5. ASSUME NEW n \in Latencies \cup {None}
      PROVE  Health.errors \subseteq Completed(Health, n).errors
  BY <1>2, <1>3 DEF Completed, HealthSummary
<1>6. ASSUME NEW k \in Categories
      PROVE  Health.errors \subseteq [Health EXCEPT !.errors = @ \cup {k}].errors
  BY <1>1 DEF HealthSummary
<1> DEFINE Fine(h) == h \in HealthSummary /\ Health.errors \subseteq h.errors
<1>7. \A k \in Categories : Fine([Health EXCEPT !.errors = @ \cup {k}])
  BY <1>6, HealthTypes
<1>8. \A k \in Categories, n \in Latencies : Fine(Failed(Health, k, n))
  BY <1>4, HealthTypes
<1>9. \A n \in Latencies : Fine(Completed(Health, n))
  BY <1>5, HealthTypes
<1>10. \A h \in HealthAfter : Fine(h)
  <2> HIDE DEF Fine
  <2> QED
    BY <1>7, <1>8, <1>9 DEF HealthAfter
<1> QED
  BY <1>5, <1>10

\* No step takes anything back from the summaries.
LEMMA SummariesGrow ==
    ASSUME TypeInv, [Next]_vars
    PROVE  Below(summaries, summaries')
<1> USE DEF TypeInv, engine, governor, world
<1>1. /\ summaries.tools \in Activity \cup {None} /\ summaries.web \in Activity \cup {None}
      /\ summaries.health \in HealthSummary \cup {None}
  BY DEF TypeOK, Summaries
<1>2. CASE summaries' = summaries
  BY <1>1, <1>2 DEF Below, ActivityBelow, HealthBelow, Activity
<1>3. ASSUME NEW source \in {"tools", "web"}, ObserveActivity(source)
      PROVE  Below(summaries, summaries')
  <2> DEFINE old == IF summaries[source] = None THEN NoActivity ELSE summaries[source]
  <2>1. old \in Activity
    BY <1>1, EmptyTypes
  <2>2. PICK s \in Observed(old) : summaries' = [summaries EXCEPT ![source] = s]
    BY <1>3 DEF ObserveActivity
  <2>3. s # None /\ old.total <= s.total
    BY <2>1, ObservedActivity, ObservedGrows, NoneIsNoRecord
  <2>4. summaries \in Summaries
    BY DEF TypeOK
  <2> QED
    BY <1>1, <2>2, <2>3, <2>4 DEF Below, ActivityBelow, HealthBelow, Activity, Summaries
<1>4. ASSUME NEW source \in {"tokens", "cost"}, NEW amounts, ObserveAmount(source, amounts)
      PROVE  Below(summaries, summaries')
  BY <1>1, <1>4 DEF ObserveAmount, Below, ActivityBelow, HealthBelow, Activity, TypeOK, Summaries
<1>5. ASSUME NEW h \in HealthSummary, Health.errors \subseteq h.errors,
             summaries' = [summaries EXCEPT !.health = h]
      PROVE  Below(summaries, summaries')
  <2>1. h # None
    BY NoneIsNoRecord
  <2>2. summaries \in Summaries
    BY DEF TypeOK
  <2> QED
    BY <1>1, <1>5, <2>1, <2>2
       DEF Below, ActivityBelow, HealthBelow, Activity, Summaries, Health
<1>6. CASE ObserveHealth
  BY <1>5, <1>6, HealthGrows DEF ObserveHealth
<1>7. ASSUME NEW c, Complete(c) PROVE Below(summaries, summaries')
  <2>1. Completed(Health, None) \in HealthSummary
    BY HealthTypes
  <2>2. Health.errors \subseteq Completed(Health, None).errors
    BY HealthGrows
  <2> QED
    BY <1>5, <1>7, <2>1, <2>2 DEF Complete
<1>8. CASE World
  BY <1>2, <1>3, <1>4, <1>6, <1>8 DEF World, ChangePolicy, ClearEngine, ClearGovernor
<1>9. ASSUME NEW c \in Controllers, Call(c) PROVE Below(summaries, summaries')
  BY <1>2, <1>7, <1>9
     DEF Call, Begin, ReadSummary, ResolvePolicy, Derive, Evaluate, Dispatch, Return
<1> QED
  BY <1>2, <1>8, <1>9 DEF Next, vars

\* Growing is transitive.
LEMMA BelowTransitive ==
    ASSUME NEW s, NEW t, NEW u, Below(s, t), Below(t, u),
           s.tools \in Activity \cup {None}, s.web \in Activity \cup {None},
           t.tools \in Activity \cup {None}, t.web \in Activity \cup {None},
           u.tools \in Activity \cup {None}, u.web \in Activity \cup {None}
    PROVE  Below(s, u)
BY DEF Below, ActivityBelow, HealthBelow, Activity

----------------------------------------------------------------------------
(* The invariant of a call.                                                *)

\* The stages at which the summary of a source has been read.
WebRead == {"policy", "derive"} \cup {"evaluate", "dispatch", "complete", "return"}
ToolsRead == WebRead \cup {"web"}
HealthRead == ToolsRead \cup {"tools"}

\* What was there when the call began is still there, what it holds is there,
\* and what it has read shows at least what was there when it began.
Seen(c) ==
    /\ Below(began[c], summaries)
    /\ Below(work[c].bundle, summaries)
    /\ at[c] \in HealthRead => HealthBelow(began[c].health, work[c].bundle.health)
    /\ at[c] \in ToolsRead => ActivityBelow(began[c].tools, work[c].bundle.tools)
    /\ at[c] \in WebRead => ActivityBelow(began[c].web, work[c].bundle.web)

SeenInv == \A c \in Controllers : Seen(c)

\* The snapshot a call holds is that of the bundle it holds, its decision that of
\* this snapshot and the policy it began with, if there was one.
Consistent(c) ==
    /\ Derived(c) =>
          /\ work[c].snap.state = Canonical(Triggered(work[c].bundle))
          /\ work[c].snap.reasons \subseteq Triggered(work[c].bundle)
    /\ at[c] \notin {"dispatch", "complete", "return"} => work[c].action = None
    /\ HasDecided(c) => work[c].action = Decided(work[c].policy, work[c].snap)
    /\ at[c] \in WebRead \ {"policy"} /\ work[c].policy # None =>
          work[c].bundle.policy = work[c].policy

ConsistentInv == \A c \in Controllers : Consistent(c)

LEMMA SeenInit == Init => SeenInv /\ ConsistentInv
<1> SUFFICES ASSUME Init, NEW c \in Controllers PROVE Seen(c) /\ Consistent(c)
  BY DEF SeenInv, ConsistentInv
<1>1. /\ began[c] = Unread /\ work[c] = NoWork /\ at[c] = "idle" /\ summaries = Unread
  BY DEF Init
<1> QED
  BY <1>1 DEF Seen, Below, ActivityBelow, HealthBelow, Unread, NoWork, EmptyBundle,
     WebRead, ToolsRead, HealthRead, Consistent, Derived, HasDecided

\* A step that does not read anything for c keeps what c has seen.
LEMMA SeenKept ==
    ASSUME TypeInv, TypeInv', [Next]_vars, NEW c \in Controllers, Seen(c),
           began'[c] = began[c],
           work'[c].bundle.health = work[c].bundle.health,
           work'[c].bundle.tools = work[c].bundle.tools,
           work'[c].bundle.web = work[c].bundle.web,
           at'[c] = at[c] \/ at[c] \in WebRead
    PROVE  Seen(c)'
<1>1. Below(summaries, summaries')
  BY SummariesGrow
<1>2. /\ began[c] \in Summaries /\ work[c].bundle \in Bundles
      /\ summaries \in Summaries /\ summaries' \in Summaries
  BY DEF TypeInv, TypeOK, Works
<1>3. Below(began[c], summaries')
  BY <1>1, <1>2, BelowTransitive DEF Seen, Summaries
<1>4. Below(work[c].bundle, summaries')
  BY <1>1, <1>2, BelowTransitive DEF Seen, Summaries, Bundles
<1>5. Below(began'[c], summaries') /\ Below(work'[c].bundle, summaries')
  BY <1>3, <1>4 DEF Below
<1> QED
  BY <1>5 DEF Seen, WebRead, ToolsRead, HealthRead

\* A step of the world, or of another controller, does not touch a call.
LEMMA Untouched ==
    ASSUME TypeInv, NEW c \in Controllers,
           World \/ (\E d \in Controllers \ {c} : Call(d)) \/ UNCHANGED vars
    PROVE  at'[c] = at[c] /\ work'[c] = work[c] /\ began'[c] = began[c]
<1> USE DEF TypeInv, TypeOK, Go
<1>1. CASE World
  BY <1>1 DEF World, ObserveActivity, ObserveAmount, ObserveHealth, ChangePolicy,
              ClearEngine, ClearGovernor
<1>2. ASSUME NEW d \in Controllers \ {c}, Call(d)
      PROVE  at'[c] = at[c] /\ work'[c] = work[c] /\ began'[c] = began[c]
  <2>1. CASE Begin(d)
    BY <2>1 DEF Begin
  <2>2. CASE ReadSummary(d)
    BY <2>2 DEF ReadSummary
  <2>3. CASE ResolvePolicy(d)
    BY <2>3 DEF ResolvePolicy
  <2>4. CASE Derive(d)
    BY <2>4 DEF Derive
  <2>5. CASE Evaluate(d)
    BY <2>5 DEF Evaluate
  <2>6. CASE Dispatch(d) \/ Complete(d)
    BY <2>6 DEF Dispatch, Complete
  <2>7. CASE Return(d)
    BY <2>7 DEF Return
  <2> QED
    BY <1>2, <2>1, <2>2, <2>3, <2>4, <2>5, <2>6, <2>7 DEF Call
<1>3. CASE UNCHANGED vars
  BY <1>3 DEF vars
<1> QED
  BY <1>1, <1>2, <1>3

\* Reading a summary fills in what it shows now.
LEMMA SeenRead ==
    ASSUME TypeInv, TypeInv', SeenInv, NEW c \in Controllers, ReadSummary(c)
    PROVE  Seen(c)'
<1> DEFINE b == work[c].bundle
<1>1. /\ b \in Bundles /\ summaries \in Summaries /\ began[c] \in Summaries
      /\ work[c] \in Works
  BY DEF TypeInv, TypeOK, Works
<1>2. /\ work'[c].bundle = [b EXCEPT ![at[c]] = summaries[at[c]]]
      /\ at'[c] = Following[at[c]] /\ at[c] \in Sources
      /\ summaries' = summaries /\ began' = began
  BY <1>1 DEF ReadSummary, TypeInv, TypeOK, Go, world, Works
<1>3. Seen(c)
  BY DEF SeenInv
<1>4. Below(summaries, summaries)
  BY <1>1 DEF Below, ActivityBelow, HealthBelow, Summaries, Activity
<1> USE DEF Seen, Below, Bundles, Following, WebRead, ToolsRead, HealthRead
<1>5. CASE at[c] = "tokens"
  BY <1>1, <1>2, <1>3, <1>5
<1>6. CASE at[c] = "cost"
  BY <1>1, <1>2, <1>3, <1>6
<1>7. CASE at[c] = "health"
  BY <1>1, <1>2, <1>3, <1>4, <1>7
<1>8. CASE at[c] = "tools"
  BY <1>1, <1>2, <1>3, <1>4, <1>8
<1>9. CASE at[c] = "web"
  BY <1>1, <1>2, <1>3, <1>4, <1>9
<1> QED
  BY <1>2, <1>5, <1>6, <1>7, <1>8, <1>9 DEF Sources

LEMMA SeenStep == TypeInv /\ TypeInv' /\ SeenInv /\ [Next]_vars => SeenInv'
<1> SUFFICES ASSUME TypeInv, TypeInv', SeenInv, [Next]_vars, NEW c \in Controllers
             PROVE  Seen(c)'
  BY DEF SeenInv
<1>1. Seen(c)
  BY DEF SeenInv
<1>2. CASE World \/ (\E d \in Controllers \ {c} : Call(d)) \/ UNCHANGED vars
  BY <1>1, <1>2, Untouched, SeenKept
<1>3. CASE Begin(c)
  <2>1. /\ began'[c] = summaries /\ summaries' = summaries /\ at'[c] = "tokens"
        /\ work'[c].bundle = EmptyBundle
    BY <1>3 DEF Begin, TypeInv, TypeOK, world, NoWork, Go
  <2>2. Below(summaries, summaries)
    BY DEF Below, ActivityBelow, HealthBelow, Activity, TypeInv, TypeOK, Summaries
  <2>3. Below(EmptyBundle, summaries)
    BY DEF Below, ActivityBelow, HealthBelow, EmptyBundle
  <2> QED
    BY <2>1, <2>2, <2>3 DEF Seen, WebRead, ToolsRead, HealthRead
<1>4. CASE ReadSummary(c)
  BY <1>4, SeenRead
<1>5. CASE Return(c)
  <2>1. /\ began'[c] = Unread /\ at'[c] = "idle" /\ work'[c].bundle = EmptyBundle
    BY <1>5 DEF Return, TypeInv, TypeOK, NoWork, Go
  <2> QED
    BY <2>1 DEF Seen, WebRead, ToolsRead, HealthRead, Below, ActivityBelow, HealthBelow,
                Unread, EmptyBundle
<1>6. ASSUME at[c] \in WebRead, began' = began,
             work'[c].bundle.health = work[c].bundle.health,
             work'[c].bundle.tools = work[c].bundle.tools,
             work'[c].bundle.web = work[c].bundle.web
      PROVE  Seen(c)'
  BY <1>1, <1>6, SeenKept
<1>7. work[c] \in Works /\ work[c].bundle \in Bundles
  BY DEF TypeInv, TypeOK, Works
<1>8. CASE ResolvePolicy(c)
  BY <1>6, <1>7, <1>8 DEF ResolvePolicy, WebRead, TypeInv, TypeOK, Works, Bundles
<1>9. CASE Derive(c) \/ Evaluate(c) \/ Dispatch(c) \/ Complete(c)
  BY <1>6, <1>7, <1>9, ZenonT(40)
     DEF Derive, Evaluate, Dispatch, Complete, WebRead, TypeInv, TypeOK, Works
<1> QED
  BY <1>2, <1>3, <1>4, <1>5, <1>8, <1>9 DEF Next, Call

LEMMA ConsistentStep ==
    TypeInv /\ TypeInv' /\ ConsistentInv /\ [Next]_vars => ConsistentInv'
<1> SUFFICES ASSUME TypeInv, TypeInv', ConsistentInv, [Next]_vars, NEW c \in Controllers
             PROVE  Consistent(c)'
  BY DEF ConsistentInv
<1>1. Consistent(c)
  BY DEF ConsistentInv
<1>2. work[c] \in Works /\ work[c].bundle \in Bundles
  BY DEF TypeInv, TypeOK, Works
<1> USE DEF TypeInv, TypeOK, Go
<1>3. CASE World \/ (\E d \in Controllers \ {c} : Call(d)) \/ UNCHANGED vars
  BY <1>1, <1>3, Untouched DEF Consistent, Derived, HasDecided
<1>4. CASE Begin(c)
  <2>1. at'[c] = "tokens" /\ work'[c].action = None
    BY <1>4 DEF Begin, NoWork
  <2> QED
    BY <2>1 DEF Consistent, Derived, HasDecided, WebRead
<1>5. CASE ReadSummary(c)
  <2>1. at'[c] \in Sources \cup {"policy"} /\ work'[c].action = work[c].action
    BY <1>2, <1>5 DEF ReadSummary, Works, Sources, Following
  <2>2. work[c].action = None
    BY <1>1, <1>5 DEF Consistent, ReadSummary, Sources
  <2> QED
    BY <2>1, <2>2 DEF Consistent, Derived, HasDecided, WebRead, Sources
<1>6. CASE ResolvePolicy(c)
  <2>1. /\ at[c] = "policy" /\ at'[c] = "derive" /\ work'[c].action = work[c].action
        /\ work'[c].policy = work[c].policy
        /\ work[c].policy # None => work'[c].bundle.policy = work[c].policy
    BY <1>2, <1>6 DEF ResolvePolicy, Works, Bundles
  <2> QED
    BY <1>1, <2>1 DEF Consistent, Derived, HasDecided, WebRead
<1>7. CASE Derive(c)
  <2>1. /\ at[c] = "derive" /\ at'[c] \in {"return", "evaluate"}
        /\ work'[c] = [work[c] EXCEPT !.snap = Snapshot(work[c].bundle)]
    BY <1>7 DEF Derive
  <2>2. /\ work'[c].snap = Snapshot(work[c].bundle) /\ work'[c].bundle = work[c].bundle
        /\ work'[c].policy = work[c].policy /\ work'[c].action = work[c].action
    BY <1>2, <2>1 DEF Works
  <2> QED
    BY <1>1, <2>1, <2>2, SnapshotOf DEF Consistent, Derived, HasDecided, WebRead
<1>8. CASE Evaluate(c)
  <2>1. /\ at[c] = "evaluate" /\ at'[c] \in {"return", "dispatch"}
        /\ work'[c] = [work[c] EXCEPT !.action = Decided(work[c].policy, work[c].snap)]
    BY <1>8 DEF Evaluate, Evaluated
  <2>2. /\ work'[c].action = Decided(work[c].policy, work[c].snap)
        /\ work'[c].snap = work[c].snap /\ work'[c].bundle = work[c].bundle
        /\ work'[c].policy = work[c].policy
    BY <1>2, <2>1 DEF Works
  <2> QED
    BY <1>1, <2>1, <2>2 DEF Consistent, Derived, HasDecided, WebRead
<1>9. CASE Dispatch(c) \/ Complete(c)
  <2>1. /\ at[c] \in {"dispatch", "complete"} /\ at'[c] \in {"complete", "return"}
        /\ work'[c] = work[c]
    BY <1>9 DEF Dispatch, Complete
  <2> QED
    BY <1>1, <2>1 DEF Consistent, Derived, HasDecided, WebRead
<1>10. CASE Return(c)
  <2>1. at'[c] = "idle" /\ work'[c].action = None
    BY <1>10 DEF Return, NoWork
  <2> QED
    BY <2>1 DEF Consistent, Derived, HasDecided, WebRead
<1> QED
  BY <1>3, <1>4, <1>5, <1>6, <1>7, <1>8, <1>9, <1>10 DEF Next, Call

----------------------------------------------------------------------------
(* What the controllers may rely on.                                       *)

CallInv == TypeInv /\ SeenInv /\ ConsistentInv

LEMMA CallInvariant == Spec => []CallInv
<1>1. Init => CallInv
  BY TypeInit, SeenInit DEF CallInv
<1>2. CallInv /\ [Next]_vars => CallInv'
  BY TypeStep, SeenStep, ConsistentStep DEF CallInv
<1> QED
  BY <1>1, <1>2, PTL DEF Spec

\* A lasting reason there was when a call began is among those of its bundle.
LEMMA BeganIsSeen ==
    ASSUME CallInv, NEW c \in Controllers, Derived(c),
           NEW r \in Triggered(View(began[c], work[c].bundle.policy)) \cap Lasting
    PROVE  r \in Triggered(work[c].bundle)
<1>1. at[c] \in WebRead /\ Seen(c)
  BY DEF CallInv, SeenInv, Derived, WebRead
<1>2. /\ began[c] \in Summaries /\ work[c].bundle \in Bundles
  BY DEF CallInv, TypeInv, TypeOK, Works
<1> DEFINE p == work[c].bundle.policy
           v == View(began[c], p)
<1>3. Below(v, work[c].bundle)
  BY <1>1 DEF Seen, Below, View, WebRead, ToolsRead, HealthRead
<1>4. v.policy = p /\ v.tools \in Activity \cup {None} /\ v.web \in Activity \cup {None}
  BY <1>2 DEF View, Summaries
<1>5. /\ work[c].bundle.tools \in Activity \cup {None} /\ p \in Policies \cup {None}
      /\ work[c].bundle.web \in Activity \cup {None}
  BY <1>2 DEF Bundles
<1> HIDE DEF v
<1> QED
  BY <1>3, <1>4, <1>5, LastingGrows DEF v

\* NothingMissed for every number of controllers, every policy and every run of events.
THEOREM NothingIsMissed == Spec => []NothingMissed
<1>1. CallInv => NothingMissed
  <2> SUFFICES ASSUME CallInv, NEW c \in Controllers, Derived(c), NEW s \in States,
                      NEW r \in Triggered(View(began[c], work[c].bundle.policy)) \cap Lasting,
                      r \in ReasonsOf[s]
               PROVE  Severity[work[c].snap.state] >= Severity[s]
    BY DEF NothingMissed
  <2>1. r \in Triggered(work[c].bundle)
    BY BeganIsSeen
  <2>2. work[c].snap.state = Canonical(Triggered(work[c].bundle))
    BY DEF CallInv, ConsistentInv, Consistent
  <2>3. Severity[s] <= Severity[Canonical(Triggered(work[c].bundle))]
    BY <2>1, TriggeredReasons, CanonicalIsMostSevere
  <2>4. Canonical(Triggered(work[c].bundle)) \in States
    BY TriggeredReasons, CanonicalIsMostSevere
  <2> QED
    BY <2>2, <2>3, <2>4, SeverityRanks
<1> QED
  BY <1>1, CallInvariant, PTL

\* NothingInvented in the same generality.
THEOREM NothingIsInvented == Spec => []NothingInvented
<1>1. CallInv => NothingInvented
  <2> SUFFICES ASSUME CallInv, NEW c \in Controllers, Derived(c),
                      NEW r \in work[c].snap.reasons \cap Lasting
               PROVE  r \in Triggered(View(summaries, work[c].bundle.policy))
    BY DEF NothingInvented
  <2> DEFINE p == work[c].bundle.policy
             v == View(summaries, p)
  <2>1. r \in Triggered(work[c].bundle)
    BY DEF CallInv, ConsistentInv, Consistent
  <2>2. summaries \in Summaries /\ work[c].bundle \in Bundles
    BY DEF CallInv, TypeInv, TypeOK, Works
  <2>3. Below(work[c].bundle, v)
    BY DEF CallInv, SeenInv, Seen, Below, View
  <2>4. v.policy = p /\ v.tools \in Activity \cup {None} /\ v.web \in Activity \cup {None}
    BY <2>2 DEF View, Summaries
  <2>5. /\ work[c].bundle.tools \in Activity \cup {None} /\ p \in Policies \cup {None}
        /\ work[c].bundle.web \in Activity \cup {None}
    BY <2>2 DEF Bundles
  <2> HIDE DEF v
  <2>6. r \in Triggered(v)
    BY <2>1, <2>3, <2>4, <2>5, LastingGrows
  <2> QED
    BY <2>6 DEF v
<1> QED
  BY <1>1, CallInvariant, PTL

\* No state is more severe than RUNAWAY, and only RUNAWAY is as severe.
LEMMA RunawayIsWorst ==
    ASSUME NEW s \in States, Severity[s] >= Severity["RUNAWAY"]
    PROVE  s = "RUNAWAY"
BY DEF States, Severity

\* RunawayIsGoverned: a reached limit leads to an action of the policy's own.
THEOREM RunawayAlwaysGoverned == Spec => []RunawayIsGoverned
<1>1. CallInv => RunawayIsGoverned
  <2> SUFFICES ASSUME CallInv, NEW c \in Controllers, HasDecided(c), work[c].policy # None,
                      NEW r \in Triggered(View(began[c], work[c].policy)) \cap Lasting,
                      r \in ReasonsOf["RUNAWAY"]
               PROVE  work[c].action \in {actions[work[c].policy][b] : b \in
                                  {"runtime_action", "request_action", "anomaly_action"}}
    BY DEF RunawayIsGoverned
  <2>1. Consistent(c) /\ Derived(c)
    BY DEF CallInv, ConsistentInv, HasDecided, Derived
  <2>2. work[c].bundle.policy = work[c].policy
    BY <2>1 DEF Consistent, HasDecided, WebRead
  <2>3. r \in Triggered(work[c].bundle)
    BY <2>1, <2>2, BeganIsSeen
  <2>4. work[c].snap.state = Canonical(Triggered(work[c].bundle))
    BY <2>1 DEF Consistent
  <2>5. "RUNAWAY" \in States
    BY DEF States
  <2>6. Severity["RUNAWAY"] <= Severity[work[c].snap.state] /\ work[c].snap.state \in States
    BY <2>3, <2>4, <2>5, TriggeredReasons, CanonicalIsMostSevere
  <2>7. work[c].snap.state = "RUNAWAY"
    BY <2>5, <2>6, SeverityRanks, RunawayIsWorst
  <2>8. work[c].action = Decided(work[c].policy, work[c].snap)
    BY <2>1 DEF Consistent
  <2>9. PolicyOr(work[c].policy) = work[c].policy
    BY DEF PolicyOr
  <2>10. Binding(work[c].snap.state, work[c].snap.reasons)
            \in {"runtime_action", "request_action", "anomaly_action"}
    BY <2>7 DEF Binding
  <2> QED
    BY <2>7, <2>8, <2>9, <2>10 DEF Decided
<1> QED
  BY <1>1, CallInvariant, PTL
=============================================================================
