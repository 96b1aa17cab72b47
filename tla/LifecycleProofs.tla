-------------------------- MODULE LifecycleProofs --------------------------
(***************************************************************************)
(* Theorems about Lifecycle, for any number of threads, ids and duplicate  *)
(* calls; and that it implements the safety part of LifecyclePromise.      *)
(***************************************************************************)
EXTENDS Lifecycle, SequenceTheorems, TLAPS

-----------------------------------------------------------------------------
(***************************************************************************)
(* What an operation on a record preserves.                                *)
(***************************************************************************)
\* update_state turns a record into a record.
LEMMA MovedType ==
    ASSUME NEW r \in Record, NEW to \in States, Allowed(r, to)
    PROVE  Moved(r, to) \in Record
<1>1. CASE r.state = to
    BY <1>1 DEF Moved
<1>2. CASE r.state # to
    <2>1. r.state \in States
        BY <1>2 DEF Allowed
    <2>2. Append(r.transitions, <<r.state, to>>) \in Seq(States \X States)
        BY <2>1, AppendProperties DEF Record
    <2> QED
        BY <1>2, <2>2 DEF Moved, Record
<1> QED
    BY <1>1, <1>2

\* The record create_execution saves.
LEMMA CreatedType == [Absent EXCEPT !.state = "CREATED"] \in Record /\ Absent \in Record
<1>1. <<>> \in Seq(States \X States)
    BY EmptySeq
<1> QED
    BY <1>1 DEF Absent, Record, States

-----------------------------------------------------------------------------
(***************************************************************************)
(* Type correctness.                                                       *)
(***************************************************************************)
\* The effect on the types of a transition at one point of a call.
LEMMA TransitionType ==
    ASSUME TypeOK, NEW t \in Threads, NEW to \in States,
           NEW from, NEW next, NEW otherwise,
           Transition(t, from, to, next, otherwise)
    PROVE  /\ records' \in [Ids -> Record]
           /\ held' \in [Threads -> Record]
           /\ \/ pc' = [pc EXCEPT ![t] = next]
              \/ pc' = [pc EXCEPT ![t] = otherwise]
           /\ UNCHANGED <<contexts, answer, events>>
<1>1. IdOf[t] \in Ids
    BY DEF TypeOK
<1>2. CASE update_state(t, to) /\ Goto(t, from, next)
    <2>1. Moved(records[IdOf[t]], to) \in Record
        BY <1>1, <1>2, MovedType DEF TypeOK, update_state
    <2> QED
        BY <1>1, <1>2, <2>1 DEF TypeOK, update_state, Goto, Transition
<1>3. CASE ~Allowed(records[IdOf[t]], to) /\ Goto(t, from, otherwise)
              /\ UNCHANGED <<records, held>>
    BY <1>3 DEF TypeOK, Goto, Transition
<1> QED
    BY <1>2, <1>3 DEF Transition

\* The effect on the types of a save.
LEMMA SaveType ==
    ASSUME TypeOK, NEW t \in Threads, NEW r \in Record, save(t, r)
    PROVE  /\ records' \in [Ids -> Record]
           /\ held' \in [Threads -> Record]
BY DEF TypeOK, save

\* The effect on the types of a published event.
LEMMA PublishType ==
    ASSUME TypeOK, NEW e \in Executors, NEW from, NEW next,
           NEW type \in {"EXECUTION_STARTED", "EXECUTION_COMPLETED", "EXECUTION_FAILED"},
           NEW sequence \in {0, 1},
           _publish_event(e, from, type, sequence, next)
    PROVE  /\ events' \in [Ids -> Seq(Event)]
           /\ pc' = [pc EXCEPT ![e] = next]
           /\ UNCHANGED <<records, contexts, held, answer>>
<1> DEFINE event == [type |-> type, sequence |-> sequence, by |-> e]
<1>1. IdOf[e] \in Ids
    BY DEF TypeOK, Threads
<1>2. event \in Event
    BY DEF Event
<1>3. Append(events[IdOf[e]], event) \in Seq(Event)
    BY <1>1, <1>2, AppendProperties DEF TypeOK
<1>4. events' = [events EXCEPT ![IdOf[e]] = Append(@, event)] \/ UNCHANGED events
    BY DEF _publish_event
<1>5. events' \in [Ids -> Seq(Event)]
    <2> HIDE DEF event
    <2> QED
        BY <1>1, <1>3, <1>4 DEF TypeOK
<1> QED
    BY <1>5 DEF _publish_event, Goto

\* Moving a thread to a label of its kind keeps pc typed.
LEMMA ExecutorLabel ==
    ASSUME TypeOK, NEW e \in Executors, NEW l \in ExecutorLabels,
           pc' = [pc EXCEPT ![e] = l]
    PROVE  /\ pc' \in [Threads -> ExecutorLabels \cup CancellerLabels]
           /\ \A f \in Executors : pc'[f] \in ExecutorLabels
           /\ \A c \in Cancellers : pc'[c] \in CancellerLabels
BY ThreadsAssumption DEF TypeOK, Threads

LEMMA CancellerLabel ==
    ASSUME TypeOK, NEW c \in Cancellers, NEW l \in CancellerLabels,
           pc' = [pc EXCEPT ![c] = l]
    PROVE  /\ pc' \in [Threads -> ExecutorLabels \cup CancellerLabels]
           /\ \A f \in Executors : pc'[f] \in ExecutorLabels
           /\ \A d \in Cancellers : pc'[d] \in CancellerLabels
BY ThreadsAssumption DEF TypeOK, Threads

LEMMA InitType == Init => TypeOK
<1>1. <<>> \in Seq(Event)
    BY EmptySeq
<1> QED
    BY <1>1, CreatedType, ThreadsAssumption DEF Init, TypeOK, ExecutorLabels, CancellerLabels, Threads

LEMMA ExecuteType ==
    ASSUME TypeOK, NEW e \in Executors, execute(e)
    PROVE  TypeOK'
<1>0. e \in Threads /\ IdOf[e] \in Ids /\ held[e] \in Record /\ UNCHANGED IdOf
    BY DEF Threads, TypeOK, execute
<1>1. CASE CreateContext(e)
    <2>1. pc' = [pc EXCEPT ![e] = "check"]
        BY <1>1 DEF CreateContext, Goto
    <2> QED
        BY <1>0, <1>1, <2>1, ExecutorLabel DEF CreateContext, TypeOK, ExecutorLabels
<1>2. CASE CheckExists(e)
    <2>1. PICK l \in {"already_exists", "create"} : pc' = [pc EXCEPT ![e] = l]
        BY <1>2 DEF CheckExists, Goto
    <2> QED
        BY <1>0, <1>2, <2>1, ExecutorLabel DEF CheckExists, TypeOK, ExecutorLabels
<1>3. CASE SaveCreated(e)
    <2>1. pc' = [pc EXCEPT ![e] = "initialize"]
        BY <1>3 DEF SaveCreated, Goto
    <2> QED
        BY <1>0, <1>3, <2>1, ExecutorLabel, SaveType, CreatedType
           DEF SaveCreated, TypeOK, ExecutorLabels
<1>4. CASE SaveResolution(e)
    <2>1. PICK l \in {"select", "reject"} : pc' = [pc EXCEPT ![e] = l]
        BY <1>4 DEF SaveResolution, Goto
    <2> QED
        BY <1>0, <1>4, <2>1, ExecutorLabel, SaveType
           DEF SaveResolution, TypeOK, ExecutorLabels
<1>5. ASSUME NEW from, NEW to \in States,
             NEW next \in ExecutorLabels, NEW otherwise \in ExecutorLabels,
             Transition(e, from, to, next, otherwise)
      PROVE  TypeOK'
    <2>1. PICK l \in ExecutorLabels : pc' = [pc EXCEPT ![e] = l]
        BY <1>0, <1>5, TransitionType
    <2> QED
        BY <1>0, <1>5, <2>1, ExecutorLabel, TransitionType DEF TypeOK
<1>6. ASSUME NEW r \in Record, NEW from, NEW next \in ExecutorLabels,
             Goto(e, from, next), save(e, r),
             UNCHANGED <<contexts, answer, events>>
      PROVE  TypeOK'
    <2>1. pc' = [pc EXCEPT ![e] = next]
        BY <1>6 DEF Goto
    <2> QED
        BY <1>0, <1>6, <2>1, ExecutorLabel, SaveType DEF TypeOK
<1>7. ASSUME NEW from, NEW next \in ExecutorLabels, NEW sequence \in {0, 1},
             NEW type \in {"EXECUTION_STARTED", "EXECUTION_COMPLETED", "EXECUTION_FAILED"},
             _publish_event(e, from, type, sequence, next)
      PROVE  TypeOK'
    <2>1. /\ events' \in [Ids -> Seq(Event)]
          /\ pc' = [pc EXCEPT ![e] = next]
          /\ UNCHANGED <<records, contexts, held, answer>>
        BY <1>7, PublishType
    <2> QED
        BY <1>0, <2>1, ExecutorLabel DEF TypeOK
<1>8. CASE Initialize(e) \/ Reject(e) \/ Route(e) \/ Run(e) \/ Complete(e) \/ Fail(e)
    <2>1. CASE Initialize(e)
        BY <1>5, <2>1 DEF Initialize, States, ExecutorLabels
    <2>2. CASE Reject(e)
        BY <1>5, <2>2 DEF Reject, States, ExecutorLabels
    <2>3. CASE Route(e)
        BY <1>5, <2>3 DEF Route, States, ExecutorLabels
    <2>4. CASE Run(e)
        BY <1>5, <2>4 DEF Run, States, ExecutorLabels
    <2>5. CASE Complete(e)
        BY <1>5, <2>5 DEF Complete, States, ExecutorLabels
    <2>6. CASE Fail(e)
        BY <1>5, <2>6 DEF Fail, States, ExecutorLabels
    <2> QED
        BY <1>8, <2>1, <2>2, <2>3, <2>4, <2>5, <2>6
<1>9. CASE SaveRejected(e) \/ SaveFailed(e)
    <2>1. [held[e] EXCEPT !.error = TRUE, !.result = "FAILED"] \in Record
        BY <1>0 DEF Record
    <2> QED
        BY <1>6, <1>9, <2>1 DEF SaveRejected, SaveFailed, ExecutorLabels
<1>10. CASE SaveRoute(e)
    <2>1. [held[e] EXCEPT !.target = TRUE] \in Record
        BY <1>0 DEF Record
    <2> QED
        BY <1>6, <1>10, <2>1 DEF SaveRoute, ExecutorLabels
<1>11. CASE SaveCompleted(e)
    <2>1. [held[e] EXCEPT !.result = "COMPLETED"] \in Record
        BY <1>0 DEF Record
    <2> QED
        BY <1>6, <1>11, <2>1 DEF SaveCompleted, ExecutorLabels
<1>12. CASE PublishRejected(e) \/ PublishStarted(e) \/ PublishCompleted(e) \/ PublishFailed(e)
    BY <1>7, <1>12
       DEF PublishRejected, PublishStarted, PublishCompleted, PublishFailed, ExecutorLabels
<1>13. CASE CallProvider(e)
    <2>1. PICK l \in {"complete", "fail"} : pc' = [pc EXCEPT ![e] = l]
        BY <1>13 DEF CallProvider, Goto
    <2> QED
        BY <1>0, <1>13, <2>1, ExecutorLabel DEF CallProvider, TypeOK, ExecutorLabels
<1> QED
    BY <1>1, <1>2, <1>3, <1>4, <1>8, <1>9, <1>10, <1>11, <1>12, <1>13 DEF execute

LEMMA CancelType ==
    ASSUME TypeOK, NEW c \in Cancellers, cancel_execution(c)
    PROVE  TypeOK'
<1>0. c \in Threads /\ IdOf[c] \in Ids /\ held[c] \in Record /\ UNCHANGED IdOf
    BY DEF Threads, TypeOK, cancel_execution
<1>1. CASE BeginCancel(c)
    <2>1. PICK l \in {"not_found", "refused", "cancel"} : pc' = [pc EXCEPT ![c] = l]
        BY <1>1 DEF BeginCancel, Goto
    <2> QED
        BY <1>0, <1>1, <2>1, CancellerLabel DEF BeginCancel, TypeOK, CancellerLabels
<1>2. CASE Cancel(c)
    <2>1. Transition(c, "cancel", "CANCELLED", "save_cancelled", "raised")
        BY <1>2 DEF Cancel
    <2>2. PICK l \in {"save_cancelled", "raised"} : pc' = [pc EXCEPT ![c] = l]
        BY <1>0, <2>1, TransitionType DEF States
    <2> QED
        BY <1>0, <2>1, <2>2, TransitionType, CancellerLabel DEF TypeOK, States, CancellerLabels
<1>3. CASE SaveCancelled(c)
    <2> DEFINE r == [held[c] EXCEPT !.cancelledBy = c,
                                    !.result = IF @ = "NONE" THEN "STOPPED" ELSE @]
    <2>1. r \in Record
        BY <1>0 DEF Record
    <2>2. pc' = [pc EXCEPT ![c] = "returned"] /\ save(c, r) /\ UNCHANGED <<contexts, answer, events>>
        BY <1>3 DEF SaveCancelled, Goto
    <2> HIDE DEF r
    <2> QED
        BY <1>0, <2>1, <2>2, SaveType, CancellerLabel DEF TypeOK, CancellerLabels
<1> QED
    BY <1>1, <1>2, <1>3 DEF cancel_execution

LEMMA NextType == TypeOK /\ [Next]_vars => TypeOK'
<1> SUFFICES ASSUME TypeOK, [Next]_vars PROVE TypeOK'
    OBVIOUS
<1>1. CASE Quiescent \/ UNCHANGED vars
    BY <1>1 DEF Quiescent, vars, TypeOK
<1>2. CASE \E e \in Executors : execute(e)
    BY <1>2, ExecuteType
<1>3. CASE \E c \in Cancellers : cancel_execution(c)
    BY <1>3, CancelType
<1> QED
    BY <1>1, <1>2, <1>3 DEF Next

\* Type correctness of the lifecycle.
THEOREM TypeCorrect == Spec => []TypeOK
BY InitType, NextType, PTL DEF Spec

-----------------------------------------------------------------------------
(***************************************************************************)
(* The audit trail.                                                        *)
(***************************************************************************)
\* The audit of a record reads four of its fields.
LEMMA SameTrail ==
    ASSUME NEW r, NEW q, AuditChain(r),
           q.state = r.state, q.transitions = r.transitions,
           q.started = r.started, q.completed = r.completed
    PROVE  AuditChain(q)
BY DEF AuditChain

\* The records a thread starts from have an empty, legal trail.
LEMMA EmptyTrail == AuditChain(Absent) /\ AuditChain([Absent EXCEPT !.state = "CREATED"])
BY DEF AuditChain, Absent, Terminal

\* update_state extends a legal trail to a legal trail.
LEMMA MovedTrail ==
    ASSUME NEW r \in Record, AuditChain(r), NEW to \in States, Allowed(r, to)
    PROVE  AuditChain(Moved(r, to))
<1>1. CASE r.state = to
    BY <1>1 DEF Moved
<1>2. CASE r.state # to
    <2> DEFINE log  == r.transitions
               step == <<r.state, to>>
               n    == Len(log)
               q    == Moved(r, to)
    <2>1. r.state \in States /\ to \in VALID_TRANSITIONS[r.state]
        BY <1>2 DEF Allowed
    <2>2. /\ q.transitions = Append(log, step)
          /\ q.state = to
          /\ q.started = (r.started \/ to = "RUNNING")
          /\ q.completed = (r.completed \/ to \in Terminal)
        BY <1>2 DEF Moved, Record
    <2>3. log \in Seq(States \X States) /\ step \in States \X States
        BY <2>1 DEF Record
    <2>4. /\ n \in Nat
          /\ Len(Append(log, step)) = n + 1
          /\ \A i \in 1..n : Append(log, step)[i] = log[i]
          /\ Append(log, step)[n + 1] = step
          /\ DOMAIN log = 1..n
          /\ DOMAIN Append(log, step) = 1..(n + 1)
          /\ Append(log, step) # <<>>
        BY <2>3, AppendProperties, LenProperties
    <2>5. r.state \notin Terminal /\ ~r.completed
        BY <2>1 DEF VALID_TRANSITIONS, States, Terminal, AuditChain, Record
    <2>6. \A i \in 1..(n + 1) :
              Append(log, step)[i][2] \in VALID_TRANSITIONS[Append(log, step)[i][1]]
        <3>1. step[2] \in VALID_TRANSITIONS[step[1]]
            BY <2>1
        <3>2. \A i \in 1..n : log[i][2] \in VALID_TRANSITIONS[log[i][1]]
            BY <2>4 DEF AuditChain
        <3>3. \A i \in 1..(n + 1) : i \in 1..n \/ i = n + 1
            BY <2>4
        <3> QED
            BY <2>4, <3>1, <3>2, <3>3
    <2>7. ASSUME NEW i \in 1..(n + 1), i > 1
          PROVE  Append(log, step)[i][1] = Append(log, step)[i - 1][2]
        <3>1. i - 1 \in 1..n
            BY <2>4, <2>7
        <3>2. CASE i \in 1..n
            BY <2>4, <2>7, <3>1, <3>2, ZenonT(40) DEF AuditChain
        <3>3. CASE i = n + 1
            <4>1. log # <<>> /\ n \in 1..n
                BY <2>3, <2>4, <3>1, <3>3, EmptySeq
            <4>2. r.state = log[n][2]
                BY <4>1 DEF AuditChain
            <4> QED
                BY <2>4, <3>3, <4>1, <4>2
        <3> QED
            BY <2>4, <2>7, <3>2, <3>3
    <2>8. Append(log, step)[1][1] = "CREATED"
        <3>1. CASE log = <<>>
            BY <2>1, <2>4, <3>1 DEF AuditChain, States
        <3>2. CASE log # <<>>
            <4>1. 1 \in 1..n
                BY <2>3, <2>4, <3>2, EmptySeq
            <4> QED
                BY <2>4, <3>2, <4>1 DEF AuditChain
        <3> QED
            BY <3>1, <3>2
    <2>9. q.started <=> \E i \in 1..(n + 1) : Append(log, step)[i][2] = "RUNNING"
        <3>1. r.started <=> \E i \in 1..n : log[i][2] = "RUNNING"
            BY <2>4 DEF AuditChain
        <3>2. (\E i \in 1..(n + 1) : Append(log, step)[i][2] = "RUNNING")
                 <=> (\E i \in 1..n : log[i][2] = "RUNNING") \/ to = "RUNNING"
            <4>1. \A i \in 1..(n + 1) : i \in 1..n \/ i = n + 1
                BY <2>4
            <4>2. 1..n \subseteq 1..(n + 1) /\ n + 1 \in 1..(n + 1)
                BY <2>4
            <4>3. \A i \in 1..n : Append(log, step)[i][2] = log[i][2]
                BY <2>4
            <4>4. Append(log, step)[n + 1][2] = to
                BY <2>4
            <4> QED
                BY <4>1, <4>2, <4>3, <4>4
        <3> QED
            BY <2>2, <3>1, <3>2
    <2>10. Append(log, step)[Len(Append(log, step))][2] = to
        BY <2>4
    <2>11. q.completed <=> q.state \in Terminal
        BY <2>2, <2>5
    <2> QED
        BY <2>2, <2>4, <2>6, <2>7, <2>8, <2>9, <2>10, <2>11, SMTT(30) DEF AuditChain
<1> QED
    BY <1>1, <1>2

\* Writing a record with a legal trail to the store and to a thread's copy.
Writes(t, r) ==
    /\ AuditChain(r)
    /\ records' = [records EXCEPT ![IdOf[t]] = r]
    /\ held' = [held EXCEPT ![t] = r]

LEMMA TransitionWrites ==
    ASSUME TypeOK, AuditTrail, NEW t \in Threads, NEW to \in States,
           NEW from, NEW next, NEW otherwise,
           Transition(t, from, to, next, otherwise)
    PROVE  UNCHANGED <<records, held>> \/ \E r : Writes(t, r)
<1>1. CASE update_state(t, to)
    <2>1. records[IdOf[t]] \in Record /\ AuditChain(records[IdOf[t]])
        BY DEF TypeOK, AuditTrail
    <2>2. AuditChain(Moved(records[IdOf[t]], to))
        BY <1>1, <2>1, MovedTrail DEF update_state
    <2>3. Writes(t, Moved(records[IdOf[t]], to))
        BY <1>1, <2>2 DEF update_state, Writes
    <2> QED
        BY <2>3
<1> QED
    BY <1>1 DEF Transition

\* Every save of a call writes the thread's copy, but for fields the audit
\* does not read.
LEMMA SaveWrites ==
    ASSUME TypeOK, AuditTrail, NEW t \in Threads, NEW r, save(t, r),
           r.state = held[t].state, r.transitions = held[t].transitions,
           r.started = held[t].started, r.completed = held[t].completed
    PROVE  Writes(t, r)
<1>1. AuditChain(held[t])
    BY DEF AuditTrail
<1>2. AuditChain(r)
    BY <1>1, SameTrail
<1> QED
    BY <1>2 DEF save, Writes

LEMMA ExecuteWrites ==
    ASSUME TypeOK, AuditTrail, NEW e \in Executors, execute(e)
    PROVE  UNCHANGED <<records, held>> \/ \E r : Writes(e, r)
<1>0. e \in Threads /\ held[e] \in Record
    BY DEF Threads, TypeOK
<1>1. CASE CreateContext(e) \/ CheckExists(e) \/ CallProvider(e)
    BY <1>1 DEF CreateContext, CheckExists, CallProvider
<1>2. CASE SaveCreated(e)
    BY <1>2, EmptyTrail DEF SaveCreated, save, Writes
<1>3. CASE SaveResolution(e)
    BY <1>0, <1>3, SaveWrites DEF SaveResolution
<1>4. ASSUME NEW from, NEW to \in States, NEW next, NEW otherwise,
             Transition(e, from, to, next, otherwise)
      PROVE  UNCHANGED <<records, held>> \/ \E r : Writes(e, r)
    BY <1>0, <1>4, TransitionWrites
<1>5. CASE Initialize(e)
    BY <1>4, <1>5 DEF Initialize, States
<1>6. CASE Reject(e)
    BY <1>4, <1>6 DEF Reject, States
<1>7. CASE Route(e)
    BY <1>4, <1>7 DEF Route, States
<1>8. CASE Run(e)
    BY <1>4, <1>8 DEF Run, States
<1>9. CASE Complete(e)
    BY <1>4, <1>9 DEF Complete, States
<1>10. CASE Fail(e)
    BY <1>4, <1>10 DEF Fail, States
<1>11. CASE SaveRejected(e) \/ SaveFailed(e)
    <2> DEFINE r == [held[e] EXCEPT !.error = TRUE, !.result = "FAILED"]
    <2>1. /\ r.state = held[e].state /\ r.transitions = held[e].transitions
          /\ r.started = held[e].started /\ r.completed = held[e].completed
        BY <1>0 DEF Record
    <2>2. save(e, r)
        BY <1>11 DEF SaveRejected, SaveFailed
    <2> HIDE DEF r
    <2> QED
        BY <1>0, <2>1, <2>2, SaveWrites
<1>12. CASE SaveRoute(e)
    <2> DEFINE r == [held[e] EXCEPT !.target = TRUE]
    <2>1. /\ r.state = held[e].state /\ r.transitions = held[e].transitions
          /\ r.started = held[e].started /\ r.completed = held[e].completed
        BY <1>0 DEF Record
    <2>2. save(e, r)
        BY <1>12 DEF SaveRoute
    <2> HIDE DEF r
    <2> QED
        BY <1>0, <2>1, <2>2, SaveWrites
<1>13. CASE SaveCompleted(e)
    <2> DEFINE r == [held[e] EXCEPT !.result = "COMPLETED"]
    <2>1. /\ r.state = held[e].state /\ r.transitions = held[e].transitions
          /\ r.started = held[e].started /\ r.completed = held[e].completed
        BY <1>0 DEF Record
    <2>2. save(e, r)
        BY <1>13 DEF SaveCompleted
    <2> HIDE DEF r
    <2> QED
        BY <1>0, <2>1, <2>2, SaveWrites
<1>14. CASE PublishRejected(e) \/ PublishStarted(e) \/ PublishCompleted(e) \/ PublishFailed(e)
    BY <1>14 DEF PublishRejected, PublishStarted, PublishCompleted, PublishFailed,
                 _publish_event
<1> QED
    BY <1>1, <1>2, <1>3, <1>5, <1>6, <1>7, <1>8, <1>9, <1>10, <1>11, <1>12, <1>13, <1>14
       DEF execute

LEMMA CancelWrites ==
    ASSUME TypeOK, AuditTrail, NEW c \in Cancellers, cancel_execution(c)
    PROVE  UNCHANGED <<records, held>> \/ \E r : Writes(c, r)
<1>0. c \in Threads /\ held[c] \in Record
    BY DEF Threads, TypeOK
<1>1. CASE BeginCancel(c)
    BY <1>1 DEF BeginCancel
<1>2. CASE Cancel(c)
    <2>1. Transition(c, "cancel", "CANCELLED", "save_cancelled", "raised")
        BY <1>2 DEF Cancel
    <2>2. "CANCELLED" \in States
        BY DEF States
    <2> QED
        BY <1>0, <2>1, <2>2, TransitionWrites
<1>3. CASE SaveCancelled(c)
    <2> DEFINE r == [held[c] EXCEPT !.cancelledBy = c,
                                    !.result = IF @ = "NONE" THEN "STOPPED" ELSE @]
    <2>1. /\ r.state = held[c].state /\ r.transitions = held[c].transitions
          /\ r.started = held[c].started /\ r.completed = held[c].completed
        BY <1>0 DEF Record
    <2>2. save(c, r)
        BY <1>3 DEF SaveCancelled
    <2> HIDE DEF r
    <2> QED
        BY <1>0, <2>1, <2>2, SaveWrites
<1> QED
    BY <1>1, <1>2, <1>3 DEF cancel_execution

LEMMA NextTrail == TypeOK /\ AuditTrail /\ [Next]_vars => AuditTrail'
<1> SUFFICES ASSUME TypeOK, AuditTrail, [Next]_vars PROVE AuditTrail'
    OBVIOUS
<1>1. CASE UNCHANGED <<records, held>>
    BY <1>1 DEF AuditTrail, AuditChain
<1>2. CASE \E t \in Threads : \E r : Writes(t, r)
    <2>0. PICK t \in Threads : \E r : Writes(t, r)
        BY <1>2
    <2>1. PICK r : Writes(t, r)
        BY <2>0
    <2>2. \A id \in Ids : records'[id] = records[id] \/ records'[id] = r
        BY <2>1 DEF Writes, TypeOK
    <2>3. \A u \in Threads : held'[u] = held[u] \/ held'[u] = r
        BY <2>1 DEF Writes, TypeOK
    <2>4. AuditChain(r)
        BY <2>1 DEF Writes
    <2>5. \A id \in Ids : AuditChain(records'[id])
        BY <2>2, <2>4 DEF AuditTrail
    <2>6. \A u \in Threads : AuditChain(held'[u])
        BY <2>3, <2>4 DEF AuditTrail
    <2> QED
        BY <2>5, <2>6 DEF AuditTrail, AuditChain
<1>3. UNCHANGED <<records, held>> \/ \E t \in Threads : \E r : Writes(t, r)
    BY ExecuteWrites, CancelWrites DEF Next, Quiescent, vars, Threads
<1> QED
    BY <1>1, <1>2, <1>3

\* Whatever threads overwrite one another's records, every stored audit trail
\* is a legal history of its record.
THEOREM AuditTrailHolds == Spec => []AuditTrail
<1>1. Init => AuditTrail
    BY EmptyTrail DEF Init, AuditTrail
<1> QED
    BY <1>1, InitType, NextType, NextTrail, PTL DEF Spec

-----------------------------------------------------------------------------
(***************************************************************************)
(* Results.                                                                *)
(***************************************************************************)
\* What a thread at a label l holds when it is about to save: a stale
\* INITIALIZING copy has no result, and a copy about to receive its result is
\* in the state of that result.
Fit(l, r) ==
    /\ l \in {"resolve", "select"} => r.state = "INITIALIZING" /\ r.result = "NONE"
    /\ l \in {"save_rejected", "save_failed"} => r.state = "FAILED"
    /\ l = "save_completed" => r.state = "COMPLETED"
    /\ l = "save_cancelled" => r.state = "CANCELLED" /\ r.result \in {"NONE", "STOPPED"}

\* The inductive strengthening of ResultMatchesState.
ResultInv ==
    /\ ResultMatchesState
    /\ \A id \in Ids : records[id].state \notin Terminal => records[id].result = "NONE"
    /\ \A t \in Threads : Fit(pc[t], held[t])

\* A step of t that writes no record and is not a save.
LEMMA QuietResult ==
    ASSUME TypeOK, ResultInv, NEW t \in Threads, NEW l,
           UNCHANGED <<IdOf, records, held>>,
           pc' = [pc EXCEPT ![t] = l],
           pc[t] \notin SaveLabels,
           l \notin SaveLabels \cup {"resolve", "select"}
    PROVE  ResultInv'
<1>1. \A u \in Threads : u # t => pc'[u] = pc[u]
    BY DEF TypeOK
<1>2. pc'[t] = l
    BY DEF TypeOK
<1>3. ResultMatchesState'
    <2> SUFFICES ASSUME NEW id \in Ids, records[id].state \in Terminal,
                        records[id].result \notin ResultOf[records[id].state]
                 PROVE  /\ records[id].result = "NONE"
                        /\ \E u \in Threads : /\ IdOf[u] = id
                                              /\ pc'[u] \in SaveLabels
                                              /\ held[u].state = records[id].state
        BY DEF ResultMatchesState
    <2>1. PICK u \in Threads : /\ IdOf[u] = id
                               /\ pc[u] \in SaveLabels
                               /\ held[u].state = records[id].state
        BY DEF ResultInv, ResultMatchesState
    <2>2. records[id].result = "NONE" /\ u # t
        BY <2>1 DEF ResultInv, ResultMatchesState
    <2> QED
        BY <1>1, <2>1, <2>2
<1>4. \A u \in Threads : Fit(pc'[u], held'[u])
    <2>1. Fit(l, held[t])
        BY DEF Fit, SaveLabels
    <2> QED
        BY <1>1, <1>2, <2>1 DEF ResultInv
<1> QED
    BY <1>3, <1>4 DEF ResultInv, Fit

\* A step of t that writes the record r and goes to l.
LEMMA WriteResult ==
    ASSUME TypeOK, ResultInv, NEW t \in Threads, NEW l, NEW r \in Record,
           records' = [records EXCEPT ![IdOf[t]] = r],
           held' = [held EXCEPT ![t] = r],
           pc' = [pc EXCEPT ![t] = l],
           UNCHANGED IdOf,
           r.state \notin Terminal => r.result = "NONE",
           r.state \in Terminal => \/ r.result \in ResultOf[r.state]
                                   \/ r.result = "NONE" /\ l \in SaveLabels,
           Fit(l, r)
    PROVE  ResultInv'
<1>0. IdOf[t] \in Ids
    BY DEF TypeOK
<1>1. \A u \in Threads : u # t => pc'[u] = pc[u] /\ held'[u] = held[u]
    BY DEF TypeOK
<1>2. pc'[t] = l /\ held'[t] = r
    BY DEF TypeOK
<1>3. records'[IdOf[t]] = r /\ \A id \in Ids : id # IdOf[t] => records'[id] = records[id]
    BY <1>0 DEF TypeOK
<1>4. ResultMatchesState'
    <2> SUFFICES ASSUME NEW id \in Ids, records'[id].state \in Terminal,
                        records'[id].result \notin ResultOf[records'[id].state]
                 PROVE  /\ records'[id].result = "NONE"
                        /\ \E u \in Threads : /\ IdOf[u] = id
                                              /\ pc'[u] \in SaveLabels
                                              /\ held'[u].state = records'[id].state
        BY DEF ResultMatchesState
    <2>1. CASE id = IdOf[t]
        BY <1>2, <1>3, <2>1
    <2>2. CASE id # IdOf[t]
        <3>1. records'[id] = records[id]
            BY <1>3, <2>2
        <3>2. PICK u \in Threads : /\ IdOf[u] = id
                                   /\ pc[u] \in SaveLabels
                                   /\ held[u].state = records[id].state
            BY <3>1 DEF ResultInv, ResultMatchesState
        <3>3. records[id].result = "NONE" /\ u # t
            BY <2>2, <3>1, <3>2 DEF ResultInv, ResultMatchesState
        <3> QED
            BY <1>1, <3>1, <3>2, <3>3
    <2> QED
        BY <2>1, <2>2
<1>5. \A id \in Ids : records'[id].state \notin Terminal => records'[id].result = "NONE"
    BY <1>3 DEF ResultInv
<1>6. \A u \in Threads : Fit(pc'[u], held'[u])
    BY <1>1, <1>2 DEF ResultInv
<1> QED
    BY <1>4, <1>5, <1>6 DEF ResultInv, Fit

\* Transitions: into INITIALIZING or another live state, or into a terminal
\* state on the way to the save of its result.
LEMMA TransitionResult ==
    ASSUME TypeOK, ResultInv, NEW t \in Threads, NEW to \in States,
           NEW from, NEW next, NEW otherwise,
           Transition(t, from, to, next, otherwise), UNCHANGED IdOf,
           from \notin SaveLabels,
           otherwise \notin SaveLabels \cup {"resolve", "select"},
           to \in Terminal => next \in SaveLabels,
           to \notin Terminal => next \notin SaveLabels \cup {"select"},
           next = "resolve" => to = "INITIALIZING",
           next \in {"save_rejected", "save_failed"} => to = "FAILED",
           next = "save_completed" => to = "COMPLETED",
           next = "save_cancelled" => to = "CANCELLED"
    PROVE  ResultInv'
<1>1. CASE UNCHANGED <<records, held>> /\ Goto(t, from, otherwise)
    BY <1>1, QuietResult DEF Goto
<1>2. CASE update_state(t, to) /\ Goto(t, from, next)
    <2> DEFINE s == records[IdOf[t]]
               r == Moved(s, to)
    <2>1. s \in Record /\ r \in Record /\ Allowed(s, to) /\ IdOf[t] \in Ids
        BY <1>2, MovedType DEF update_state, TypeOK
    <2>2. r.state = to /\ r.result = s.result
        BY <2>1 DEF Moved, Record
    <2>3. s.state \in Terminal => s.state = to
        BY <2>1 DEF Allowed, VALID_TRANSITIONS, Terminal, States
    <2>4. s.state \notin Terminal => s.result = "NONE"
        BY <2>1 DEF ResultInv
    <2>5. s.state \in Terminal => s.result \in ResultOf[to] \cup {"NONE"}
        BY <2>1, <2>3 DEF ResultInv, ResultMatchesState
    <2>6. /\ records' = [records EXCEPT ![IdOf[t]] = r]
          /\ held' = [held EXCEPT ![t] = r]
          /\ pc' = [pc EXCEPT ![t] = next]
        BY <1>2 DEF update_state, Goto
    <2>7. Fit(next, r)
        <3>1. next = "save_cancelled" => r.result \in {"NONE", "STOPPED"}
            BY <2>2, <2>4, <2>5 DEF ResultOf
        <3> QED
            BY <2>2, <2>3, <2>4, <3>1 DEF Fit, SaveLabels, Terminal
    <2> HIDE DEF r, s
    <2> QED
        BY <2>1, <2>2, <2>3, <2>4, <2>5, <2>6, <2>7, WriteResult
<1> QED
    BY <1>1, <1>2 DEF Transition

LEMMA ExecuteResult ==
    ASSUME TypeOK, ResultInv, NEW e \in Executors, execute(e)
    PROVE  ResultInv'
<1>0. e \in Threads /\ held[e] \in Record /\ Fit(pc[e], held[e]) /\ UNCHANGED IdOf
    BY DEF Threads, TypeOK, ResultInv, execute
<1>1. CASE CreateContext(e)
    BY <1>0, <1>1, QuietResult DEF CreateContext, Goto, SaveLabels
<1>2. CASE CheckExists(e)
    BY <1>0, <1>2, QuietResult DEF CheckExists, Goto, SaveLabels
<1>3. CASE SaveCreated(e)
    <2> DEFINE r == [Absent EXCEPT !.state = "CREATED"]
    <2>1. r \in Record /\ r.state = "CREATED" /\ r.result = "NONE" /\ Fit("initialize", r)
        BY CreatedType DEF Absent, Fit
    <2>2. save(e, r) /\ pc' = [pc EXCEPT ![e] = "initialize"]
        BY <1>3 DEF SaveCreated, Goto
    <2> HIDE DEF r
    <2> QED
        BY <1>0, <2>1, <2>2, WriteResult DEF save, Terminal
<1>4. CASE SaveResolution(e)
    <2>1. held[e].state = "INITIALIZING" /\ held[e].result = "NONE" /\ save(e, held[e])
        BY <1>0, <1>4 DEF SaveResolution, Goto, Fit
    <2>2. PICK l \in {"select", "reject"} : pc' = [pc EXCEPT ![e] = l]
        BY <1>4 DEF SaveResolution, Goto
    <2>3. Fit(l, held[e])
        BY <2>1 DEF Fit
    <2> QED
        BY <1>0, <2>1, <2>2, <2>3, WriteResult DEF save, Terminal
<1>5. CASE Initialize(e)
    BY <1>0, <1>5, TransitionResult DEF Initialize, States, Terminal, SaveLabels
<1>6. CASE Reject(e)
    BY <1>0, <1>6, TransitionResult DEF Reject, States, Terminal, SaveLabels
<1>7. CASE Route(e)
    BY <1>0, <1>7, TransitionResult DEF Route, States, Terminal, SaveLabels
<1>8. CASE Run(e)
    BY <1>0, <1>8, TransitionResult DEF Run, States, Terminal, SaveLabels
<1>9. CASE Complete(e)
    BY <1>0, <1>9, TransitionResult DEF Complete, States, Terminal, SaveLabels
<1>10. CASE Fail(e)
    BY <1>0, <1>10, TransitionResult DEF Fail, States, Terminal, SaveLabels
<1>11. CASE SaveRejected(e) \/ SaveFailed(e)
    <2> DEFINE r == [held[e] EXCEPT !.error = TRUE, !.result = "FAILED"]
    <2>1. held[e].state = "FAILED" /\ save(e, r)
        BY <1>0, <1>11 DEF SaveRejected, SaveFailed, Goto, Fit
    <2>2. r \in Record /\ r.state = "FAILED" /\ r.result = "FAILED"
        BY <1>0, <2>1 DEF Record
    <2>3. PICK l \in {"publish_rejected", "publish_failed"} : pc' = [pc EXCEPT ![e] = l]
        BY <1>11 DEF SaveRejected, SaveFailed, Goto
    <2>4. Fit(l, r)
        BY <2>3 DEF Fit
    <2>5. r.result \in ResultOf[r.state]
        BY <2>2 DEF ResultOf
    <2> HIDE DEF r
    <2> QED
        BY <1>0, <2>1, <2>2, <2>3, <2>4, <2>5, WriteResult DEF save, Terminal
<1>12. CASE SaveRoute(e)
    <2> DEFINE r == [held[e] EXCEPT !.target = TRUE]
    <2>1. held[e].state = "INITIALIZING" /\ held[e].result = "NONE" /\ save(e, r)
        BY <1>0, <1>12 DEF SaveRoute, Goto, Fit
    <2>2. r \in Record /\ r.state = "INITIALIZING" /\ r.result = "NONE"
        BY <1>0, <2>1 DEF Record
    <2>3. pc' = [pc EXCEPT ![e] = "route"] /\ Fit("route", r)
        BY <1>12 DEF SaveRoute, Goto, Fit
    <2> HIDE DEF r
    <2> QED
        BY <1>0, <2>1, <2>2, <2>3, WriteResult DEF save, Terminal
<1>13. CASE SaveCompleted(e)
    <2> DEFINE r == [held[e] EXCEPT !.result = "COMPLETED"]
    <2>1. held[e].state = "COMPLETED" /\ save(e, r)
        BY <1>0, <1>13 DEF SaveCompleted, Goto, Fit
    <2>2. r \in Record /\ r.state = "COMPLETED" /\ r.result = "COMPLETED"
        BY <1>0, <2>1 DEF Record
    <2>3. pc' = [pc EXCEPT ![e] = "publish_completed"] /\ Fit("publish_completed", r)
        BY <1>13 DEF SaveCompleted, Goto, Fit
    <2>4. r.result \in ResultOf[r.state]
        BY <2>2 DEF ResultOf
    <2> HIDE DEF r
    <2> QED
        BY <1>0, <2>1, <2>2, <2>3, <2>4, WriteResult DEF save, Terminal
<1>14. CASE PublishRejected(e) \/ PublishStarted(e) \/ PublishCompleted(e) \/ PublishFailed(e)
    <2>1. /\ UNCHANGED <<records, held>>
          /\ pc[e] \in {"publish_rejected", "publish_started", "publish_completed",
                        "publish_failed"}
        BY <1>14 DEF PublishRejected, PublishStarted, PublishCompleted, PublishFailed,
                     _publish_event, Goto
    <2>2. PICK l \in {"returned_failed", "returned_completed", "call"} :
              pc' = [pc EXCEPT ![e] = l]
        BY <1>14 DEF PublishRejected, PublishStarted, PublishCompleted, PublishFailed,
                     _publish_event, Goto
    <2> QED
        BY <1>0, <2>1, <2>2, QuietResult DEF SaveLabels
<1>15. CASE CallProvider(e)
    BY <1>0, <1>15, QuietResult DEF CallProvider, Goto, SaveLabels
<1> QED
    BY <1>1, <1>2, <1>3, <1>4, <1>5, <1>6, <1>7, <1>8, <1>9, <1>10, <1>11, <1>12, <1>13,
       <1>14, <1>15 DEF execute

LEMMA CancelResult ==
    ASSUME TypeOK, ResultInv, NEW c \in Cancellers, cancel_execution(c)
    PROVE  ResultInv'
<1>0. c \in Threads /\ held[c] \in Record /\ Fit(pc[c], held[c]) /\ UNCHANGED IdOf
    BY DEF Threads, TypeOK, ResultInv, cancel_execution
<1>1. CASE BeginCancel(c)
    <2>1. UNCHANGED <<records, held>> /\ pc[c] = "start"
        BY <1>1 DEF BeginCancel, Goto
    <2>2. PICK l \in {"not_found", "refused", "cancel"} : pc' = [pc EXCEPT ![c] = l]
        BY <1>1 DEF BeginCancel, Goto
    <2> QED
        BY <1>0, <2>1, <2>2, QuietResult DEF SaveLabels
<1>2. CASE Cancel(c)
    BY <1>0, <1>2, TransitionResult DEF Cancel, States, Terminal, SaveLabels
<1>3. CASE SaveCancelled(c)
    <2> DEFINE r == [held[c] EXCEPT !.cancelledBy = c,
                                    !.result = IF @ = "NONE" THEN "STOPPED" ELSE @]
    <2>1. /\ held[c].state = "CANCELLED" /\ held[c].result \in {"NONE", "STOPPED"}
          /\ save(c, r)
        BY <1>0, <1>3 DEF SaveCancelled, Goto, Fit
    <2>2. r \in Record /\ r.state = "CANCELLED" /\ r.result = "STOPPED"
        BY <1>0, <2>1 DEF Record
    <2>3. pc' = [pc EXCEPT ![c] = "returned"] /\ Fit("returned", r)
        BY <1>3 DEF SaveCancelled, Goto, Fit
    <2>4. r.result \in ResultOf[r.state]
        BY <2>2 DEF ResultOf
    <2> HIDE DEF r
    <2> QED
        BY <1>0, <2>1, <2>2, <2>3, <2>4, WriteResult DEF save, Terminal
<1> QED
    BY <1>1, <1>2, <1>3 DEF cancel_execution

LEMMA InitResult == Init => ResultInv
BY DEF Init, ResultInv, ResultMatchesState, Fit, Absent, Terminal

LEMMA NextResult == TypeOK /\ ResultInv /\ [Next]_vars => ResultInv'
<1> SUFFICES ASSUME TypeOK, ResultInv, [Next]_vars PROVE ResultInv'
    OBVIOUS
<1>1. CASE Quiescent \/ UNCHANGED vars
    <2>1. UNCHANGED <<IdOf, records, held, pc>>
        BY <1>1 DEF Quiescent, vars
    <2> QED
        BY <2>1 DEF ResultInv, ResultMatchesState, Fit
<1>2. CASE \E e \in Executors : execute(e)
    BY <1>2, ExecuteResult
<1>3. CASE \E c \in Cancellers : cancel_execution(c)
    BY <1>3, CancelResult
<1> QED
    BY <1>1, <1>2, <1>3 DEF Next

\* A terminal record has the result of its outcome, or the thread that moved
\* it there is about to save that result.
THEOREM ResultsMatch == Spec => []ResultMatchesState
<1>1. ResultInv => ResultMatchesState
    BY DEF ResultInv
<1> QED
    BY <1>1, InitType, NextType, InitResult, NextResult, PTL DEF Spec

-----------------------------------------------------------------------------
(***************************************************************************)
(* Outcomes are earned.                                                    *)
(***************************************************************************)
Earned(id) == \E e \in Executors : IdOf[e] = id /\ answer[e] = "response"

BeforeCall == {"start", "check", "create", "initialize", "resolve", "reject",
               "save_rejected", "publish_rejected", "select", "route", "run",
               "publish_started", "call"}

Completing == {"complete", "save_completed", "publish_completed"}

\* What the label of an executor says of its provider's answer.
Answered(l, a) ==
    /\ l \in BeforeCall => a = "none"
    /\ l \in Completing => a = "response"

\* The inductive strengthening of OutcomesAreEarned: a COMPLETED copy is
\* earned like a COMPLETED record, and an executor that is about to route or
\* run its execution has its target on a record nobody ended meanwhile.
EarnedInv ==
    /\ \A id \in Ids :
          records[id].state = "COMPLETED" \/ Published(id, "EXECUTION_COMPLETED") => Earned(id)
    /\ \A t \in Threads : held[t].state = "COMPLETED" => Earned(IdOf[t])
    /\ \A e \in Executors : Answered(pc[e], answer[e])
    /\ UniqueIds =>
          /\ \A id \in Ids : records[id].started => records[id].target
          /\ \A t \in Threads : held[t].started => held[t].target
          /\ \A e \in Executors :
                pc[e] \in {"route", "run"} /\ records[IdOf[e]].state \notin Terminal =>
                    records[IdOf[e]].target

\* What writing r and going to l does to threads and records.
LEMMA WriteEffect ==
    ASSUME TypeOK, NEW t \in Threads, NEW l, NEW r,
           records' = [records EXCEPT ![IdOf[t]] = r],
           held' = [held EXCEPT ![t] = r],
           pc' = [pc EXCEPT ![t] = l]
    PROVE  /\ IdOf[t] \in Ids
           /\ records'[IdOf[t]] = r
           /\ \A id \in Ids : id # IdOf[t] => records'[id] = records[id]
           /\ held'[t] = r /\ pc'[t] = l
           /\ \A u \in Threads : u # t => held'[u] = held[u] /\ pc'[u] = pc[u]
BY DEF TypeOK

\* A step of t that writes no record.
LEMMA QuietEarned ==
    ASSUME TypeOK, EarnedInv, NEW t \in Threads, NEW l,
           UNCHANGED <<IdOf, records, held, answer>>,
           pc' = [pc EXCEPT ![t] = l],
           l \notin {"route", "run"},
           t \in Executors => Answered(l, answer[t]),
           \A id \in Ids : Published(id, "EXECUTION_COMPLETED")' =>
               Published(id, "EXECUTION_COMPLETED") \/ Earned(id)
    PROVE  EarnedInv'
<1>1. pc'[t] = l /\ \A u \in Threads : u # t => pc'[u] = pc[u]
    BY DEF TypeOK
<1>2. \A id \in Ids : Earned(id)' <=> Earned(id)
    BY DEF Earned
<1>3. \A e \in Executors : e \in Threads /\ IdOf[e] \in Ids
    BY DEF TypeOK, Threads
<1>4. \A e \in Executors : Answered(pc'[e], answer[e])
    BY <1>1, <1>3 DEF EarnedInv
<1>5. \A u \in Threads : IdOf[u] \in Ids
    BY DEF TypeOK
<1> QED
    BY <1>1, <1>2, <1>3, <1>4, <1>5 DEF EarnedInv, UniqueIds, Answered

\* A step of t that writes the record r.
LEMMA WriteEarned ==
    ASSUME TypeOK, EarnedInv, NEW t \in Threads, NEW l, NEW r,
           records' = [records EXCEPT ![IdOf[t]] = r],
           held' = [held EXCEPT ![t] = r],
           pc' = [pc EXCEPT ![t] = l],
           UNCHANGED <<IdOf, answer, events>>,
           r.state = "COMPLETED" => Earned(IdOf[t]),
           UniqueIds /\ r.started => r.target,
           t \in Executors => Answered(l, answer[t]),
           UniqueIds /\ l \in {"route", "run"} /\ r.state \notin Terminal => r.target,
           t \in Cancellers => r.state \in Terminal
    PROVE  EarnedInv'
<1>1. /\ IdOf[t] \in Ids
      /\ records'[IdOf[t]] = r
      /\ \A id \in Ids : id # IdOf[t] => records'[id] = records[id]
      /\ held'[t] = r /\ pc'[t] = l
      /\ \A u \in Threads : u # t => held'[u] = held[u] /\ pc'[u] = pc[u]
    BY WriteEffect
<1>2. \A id \in Ids : /\ Earned(id)' <=> Earned(id)
                      /\ Published(id, "EXECUTION_COMPLETED")' =>
                             Published(id, "EXECUTION_COMPLETED")
    BY DEF Earned, Published
<1>3. \A e \in Executors : e \in Threads /\ IdOf[e] \in Ids
    BY DEF TypeOK, Threads
<1>4. \A u \in Threads : IdOf[u] \in Ids
    BY DEF TypeOK
<1>5. \A id \in Ids :
         records'[id].state = "COMPLETED" \/ Published(id, "EXECUTION_COMPLETED")' => Earned(id)
    BY <1>1, <1>2 DEF EarnedInv
<1>6. \A u \in Threads : held'[u].state = "COMPLETED" => Earned(IdOf[u])
    BY <1>1 DEF EarnedInv
<1>7. \A e \in Executors : Answered(pc'[e], answer[e])
    BY <1>1, <1>3 DEF EarnedInv
<1>8. ASSUME UniqueIds, NEW e \in Executors, pc'[e] \in {"route", "run"},
             records'[IdOf[e]].state \notin Terminal
      PROVE  records'[IdOf[e]].target
    <2>1. CASE e = t
        BY <1>1, <1>8, <2>1
    <2>2. CASE e # t /\ IdOf[e] = IdOf[t]
        <3>1. t \in Cancellers
            BY <1>8, <2>2 DEF UniqueIds, Threads
        <3> QED
            BY <1>1, <1>8, <2>2, <3>1
    <2>3. CASE e # t /\ IdOf[e] # IdOf[t]
        BY <1>1, <1>3, <1>8, <2>3 DEF EarnedInv
    <2> QED
        BY <2>1, <2>2, <2>3
<1>9. UniqueIds => /\ \A id \in Ids : records'[id].started => records'[id].target
                   /\ \A u \in Threads : held'[u].started => held'[u].target
    BY <1>1 DEF EarnedInv
<1> QED
    BY <1>2, <1>4, <1>5, <1>6, <1>7, <1>8, <1>9 DEF EarnedInv, UniqueIds, Answered

\* Transitions: a completion follows a response, and a first RUNNING a route.
LEMMA TransitionEarned ==
    ASSUME TypeOK, EarnedInv, NEW t \in Threads, NEW to \in States,
           NEW from, NEW next, NEW otherwise,
           Transition(t, from, to, next, otherwise), UNCHANGED IdOf,
           t \in Executors => Answered(next, answer[t]) /\ Answered(otherwise, answer[t]),
           otherwise \notin {"route", "run"},
           next \in {"route", "run"} => t \in Executors /\ from = "route" /\ to = "ROUTED",
           to = "RUNNING" => t \in Executors /\ from = "run",
           to = "COMPLETED" => t \in Executors /\ from = "complete",
           t \in Cancellers => to \in Terminal
    PROVE  EarnedInv'
<1>0. pc[t] = from /\ UNCHANGED <<answer, events>>
    BY DEF Transition, Goto
<1>1. CASE UNCHANGED <<records, held>> /\ Goto(t, from, otherwise)
    BY <1>0, <1>1, QuietEarned DEF Goto, Published
<1>2. CASE update_state(t, to) /\ Goto(t, from, next)
    <2> DEFINE s == records[IdOf[t]]
               r == Moved(s, to)
    <2>1. s \in Record /\ Allowed(s, to) /\ IdOf[t] \in Ids
        BY <1>2 DEF update_state, TypeOK
    <2>2. r.state = to /\ r.target = s.target
        BY <2>1 DEF Moved, Record
    <2>3. r.started => s.started \/ (to = "RUNNING" /\ s.state # "RUNNING")
        BY <2>1 DEF Moved, Record
    <2>4. to \notin Terminal => s.state \notin Terminal
        BY <2>1 DEF Allowed, VALID_TRANSITIONS, Terminal, States
    <2>5. /\ records' = [records EXCEPT ![IdOf[t]] = r]
          /\ held' = [held EXCEPT ![t] = r]
          /\ pc' = [pc EXCEPT ![t] = next]
        BY <1>2 DEF update_state, Goto
    <2>6. UniqueIds /\ s.started => s.target
        BY <2>1 DEF EarnedInv
    <2>7. UniqueIds /\ from \in {"route", "run"} /\ t \in Executors /\ s.state \notin Terminal
             => s.target
        BY <1>0 DEF EarnedInv
    <2>8. to = "COMPLETED" => Earned(IdOf[t])
        BY <1>0 DEF EarnedInv, Answered, Completing, Earned
    <2>9. "ROUTED" \notin Terminal /\ "RUNNING" \notin Terminal
        BY DEF Terminal
    <2> HIDE DEF r, s
    <2>10. UniqueIds /\ r.started => r.target
        BY <2>2, <2>3, <2>4, <2>6, <2>7, <2>9
    <2>11. UniqueIds /\ next \in {"route", "run"} /\ r.state \notin Terminal => r.target
        BY <2>2, <2>4, <2>7
    <2> QED
        BY <1>0, <2>2, <2>5, <2>8, <2>10, <2>11, WriteEarned
<1> QED
    BY <1>1, <1>2 DEF Transition

\* Saves of the thread's own copy, its target and result aside.
LEMMA SaveEarned ==
    ASSUME TypeOK, EarnedInv, NEW t \in Threads, NEW l, NEW from, NEW r, save(t, r),
           Goto(t, from, l), UNCHANGED <<IdOf, contexts, answer, events>>,
           r.state = held[t].state, r.started => held[t].started,
           r.target \/ (~held[t].target /\ ~r.target),
           t \in Executors => Answered(l, answer[t]),
           l \in {"route", "run"} => r.target,
           t \in Cancellers => r.state \in Terminal
    PROVE  EarnedInv'
<1>1. /\ records' = [records EXCEPT ![IdOf[t]] = r]
      /\ held' = [held EXCEPT ![t] = r]
      /\ pc' = [pc EXCEPT ![t] = l]
    BY DEF save, Goto
<1>2. r.state = "COMPLETED" => Earned(IdOf[t])
    BY DEF EarnedInv
<1>3. UniqueIds /\ r.started => r.target
    BY DEF EarnedInv
<1> QED
    BY <1>1, <1>2, <1>3, WriteEarned

LEMMA ExecuteEarned ==
    ASSUME TypeOK, ResultInv, EarnedInv, NEW e \in Executors, execute(e)
    PROVE  EarnedInv'
<1>0. /\ e \in Threads /\ e \notin Cancellers /\ held[e] \in Record
      /\ Answered(pc[e], answer[e]) /\ UNCHANGED IdOf
    BY ThreadsAssumption DEF Threads, TypeOK, EarnedInv, execute
<1>1. CASE CreateContext(e)
    BY <1>0, <1>1, QuietEarned DEF CreateContext, Goto, Answered, BeforeCall, Completing, Published
<1>2. CASE CheckExists(e)
    <2>1. PICK l \in {"already_exists", "create"} : pc' = [pc EXCEPT ![e] = l]
        BY <1>2 DEF CheckExists, Goto
    <2>2. Answered(l, answer[e])
        BY <1>0, <1>2 DEF CheckExists, Goto, Answered, BeforeCall, Completing
    <2> QED
        BY <1>0, <1>2, <2>1, <2>2, QuietEarned DEF CheckExists, Published
<1>3. CASE SaveCreated(e)
    <2> DEFINE r == [Absent EXCEPT !.state = "CREATED"]
    <2>1. r.state = "CREATED" /\ ~r.started
        BY DEF Absent
    <2>2. save(e, r) /\ pc' = [pc EXCEPT ![e] = "initialize"] /\ UNCHANGED <<answer, events>>
        BY <1>3 DEF SaveCreated, Goto
    <2>3. Answered("initialize", answer[e])
        BY <1>0, <1>3 DEF SaveCreated, Goto, Answered, BeforeCall, Completing
    <2> HIDE DEF r
    <2> QED
        BY <1>0, <2>1, <2>2, <2>3, WriteEarned DEF save
<1>4. CASE SaveResolution(e)
    <2>1. PICK l \in {"select", "reject"} : Goto(e, "resolve", l)
        BY <1>4 DEF SaveResolution
    <2>2. Answered(l, answer[e])
        BY <1>0, <2>1 DEF Goto, Answered, BeforeCall, Completing
    <2>3. held[e].target \/ ~held[e].target
        OBVIOUS
    <2> QED
        BY <1>0, <1>4, <2>1, <2>2, <2>3, SaveEarned DEF SaveResolution
<1>5. CASE Initialize(e)
    BY <1>0, <1>5, TransitionEarned
    DEF Initialize, Transition, Goto, States, Answered, BeforeCall, Completing
<1>6. CASE Reject(e)
    BY <1>0, <1>6, TransitionEarned
    DEF Reject, Transition, Goto, States, Answered, BeforeCall, Completing
<1>7. CASE Route(e)
    BY <1>0, <1>7, TransitionEarned, SMTT(30)
    DEF Route, Transition, Goto, States, Answered, BeforeCall, Completing
<1>8. CASE Run(e)
    BY <1>0, <1>8, TransitionEarned
    DEF Run, Transition, Goto, States, Answered, BeforeCall, Completing
<1>9. CASE Complete(e)
    BY <1>0, <1>9, TransitionEarned
    DEF Complete, Transition, Goto, States, Answered, BeforeCall, Completing
<1>10. CASE Fail(e)
    BY <1>0, <1>10, TransitionEarned
    DEF Fail, Transition, Goto, States, Answered, BeforeCall, Completing
<1>11. CASE SaveRejected(e) \/ SaveFailed(e)
    <2> DEFINE r == [held[e] EXCEPT !.error = TRUE, !.result = "FAILED"]
    <2>1. /\ r.state = held[e].state /\ r.started = held[e].started
          /\ r.target = held[e].target
        BY <1>0 DEF Record
    <2>2. PICK from \in {"save_rejected", "save_failed"},
              l \in {"publish_rejected", "publish_failed"} :
              /\ save(e, r) /\ Goto(e, from, l) /\ UNCHANGED <<contexts, answer, events>>
              /\ Answered(l, answer[e])
        BY <1>0, <1>11
        DEF SaveRejected, SaveFailed, Goto, Answered, BeforeCall, Completing
    <2> HIDE DEF r
    <2> QED
        BY <1>0, <2>1, <2>2, SaveEarned
<1>12. CASE SaveRoute(e)
    <2> DEFINE r == [held[e] EXCEPT !.target = TRUE]
    <2>1. r.state = held[e].state /\ r.started = held[e].started /\ r.target
        BY <1>0 DEF Record
    <2>2. /\ save(e, r) /\ Goto(e, "select", "route") /\ UNCHANGED <<contexts, answer, events>>
          /\ Answered("route", answer[e])
        BY <1>0, <1>12 DEF SaveRoute, Goto, Answered, BeforeCall, Completing
    <2> HIDE DEF r
    <2> QED
        BY <1>0, <2>1, <2>2, SaveEarned
<1>13. CASE SaveCompleted(e)
    <2> DEFINE r == [held[e] EXCEPT !.result = "COMPLETED"]
    <2>1. /\ r.state = held[e].state /\ r.started = held[e].started
          /\ r.target = held[e].target
        BY <1>0 DEF Record
    <2>2. /\ save(e, r) /\ Goto(e, "save_completed", "publish_completed")
          /\ UNCHANGED <<contexts, answer, events>>
          /\ Answered("publish_completed", answer[e])
        BY <1>0, <1>13 DEF SaveCompleted, Goto, Answered, BeforeCall, Completing
    <2> HIDE DEF r
    <2> QED
        BY <1>0, <2>1, <2>2, SaveEarned
<1>14. ASSUME NEW from, NEW next, NEW type, NEW sequence,
              _publish_event(e, from, type, sequence, next),
              Answered(next, answer[e]), next \notin {"route", "run"},
              type = "EXECUTION_COMPLETED" => answer[e] = "response"
       PROVE  EarnedInv'
    <2>1. pc' = [pc EXCEPT ![e] = next] /\ UNCHANGED <<records, held, answer>>
        BY <1>14 DEF _publish_event, Goto
    <2>2. ASSUME NEW id \in Ids, Published(id, "EXECUTION_COMPLETED")'
          PROVE  Published(id, "EXECUTION_COMPLETED") \/ Earned(id)
        <3> DEFINE event == [type |-> type, sequence |-> sequence, by |-> e]
        <3>1. CASE events'[id] = events[id]
            BY <2>2, <3>1 DEF Published
        <3>2. CASE id = IdOf[e] /\ events'[id] = Append(events[id], event)
            <4>1. events[id] \in Seq(Event)
                BY DEF TypeOK
            <4>2. PICK i \in DOMAIN events'[id] : events'[id][i].type = "EXECUTION_COMPLETED"
                BY <2>2 DEF Published
            <4>3. event.type = type
                OBVIOUS
            <4> HIDE DEF event
            <4>4. \/ i \in DOMAIN events[id] /\ events'[id][i] = events[id][i]
                  \/ events'[id][i] = event
                BY <3>2, <4>1, <4>2
            <4> QED
                BY <1>14, <3>2, <4>2, <4>3, <4>4 DEF Published, Earned
        <3>3. \/ events'[id] = events[id]
              \/ id = IdOf[e] /\ events'[id] = Append(events[id], event)
            BY <1>14 DEF _publish_event, TypeOK
        <3> QED
            BY <3>1, <3>2, <3>3
    <2> QED
        BY <1>0, <1>14, <2>1, <2>2, QuietEarned
<1>15. CASE PublishRejected(e)
    <2>1. _publish_event(e, "publish_rejected", "EXECUTION_FAILED", 0, "returned_failed")
        BY <1>15 DEF PublishRejected
    <2>2. Answered("returned_failed", answer[e])
        BY <1>0, <2>1 DEF _publish_event, Goto, Answered, BeforeCall, Completing
    <2> QED
        BY <1>14, <2>1, <2>2
<1>16. CASE PublishStarted(e)
    <2>1. _publish_event(e, "publish_started", "EXECUTION_STARTED", 0, "call")
        BY <1>16 DEF PublishStarted
    <2>2. Answered("call", answer[e])
        BY <1>0, <2>1 DEF _publish_event, Goto, Answered, BeforeCall, Completing
    <2> QED
        BY <1>14, <2>1, <2>2
<1>17. CASE PublishCompleted(e)
    <2>1. _publish_event(e, "publish_completed", "EXECUTION_COMPLETED", 1, "returned_completed")
        BY <1>17 DEF PublishCompleted
    <2>2. Answered("returned_completed", answer[e])
        BY <1>0, <2>1 DEF _publish_event, Goto, Answered, BeforeCall, Completing
    <2>3. answer[e] = "response"
        BY <1>0, <2>1 DEF _publish_event, Goto, Answered, Completing
    <2> QED
        BY <1>14, <2>1, <2>2, <2>3
<1>18. CASE PublishFailed(e)
    <2>1. _publish_event(e, "publish_failed", "EXECUTION_FAILED", 1, "returned_failed")
        BY <1>18 DEF PublishFailed
    <2>2. Answered("returned_failed", answer[e])
        BY <1>0, <2>1 DEF _publish_event, Goto, Answered, BeforeCall, Completing
    <2> QED
        BY <1>14, <2>1, <2>2
<1>19. CASE CallProvider(e)
    <2>1. PICK a \in {"response", "error"}, l \in {"complete", "fail"} :
              /\ answer' = [answer EXCEPT ![e] = a]
              /\ pc' = [pc EXCEPT ![e] = l]
              /\ l = "complete" => a = "response"
        BY <1>19 DEF CallProvider, Goto
    <2>2. answer[e] = "none" /\ UNCHANGED <<records, held, events>>
        BY <1>0, <1>19 DEF CallProvider, Goto, Answered, BeforeCall
    <2>3. /\ pc'[e] = l /\ \A u \in Threads : u # e => pc'[u] = pc[u]
          /\ answer'[e] = a /\ \A f \in Executors : f # e => answer'[f] = answer[f]
        BY <1>0, <2>1 DEF TypeOK
    <2>4. \A id : Earned(id) => Earned(id)'
        BY <1>0, <2>2, <2>3 DEF Earned
    <2>5. \A f \in Executors : Answered(pc'[f], answer'[f])
        BY <2>1, <2>3 DEF EarnedInv, Answered, BeforeCall, Completing, Threads
    <2>6. \A f \in Executors : pc'[f] \in {"route", "run"} => pc[f] \in {"route", "run"}
        BY <2>3 DEF Threads
    <2> QED
        BY <1>0, <2>2, <2>4, <2>5, <2>6 DEF EarnedInv, UniqueIds, Published, Answered
<1> QED
    BY <1>1, <1>2, <1>3, <1>4, <1>5, <1>6, <1>7, <1>8, <1>9, <1>10, <1>11, <1>12, <1>13,
       <1>15, <1>16, <1>17, <1>18, <1>19 DEF execute

LEMMA CancelEarned ==
    ASSUME TypeOK, ResultInv, EarnedInv, NEW c \in Cancellers, cancel_execution(c)
    PROVE  EarnedInv'
<1>0. /\ c \in Threads /\ c \notin Executors /\ held[c] \in Record
      /\ Fit(pc[c], held[c]) /\ UNCHANGED IdOf
    BY ThreadsAssumption DEF Threads, TypeOK, ResultInv, cancel_execution
<1>1. CASE BeginCancel(c)
    <2>1. PICK l \in {"not_found", "refused", "cancel"} : pc' = [pc EXCEPT ![c] = l]
        BY <1>1 DEF BeginCancel, Goto
    <2> QED
        BY <1>0, <1>1, <2>1, QuietEarned DEF BeginCancel, Published
<1>2. CASE Cancel(c)
    BY <1>0, <1>2, TransitionEarned DEF Cancel, States, Terminal
<1>3. CASE SaveCancelled(c)
    <2> DEFINE r == [held[c] EXCEPT !.cancelledBy = c,
                                    !.result = IF @ = "NONE" THEN "STOPPED" ELSE @]
    <2>1. /\ held[c].state = "CANCELLED" /\ save(c, r)
          /\ Goto(c, "save_cancelled", "returned") /\ UNCHANGED <<contexts, answer, events>>
        BY <1>0, <1>3 DEF SaveCancelled, Goto, Fit
    <2>2. /\ r.state = held[c].state /\ r.started = held[c].started
          /\ r.target = held[c].target
        BY <1>0 DEF Record
    <2>3. "CANCELLED" \in Terminal
        BY DEF Terminal
    <2> HIDE DEF r
    <2> QED
        BY <1>0, <2>1, <2>2, <2>3, SaveEarned
<1> QED
    BY <1>1, <1>2, <1>3 DEF cancel_execution

LEMMA NextEarned == TypeOK /\ ResultInv /\ EarnedInv /\ [Next]_vars => EarnedInv'
<1> SUFFICES ASSUME TypeOK, ResultInv, EarnedInv, [Next]_vars PROVE EarnedInv'
    OBVIOUS
<1>1. CASE Quiescent \/ UNCHANGED vars
    BY <1>1 DEF Quiescent, vars, EarnedInv, Earned, Published, Answered, UniqueIds
<1>2. CASE \E e \in Executors : execute(e)
    BY <1>2, ExecuteEarned
<1>3. CASE \E c \in Cancellers : cancel_execution(c)
    BY <1>3, CancelEarned
<1> QED
    BY <1>1, <1>2, <1>3 DEF Next

LEMMA InitEarned == Init => EarnedInv
<1> SUFFICES ASSUME Init PROVE EarnedInv
    OBVIOUS
<1>1. \A id \in Ids : events[id] = <<>> /\ DOMAIN events[id] = {}
    BY EmptySeq DEF Init
<1> QED
    BY <1>1, ThreadsAssumption
    DEF Init, EarnedInv, Published, Answered, BeforeCall, Completing, Absent, Threads

\* COMPLETED is recorded and announced only for a response of the provider,
\* and an execution with an id of its own runs only with its target.
THEOREM OutcomesEarned == Spec => []OutcomesAreEarned
<1>1. EarnedInv => OutcomesAreEarned
    BY DEF EarnedInv, OutcomesAreEarned, Earned
<1> QED
    BY <1>1, InitType, NextType, InitResult, NextResult, InitEarned, NextEarned, PTL DEF Spec

-----------------------------------------------------------------------------
(***************************************************************************)
(* A cancellation of a running execution is final.                         *)
(***************************************************************************)
\* The record was cancelled while it was RUNNING.
Struck(r) ==
    r.transitions # <<>> /\ r.transitions[Len(r.transitions)] = <<"RUNNING", "CANCELLED">>

Past == {"publish_started", "call", "complete", "fail"}

\* A record is RUNNING only while its one executor is between its move to
\* RUNNING and the end of its call, where it saves no copy; so once a record
\* was cancelled there, or a thread holds a copy of that, the executor has
\* nothing left to write.
StruckInv ==
    UniqueIds =>
        \A e \in Executors :
            LET id == IdOf[e]
            IN /\ records[id].state = "RUNNING" => pc[e] \in Past
               /\ \/ Struck(records[id])
                  \/ \E t \in Threads : IdOf[t] = id /\ Struck(held[t])
                  => records[id].state = "CANCELLED" /\ pc[e] \in Past \cup {"raised"}

\* An audited record that was struck is still CANCELLED.
LEMMA StruckState ==
    ASSUME NEW r, AuditChain(r), Struck(r)
    PROVE  r.state = "CANCELLED"
BY DEF AuditChain, Struck

\* A step that writes no record and takes no executor out of its range.
LEMMA QuietStruck ==
    ASSUME TypeOK, StruckInv, NEW t \in Threads, NEW l,
           UNCHANGED <<IdOf, records, held>>,
           pc' = [pc EXCEPT ![t] = l],
           t \in Executors =>
               /\ pc[t] \in Past /\ records[IdOf[t]].state = "RUNNING" => l \in Past
               /\ pc[t] \in Past \cup {"raised"} => l \in Past \cup {"raised"}
    PROVE  StruckInv'
<1>1. pc'[t] = l /\ \A u \in Threads : u # t => pc'[u] = pc[u]
    BY DEF TypeOK
<1>2. \A e \in Executors : e \in Threads
    BY DEF Threads
<1> QED
    BY <1>1, <1>2 DEF StruckInv, UniqueIds, Struck

\* An executor writes a record that is not CANCELLED.
LEMMA ExecutorStruck ==
    ASSUME TypeOK, AuditTrail, AuditTrail', StruckInv, NEW e \in Executors, NEW l, NEW r,
           records' = [records EXCEPT ![IdOf[e]] = r],
           held' = [held EXCEPT ![e] = r],
           pc' = [pc EXCEPT ![e] = l],
           UNCHANGED IdOf,
           r.state # "CANCELLED",
           r.state = "RUNNING" => l \in Past,
           pc[e] \notin Past \cup {"raised"} \/ records[IdOf[e]].state # "CANCELLED"
    PROVE  StruckInv'
<1>0. e \in Threads /\ IdOf[e] \in Ids
    BY DEF TypeOK, Threads
<1>1. /\ records'[IdOf[e]] = r
      /\ \A id \in Ids : id # IdOf[e] => records'[id] = records[id]
      /\ held'[e] = r /\ pc'[e] = l
      /\ \A u \in Threads : u # e => held'[u] = held[u] /\ pc'[u] = pc[u]
    BY <1>0, WriteEffect
<1>2. ~Struck(r)
    <2>1. AuditChain(r)
        BY <1>0, <1>1 DEF AuditTrail, AuditChain
    <2> QED
        BY <2>1, StruckState
<1>3. ASSUME UniqueIds, NEW f \in Executors
      PROVE  /\ records'[IdOf[f]].state = "RUNNING" => pc'[f] \in Past
             /\ Struck(records'[IdOf[f]])
                   \/ (\E t \in Threads : IdOf[t] = IdOf[f] /\ Struck(held'[t]))
                  => records'[IdOf[f]].state = "CANCELLED" /\ pc'[f] \in Past \cup {"raised"}
    <2>1. f \in Threads /\ IdOf[f] \in Ids
        BY DEF TypeOK, Threads
    <2>2. CASE f = e
        <3>1. \A t \in Threads : IdOf[t] = IdOf[e] => ~Struck(held[t])
            BY <1>3 DEF StruckInv
        <3>2. \A t \in Threads : IdOf[t] = IdOf[e] => ~Struck(held'[t])
            BY <1>1, <1>2, <3>1
        <3> QED
            BY <1>1, <1>2, <2>2, <3>2
    <2>3. CASE f # e
        <3>1. IdOf[f] # IdOf[e]
            BY <1>3, <2>3 DEF UniqueIds
        <3>2. \A t \in Threads : IdOf[t] = IdOf[f] => held'[t] = held[t]
            BY <1>1, <3>1
        <3> QED
            BY <1>1, <1>3, <2>1, <2>3, <3>1, <3>2 DEF StruckInv
    <2> QED
        BY <2>2, <2>3
<1> QED
    BY <1>3 DEF StruckInv, UniqueIds, Struck

\* A canceller writes a CANCELLED record, its own or the moved one.
LEMMA CancellerStruck ==
    ASSUME TypeOK, StruckInv, NEW c \in Cancellers, NEW l, NEW r,
           records' = [records EXCEPT ![IdOf[c]] = r],
           held' = [held EXCEPT ![c] = r],
           pc' = [pc EXCEPT ![c] = l],
           UNCHANGED IdOf,
           r.state = "CANCELLED",
           Struck(r) => \/ Struck(held[c])
                        \/ Struck(records[IdOf[c]])
                        \/ records[IdOf[c]].state = "RUNNING"
    PROVE  StruckInv'
<1>0. c \in Threads /\ IdOf[c] \in Ids /\ c \notin Executors
    BY ThreadsAssumption DEF TypeOK, Threads
<1>1. /\ records'[IdOf[c]] = r
      /\ \A id \in Ids : id # IdOf[c] => records'[id] = records[id]
      /\ held'[c] = r /\ pc'[c] = l
      /\ \A u \in Threads : u # c => held'[u] = held[u] /\ pc'[u] = pc[u]
    BY <1>0 DEF TypeOK
<1>2. ASSUME UniqueIds, NEW f \in Executors
      PROVE  /\ records'[IdOf[f]].state = "RUNNING" => pc'[f] \in Past
             /\ Struck(records'[IdOf[f]])
                   \/ (\E t \in Threads : IdOf[t] = IdOf[f] /\ Struck(held'[t]))
                  => records'[IdOf[f]].state = "CANCELLED" /\ pc'[f] \in Past \cup {"raised"}
    <2>1. f \in Threads /\ IdOf[f] \in Ids /\ pc'[f] = pc[f]
        BY <1>0, <1>1 DEF TypeOK, Threads
    <2>2. CASE IdOf[f] = IdOf[c]
        <3>1. Struck(r) \/ (\E t \in Threads : IdOf[t] = IdOf[f] /\ Struck(held'[t]))
                 => pc[f] \in Past \cup {"raised"}
            BY <1>0, <1>1, <1>2, <2>2 DEF StruckInv
        <3> QED
            BY <1>1, <2>1, <2>2, <3>1
    <2>3. CASE IdOf[f] # IdOf[c]
        <3>1. \A t \in Threads : IdOf[t] = IdOf[f] => held'[t] = held[t]
            BY <1>1, <2>3
        <3> QED
            BY <1>1, <1>2, <2>1, <2>3, <3>1 DEF StruckInv
    <2> QED
        BY <2>2, <2>3
<1> QED
    BY <1>2 DEF StruckInv, UniqueIds, Struck

\* A transition of an executor, none of which cancels.
LEMMA TransitionStruck ==
    ASSUME TypeOK, AuditTrail, AuditTrail', StruckInv, NEW e \in Executors,
           NEW to \in States, NEW from, NEW next, NEW otherwise,
           Transition(e, from, to, next, otherwise), UNCHANGED IdOf,
           to # "CANCELLED",
           to = "RUNNING" => next \in Past,
           from \in Past => otherwise \in Past \cup {"raised"},
           from \in Past => to \in VALID_TRANSITIONS["RUNNING"],
           from # "raised"
    PROVE  StruckInv'
<1>0. e \in Threads /\ IdOf[e] \in Ids /\ pc[e] = from
    BY DEF Threads, TypeOK, Transition, Goto
<1>1. CASE /\ ~Allowed(records[IdOf[e]], to) /\ Goto(e, from, otherwise)
           /\ UNCHANGED <<records, held>>
    <2>1. from \in Past => records[IdOf[e]].state # "RUNNING"
        BY <1>1 DEF Allowed, States
    <2> QED
        BY <1>0, <1>1, <2>1, QuietStruck DEF Goto
<1>2. CASE update_state(e, to) /\ Goto(e, from, next)
    <2> DEFINE s == records[IdOf[e]]
               r == Moved(s, to)
    <2>1. s \in Record /\ Allowed(s, to)
        BY <1>0, <1>2 DEF update_state, TypeOK
    <2>2. r.state = to
        BY <2>1 DEF Moved, Record
    <2>3. s.state # "CANCELLED"
        BY <2>1 DEF Allowed, VALID_TRANSITIONS, States
    <2>4. /\ records' = [records EXCEPT ![IdOf[e]] = r]
          /\ held' = [held EXCEPT ![e] = r]
          /\ pc' = [pc EXCEPT ![e] = next]
        BY <1>2 DEF update_state, Goto
    <2> HIDE DEF r
    <2> QED
        BY <2>2, <2>3, <2>4, ExecutorStruck
<1> QED
    BY <1>1, <1>2 DEF Transition

LEMMA ExecuteStruck ==
    ASSUME TypeOK, AuditTrail, AuditTrail', ResultInv, StruckInv,
           NEW e \in Executors, execute(e)
    PROVE  StruckInv'
<1>0. e \in Threads /\ held[e] \in Record /\ Fit(pc[e], held[e]) /\ UNCHANGED IdOf
    BY DEF Threads, TypeOK, ResultInv, execute
<1>1. CASE CreateContext(e)
    BY <1>0, <1>1, QuietStruck DEF CreateContext, Goto, Past
<1>2. CASE CheckExists(e)
    <2>1. PICK l : pc' = [pc EXCEPT ![e] = l]
        BY <1>2 DEF CheckExists, Goto
    <2> QED
        BY <1>0, <1>2, <2>1, QuietStruck DEF CheckExists, Goto, Past
<1>3. ASSUME NEW r, NEW from, NEW l, save(e, r), Goto(e, from, l),
             r.state \notin {"CANCELLED", "RUNNING"}, from \notin Past \cup {"raised"}
      PROVE  StruckInv'
    BY <1>0, <1>3, ExecutorStruck DEF save, Goto
<1>4. CASE SaveCreated(e)
    <2>1. [Absent EXCEPT !.state = "CREATED"].state = "CREATED"
        BY DEF Absent
    <2> QED
        BY <1>3, <1>4, <2>1 DEF SaveCreated, Past
<1>5. CASE SaveResolution(e)
    <2>1. held[e].state = "INITIALIZING"
        BY <1>0, <1>5 DEF SaveResolution, Goto, Fit
    <2> QED
        BY <1>3, <1>5, <2>1 DEF SaveResolution, Past
<1>6. CASE SaveRejected(e) \/ SaveFailed(e)
    <2>1. held[e].state = "FAILED"
        BY <1>0, <1>6 DEF SaveRejected, SaveFailed, Goto, Fit
    <2>2. [held[e] EXCEPT !.error = TRUE, !.result = "FAILED"].state = "FAILED"
        BY <1>0, <2>1 DEF Record
    <2> QED
        BY <1>3, <1>6, <2>2 DEF SaveRejected, SaveFailed, Past
<1>7. CASE SaveRoute(e)
    <2>1. held[e].state = "INITIALIZING"
        BY <1>0, <1>7 DEF SaveRoute, Goto, Fit
    <2>2. [held[e] EXCEPT !.target = TRUE].state = "INITIALIZING"
        BY <1>0, <2>1 DEF Record
    <2> QED
        BY <1>3, <1>7, <2>2 DEF SaveRoute, Past
<1>8. CASE SaveCompleted(e)
    <2>1. held[e].state = "COMPLETED"
        BY <1>0, <1>8 DEF SaveCompleted, Goto, Fit
    <2>2. [held[e] EXCEPT !.result = "COMPLETED"].state = "COMPLETED"
        BY <1>0, <2>1 DEF Record
    <2> QED
        BY <1>3, <1>8, <2>2 DEF SaveCompleted, Past
<1>9. CASE Initialize(e)
    BY <1>0, <1>9, TransitionStruck DEF Initialize, States, Past
<1>10. CASE Reject(e)
    BY <1>0, <1>10, TransitionStruck DEF Reject, States, Past
<1>11. CASE Route(e)
    BY <1>0, <1>11, TransitionStruck DEF Route, States, Past
<1>12. CASE Run(e)
    BY <1>0, <1>12, TransitionStruck DEF Run, States, Past
<1>13. CASE Complete(e)
    BY <1>0, <1>13, TransitionStruck DEF Complete, States, Past, VALID_TRANSITIONS
<1>14. CASE Fail(e)
    BY <1>0, <1>14, TransitionStruck DEF Fail, States, Past, VALID_TRANSITIONS
<1>15. CASE PublishRejected(e) \/ PublishStarted(e) \/ PublishCompleted(e) \/ PublishFailed(e)
    <2>1. /\ UNCHANGED <<records, held>>
          /\ \E l : /\ pc' = [pc EXCEPT ![e] = l]
                    /\ pc[e] \in Past \cup {"raised"} => l \in Past
        BY <1>15
        DEF PublishRejected, PublishStarted, PublishCompleted, PublishFailed,
            _publish_event, Goto, Past
    <2> QED
        BY <1>0, <2>1, QuietStruck
<1>16. CASE CallProvider(e)
    <2>1. PICK l \in {"complete", "fail"} : pc' = [pc EXCEPT ![e] = l]
        BY <1>16 DEF CallProvider, Goto
    <2> QED
        BY <1>0, <1>16, <2>1, QuietStruck DEF CallProvider, Past
<1> QED
    BY <1>1, <1>2, <1>4, <1>5, <1>6, <1>7, <1>8, <1>9, <1>10, <1>11, <1>12, <1>13, <1>14,
       <1>15, <1>16 DEF execute

\* What a canceller writes: a record of its own id, in state CANCELLED, that
\* was struck before or is struck now.
LEMMA CancelWrite ==
    ASSUME TypeOK, ResultInv, NEW c \in Cancellers, cancel_execution(c)
    PROVE  \E l : /\ pc' = [pc EXCEPT ![c] = l]
                  /\ \/ UNCHANGED <<records, held>>
                     \/ \E r : /\ records' = [records EXCEPT ![IdOf[c]] = r]
                               /\ held' = [held EXCEPT ![c] = r]
                               /\ r.state = "CANCELLED"
                               /\ Struck(r) => \/ Struck(held[c])
                                               \/ Struck(records[IdOf[c]])
                                               \/ records[IdOf[c]].state = "RUNNING"
<1>0. c \in Threads /\ IdOf[c] \in Ids /\ held[c] \in Record /\ Fit(pc[c], held[c])
    BY DEF Threads, TypeOK, ResultInv
<1>1. CASE BeginCancel(c)
    BY <1>1 DEF BeginCancel, Goto
<1>2. CASE Cancel(c)
    <2> DEFINE s == records[IdOf[c]]
               r == Moved(s, "CANCELLED")
    <2>1. CASE update_state(c, "CANCELLED") /\ Goto(c, "cancel", "save_cancelled")
        <3>1. s \in Record
            BY <1>0 DEF TypeOK
        <3>2. r.state = "CANCELLED"
            BY <3>1 DEF Moved, Record
        <3>3. ASSUME Struck(r), ~Struck(s)
              PROVE  s.state = "RUNNING"
            <4>1. s.state # "CANCELLED" /\ r.transitions = Append(s.transitions, <<s.state, "CANCELLED">>)
                BY <3>1, <3>3 DEF Moved, Record
            <4>2. s.transitions \in Seq(States \X States) /\ s.state \in States
                BY <2>1, <3>1, <4>1 DEF Record, update_state, Allowed
            <4>3. r.transitions[Len(r.transitions)] = <<s.state, "CANCELLED">>
              <5> DEFINE old == s.transitions
                         new == r.transitions
                         p == <<s.state, "CANCELLED">>
              <5>1. old \in Seq(States \X States) /\ p \in States \X States /\ new = Append(old, p)
                  BY <4>1, <4>2 DEF States
              <5> HIDE DEF old, new, p
              <5>2. Len(Append(old, p)) = Len(old) + 1 /\ Append(old, p)[Len(old) + 1] = p
                  BY <5>1, AppendProperties
              <5> QED
                  BY <5>1, <5>2 DEF new, p
            <4>4. r.transitions[Len(r.transitions)] = <<"RUNNING", "CANCELLED">>
                BY <3>3 DEF Struck
            <4> QED
                BY <4>3, <4>4
        <3>4. /\ records' = [records EXCEPT ![IdOf[c]] = r]
              /\ held' = [held EXCEPT ![c] = r]
              /\ pc' = [pc EXCEPT ![c] = "save_cancelled"]
            BY <2>1 DEF update_state, Goto
        <3> HIDE DEF r, s
        <3> QED
            BY <3>2, <3>3, <3>4 DEF s
    <2>2. CASE UNCHANGED <<records, held>>
        BY <1>2, <2>2 DEF Cancel, Transition, Goto
    <2> QED
        BY <1>2, <2>1, <2>2 DEF Cancel, Transition
<1>3. CASE SaveCancelled(c)
    <2> DEFINE r == [held[c] EXCEPT !.cancelledBy = c,
                                    !.result = IF @ = "NONE" THEN "STOPPED" ELSE @]
    <2>1. held[c].state = "CANCELLED" /\ save(c, r) /\ pc' = [pc EXCEPT ![c] = "returned"]
        BY <1>0, <1>3 DEF SaveCancelled, Goto, Fit
    <2>2. r.state = "CANCELLED" /\ r.transitions = held[c].transitions
        BY <1>0, <2>1 DEF Record
    <2> HIDE DEF r
    <2> QED
        BY <2>1, <2>2 DEF save, Struck
<1> QED
    BY <1>1, <1>2, <1>3 DEF cancel_execution

LEMMA CancelStruck ==
    ASSUME TypeOK, ResultInv, StruckInv, NEW c \in Cancellers, cancel_execution(c)
    PROVE  StruckInv'
<1>0. c \in Threads /\ c \notin Executors /\ UNCHANGED IdOf
    BY ThreadsAssumption DEF Threads, cancel_execution
<1>1. PICK l : /\ pc' = [pc EXCEPT ![c] = l]
               /\ \/ UNCHANGED <<records, held>>
                  \/ \E r : /\ records' = [records EXCEPT ![IdOf[c]] = r]
                            /\ held' = [held EXCEPT ![c] = r]
                            /\ r.state = "CANCELLED"
                            /\ Struck(r) => \/ Struck(held[c])
                                            \/ Struck(records[IdOf[c]])
                                            \/ records[IdOf[c]].state = "RUNNING"
    BY CancelWrite
<1>2. CASE UNCHANGED <<records, held>>
    BY <1>0, <1>1, <1>2, QuietStruck
<1> QED
    BY <1>0, <1>1, <1>2, CancellerStruck

LEMMA NextStruck ==
    TypeOK /\ AuditTrail /\ AuditTrail' /\ ResultInv /\ StruckInv /\ [Next]_vars => StruckInv'
<1> SUFFICES ASSUME TypeOK, AuditTrail, AuditTrail', ResultInv, StruckInv, [Next]_vars
             PROVE  StruckInv'
    OBVIOUS
<1>1. CASE Quiescent \/ UNCHANGED vars
    <2>1. UNCHANGED <<IdOf, records, held, pc>>
        BY <1>1 DEF Quiescent, vars
    <2> QED
        BY <2>1 DEF StruckInv, UniqueIds, Struck
<1>2. CASE \E e \in Executors : execute(e)
    BY <1>2, ExecuteStruck
<1>3. CASE \E c \in Cancellers : cancel_execution(c)
    BY <1>3, CancelStruck
<1> QED
    BY <1>1, <1>2, <1>3 DEF Next

\* What StruckInv says of the next step: no thread brings a struck record back.
LEMMA StruckStays ==
    ASSUME TypeOK, AuditTrail, AuditTrail', ResultInv, StruckInv, StruckInv', [Next]_vars,
           UniqueIds, NEW id \in Ids, Struck(records[id])
    PROVE  records'[id].state = "CANCELLED"
<1>0. records[id].state = "CANCELLED"
    BY StruckState DEF AuditTrail
<1>1. CASE UNCHANGED records
    BY <1>0, <1>1
<1>2. ASSUME NEW c \in Cancellers, cancel_execution(c)
      PROVE  records'[id].state = "CANCELLED"
    <2>1. \/ UNCHANGED records
          \/ \E r : records' = [records EXCEPT ![IdOf[c]] = r] /\ r.state = "CANCELLED"
        BY <1>2, CancelWrite
    <2> QED
        BY <1>0, <2>1 DEF TypeOK
<1>3. ASSUME NEW e \in Executors, execute(e)
      PROVE  records'[id].state = "CANCELLED"
    <2>1. UNCHANGED <<records, held>> \/ \E r : Writes(e, r)
        BY <1>3, ExecuteWrites
    <2>2. CASE IdOf[e] # id
        BY <1>0, <2>1, <2>2 DEF Writes, TypeOK
    <2>3. CASE IdOf[e] = id
        <3>1. pc[e] \in Past \cup {"raised"}
            BY <2>3 DEF StruckInv
        <3>2. ~Allowed(records[id], "COMPLETED") /\ ~Allowed(records[id], "FAILED")
            BY <1>0 DEF Allowed, VALID_TRANSITIONS, States
        <3>3. PublishStarted(e) \/ CallProvider(e) \/ Complete(e) \/ Fail(e)
            BY <1>3, <3>1
            DEF execute, Past, CreateContext, CheckExists, SaveCreated, Initialize,
                SaveResolution, Reject, SaveRejected, PublishRejected, SaveRoute, Route, Run,
                SaveCompleted, PublishCompleted, SaveFailed, PublishFailed,
                Transition, _publish_event, Goto
        <3>4. UNCHANGED records
            BY <2>3, <3>2, <3>3
            DEF PublishStarted, CallProvider, Complete, Fail, Transition, update_state,
                _publish_event
        <3> QED
            BY <1>1, <3>4
    <2> QED
        BY <2>2, <2>3
<1> QED
    BY <1>1, <1>2, <1>3 DEF Next, Quiescent, vars

\* A cancellation that reached a RUNNING record is final, whatever copies
\* other threads still hold, as long as no two executors share an id.
THEOREM CancelSticks == Spec => CancelOfRunningSticks
<1>1. Init => StruckInv
    <2> SUFFICES ASSUME Init PROVE StruckInv
        OBVIOUS
    <2>1. ~Struck(Absent) /\ Absent.state = "ABSENT"
        BY DEF Struck, Absent
    <2>2. \A e \in Executors : IdOf[e] \in Ids
        BY ThreadsAssumption DEF Init, Threads
    <2>3. (\A id \in Ids : records[id] = Absent) /\ \A t \in Threads : held[t] = Absent
        BY DEF Init
    <2> QED
        BY <2>1, <2>2, <2>3 DEF StruckInv
<1>2. Init => AuditTrail
    BY EmptyTrail DEF Init, AuditTrail
<1>3. TypeOK /\ AuditTrail /\ AuditTrail' /\ ResultInv /\ StruckInv /\ StruckInv' /\ [Next]_vars
         => [\A id \in Ids :
                LET log == records[id].transitions
                IN (UniqueIds /\ log # <<>> /\ log[Len(log)] = <<"RUNNING", "CANCELLED">>) =>
                      records'[id].state = "CANCELLED"]_vars
    BY StruckStays DEF Struck
<1> QED
    BY <1>1, <1>2, <1>3, InitType, NextType, NextTrail, InitResult, NextResult, NextStruck, PTL
    DEF Spec, CancelOfRunningSticks

-----------------------------------------------------------------------------
(***************************************************************************)
(* Theorems about executions that have their id to themselves and whose    *)
(* callers cancel only what they were told has started: the lifecycle      *)
(* implements the safety part of LifecyclePromise, for any number of       *)
(* executions and cancellers, and on a bus that may refuse events.         *)
(***************************************************************************)
\* The discipline of the callers.  IdOf never changes, so neither does this.
Alone == CancelAfterStart /\ UniqueIds

\* The stored state of an execution, by the label of its one executor.
Agrees(l, s) ==
    /\ l \in {"start", "check", "create"} => s = "ABSENT"
    /\ l = "initialize" => s = "CREATED"
    /\ l \in {"resolve", "select", "reject", "route"} => s = "INITIALIZING"
    /\ l = "run" => s = "ROUTED"
    /\ l = "publish_started" => s = "RUNNING"
    /\ l \in {"call", "complete", "fail"} => s \in {"RUNNING", "CANCELLED"}
    /\ l \in {"save_completed", "publish_completed", "returned_completed"} => s = "COMPLETED"
    /\ l \in {"save_rejected", "publish_rejected", "save_failed", "publish_failed",
              "returned_failed"} => s = "FAILED"
    /\ l = "raised" => s = "CANCELLED"
    /\ l # "already_exists"

\* Labels at which EXECUTION_STARTED may have been published.
After == {"call", "complete", "fail", "raised", "save_completed", "publish_completed",
          "returned_completed", "save_failed", "publish_failed", "returned_failed"}

PhaseInv ==
    /\ \A e \in Executors : Agrees(pc[e], records[IdOf[e]].state)
    /\ \A c \in Cancellers : pc[c] # "start" => Published(IdOf[c], "EXECUTION_STARTED")
    /\ \A c \in Cancellers : pc[c] = "save_cancelled" => records[IdOf[c]].state = "CANCELLED"
    /\ \A id \in Ids :
          /\ Published(id, "EXECUTION_STARTED") =>
                \E e \in Executors : IdOf[e] = id /\ pc[e] \in After
          /\ Published(id, "EXECUTION_COMPLETED") =>
                \E e \in Executors : IdOf[e] = id /\ pc[e] = "returned_completed"
          /\ Published(id, "EXECUTION_FAILED") =>
                \E e \in Executors : IdOf[e] = id /\ pc[e] = "returned_failed"

-----------------------------------------------------------------------------
(***************************************************************************)
(* What a step of an executor amounts to: the labels it moves between, the *)
(* stored states it moves between, and the event it tries to publish.      *)
(***************************************************************************)
Silent(l, s, m, q) ==
    \/ l \in {"start", "check"} /\ m \in {"check", "create"} /\ s = "ABSENT" /\ q = "ABSENT"
    \/ l = "create" /\ m = "initialize" /\ s = "ABSENT" /\ q = "CREATED"
    \/ l = "initialize" /\ m = "resolve" /\ s = "CREATED" /\ q = "INITIALIZING"
    \/ l = "resolve" /\ m \in {"select", "reject"} /\ s = "INITIALIZING" /\ q = "INITIALIZING"
    \/ l = "reject" /\ m = "save_rejected" /\ s = "INITIALIZING" /\ q = "FAILED"
    \/ l = "save_rejected" /\ m = "publish_rejected" /\ s = "FAILED" /\ q = "FAILED"
    \/ l = "select" /\ m = "route" /\ s = "INITIALIZING" /\ q = "INITIALIZING"
    \/ l = "route" /\ m = "run" /\ s = "INITIALIZING" /\ q = "ROUTED"
    \/ l = "run" /\ m = "publish_started" /\ s = "ROUTED" /\ q = "RUNNING"
    \/ l = "call" /\ m \in {"complete", "fail"} /\ s \in {"RUNNING", "CANCELLED"} /\ q = s
    \/ l = "complete" /\ m = "save_completed" /\ s = "RUNNING" /\ q = "COMPLETED"
    \/ l = "complete" /\ m = "fail" /\ s = "CANCELLED" /\ q = "CANCELLED"
    \/ l = "save_completed" /\ m = "publish_completed" /\ s = "COMPLETED" /\ q = "COMPLETED"
    \/ l = "fail" /\ m = "save_failed" /\ s = "RUNNING" /\ q = "FAILED"
    \/ l = "fail" /\ m = "raised" /\ s = "CANCELLED" /\ q = "CANCELLED"
    \/ l = "save_failed" /\ m = "publish_failed" /\ s = "FAILED" /\ q = "FAILED"

Spoken(l, s, m, type) ==
    \/ l = "publish_started" /\ m = "call" /\ s = "RUNNING" /\ type = "EXECUTION_STARTED"
    \/ /\ l = "publish_completed" /\ m = "returned_completed" /\ s = "COMPLETED"
       /\ type = "EXECUTION_COMPLETED"
    \/ /\ l \in {"publish_rejected", "publish_failed"} /\ m = "returned_failed"
       /\ s = "FAILED" /\ type = "EXECUTION_FAILED"

\* A step of e that publishes nothing.
SilentStep(e) ==
    /\ UNCHANGED <<IdOf, events>>
    /\ \A id \in Ids : id # IdOf[e] => records'[id] = records[id]
    /\ \E m : /\ pc' = [pc EXCEPT ![e] = m]
              /\ Silent(pc[e], records[IdOf[e]].state, m, records'[IdOf[e]].state)

\* A step of e that publishes an event, which the bus accepts or refuses.
SpokenAs(e, m, type, accepted) ==
    /\ UNCHANGED <<IdOf, records>>
    /\ pc' = [pc EXCEPT ![e] = m]
    /\ Spoken(pc[e], records[IdOf[e]].state, m, type)
    /\ \A id \in Ids : \A ty :
          Published(id, ty)' <=> Published(id, ty) \/ (accepted /\ id = IdOf[e] /\ ty = type)

SpokenStep(e) == \E m, type : SpokenAs(e, m, type, TRUE) \/ SpokenAs(e, m, type, FALSE)

LEMMA SilentTransition ==
    ASSUME TypeOK, NEW e \in Executors, NEW to \in States, NEW from, NEW next, NEW otherwise,
           Transition(e, from, to, next, otherwise), UNCHANGED IdOf,
           records[IdOf[e]].state \in States,
           to \in VALID_TRANSITIONS[records[IdOf[e]].state] =>
               Silent(from, records[IdOf[e]].state, next, to),
           to \notin VALID_TRANSITIONS[records[IdOf[e]].state] =>
               Silent(from, records[IdOf[e]].state, otherwise, records[IdOf[e]].state),
           records[IdOf[e]].state # to
    PROVE  SilentStep(e)
<1>0. e \in Threads /\ IdOf[e] \in Ids /\ pc[e] = from /\ UNCHANGED events
    BY DEF Threads, TypeOK, Transition, Goto
<1>1. CASE /\ ~Allowed(records[IdOf[e]], to) /\ Goto(e, from, otherwise)
           /\ UNCHANGED <<records, held>>
    BY <1>0, <1>1 DEF Allowed, Goto, SilentStep
<1>2. CASE update_state(e, to) /\ Goto(e, from, next)
    <2> DEFINE s == records[IdOf[e]]
               r == Moved(s, to)
    <2>1. s \in Record /\ to \in VALID_TRANSITIONS[s.state]
        BY <1>0, <1>2 DEF update_state, TypeOK, Allowed
    <2>2. r.state = to
        BY <2>1 DEF Moved, Record
    <2>3. records' = [records EXCEPT ![IdOf[e]] = r] /\ pc' = [pc EXCEPT ![e] = next]
        BY <1>2 DEF update_state, Goto
    <2> HIDE DEF r
    <2>4. records'[IdOf[e]] = r /\ \A id \in Ids : id # IdOf[e] => records'[id] = records[id]
        BY <1>0, <2>3 DEF TypeOK
    <2> QED
        BY <1>0, <2>1, <2>2, <2>3, <2>4 DEF SilentStep
<1> QED
    BY <1>1, <1>2 DEF Transition

LEMMA SilentSave ==
    ASSUME TypeOK, NEW e \in Executors, NEW r, NEW from, NEW next,
           save(e, r), Goto(e, from, next), UNCHANGED <<IdOf, events>>,
           Silent(from, records[IdOf[e]].state, next, r.state)
    PROVE  SilentStep(e)
<1>1. e \in Threads /\ IdOf[e] \in Ids
    BY DEF Threads, TypeOK
<1>2. records'[IdOf[e]] = r /\ \A id \in Ids : id # IdOf[e] => records'[id] = records[id]
    BY <1>1 DEF TypeOK, save
<1> QED
    BY <1>1, <1>2 DEF SilentStep, Goto

LEMMA SpokenPublish ==
    ASSUME TypeOK, NEW e \in Executors, NEW from, NEW next, NEW type, NEW sequence,
           _publish_event(e, from, type, sequence, next), UNCHANGED IdOf,
           Spoken(from, records[IdOf[e]].state, next, type)
    PROVE  SpokenStep(e)
<1> DEFINE event == [type |-> type, sequence |-> sequence, by |-> e]
<1>0. /\ e \in Threads /\ IdOf[e] \in Ids /\ events[IdOf[e]] \in Seq(Event)
      /\ pc[e] = from /\ pc' = [pc EXCEPT ![e] = next] /\ UNCHANGED records
    BY DEF Threads, TypeOK, _publish_event, Goto
<1>1. CASE UNCHANGED events
    <2>1. \A id \in Ids : \A ty : Published(id, ty)' <=> Published(id, ty)
        BY <1>1 DEF Published
    <2>2. SpokenAs(e, next, type, FALSE)
        BY <1>0, <2>1 DEF SpokenAs
    <2> QED
        BY <2>2 DEF SpokenStep
<1>2. CASE events' = [events EXCEPT ![IdOf[e]] = Append(@, event)]
    <2>1. event.type = type
        OBVIOUS
    <2>2. /\ events'[IdOf[e]] = Append(events[IdOf[e]], event)
          /\ \A id \in Ids : id # IdOf[e] => events'[id] = events[id]
        BY <1>0, <1>2 DEF TypeOK
    <2> DEFINE n == Len(events[IdOf[e]])
    <2> HIDE DEF event
    <2>3. /\ n \in Nat
          /\ DOMAIN events[IdOf[e]] = 1..n
          /\ DOMAIN events'[IdOf[e]] = 1..(n + 1)
          /\ \A i \in 1..n : events'[IdOf[e]][i] = events[IdOf[e]][i]
          /\ events'[IdOf[e]][n + 1] = event
        BY <1>0, <2>2, AppendProperties, LenProperties
    <2> HIDE DEF n
    <2>4. n + 1 \in 1..(n + 1) /\ \A i \in 1..(n + 1) : i \in 1..n \/ i = n + 1
        BY <2>3
    <2>5. 1..n \subseteq 1..(n + 1)
        BY <2>3
    <2>6. ASSUME NEW ty
          PROVE  Published(IdOf[e], ty)' <=> Published(IdOf[e], ty) \/ ty = type
        BY <2>1, <2>3, <2>4, <2>5 DEF Published
    <2>7. \A id \in Ids : \A ty :
             Published(id, ty)' <=> Published(id, ty) \/ (id = IdOf[e] /\ ty = type)
        <3> SUFFICES ASSUME NEW id \in Ids, NEW ty
                     PROVE  Published(id, ty)' <=> Published(id, ty) \/ (id = IdOf[e] /\ ty = type)
            OBVIOUS
        <3>1. CASE id = IdOf[e]
            <4>1. Published(id, ty)' <=> Published(IdOf[e], ty)'
                BY <1>0, <3>1 DEF Published
            <4> QED
                BY <2>6, <3>1, <4>1
        <3>2. CASE id # IdOf[e]
            BY <2>2, <3>2 DEF Published
        <3> QED
            BY <3>1, <3>2
    <2>8. SpokenAs(e, next, type, TRUE)
        BY <1>0, <2>7 DEF SpokenAs
    <2> QED
        BY <2>8 DEF SpokenStep
<1> QED
    BY <1>1, <1>2 DEF _publish_event

LEMMA ExecuteEffect ==
    ASSUME TypeOK, ResultInv, PhaseInv, NEW e \in Executors, execute(e)
    PROVE  SilentStep(e) \/ SpokenStep(e)
<1> DEFINE s == records[IdOf[e]].state
<1>0. /\ e \in Threads /\ IdOf[e] \in Ids /\ held[e] \in Record /\ UNCHANGED IdOf
      /\ Fit(pc[e], held[e]) /\ Agrees(pc[e], s)
    BY DEF Threads, TypeOK, ResultInv, PhaseInv, execute
<1> HIDE DEF s
<1>1. CASE CreateContext(e)
    <2>1. /\ pc[e] = "start" /\ pc' = [pc EXCEPT ![e] = "check"] /\ UNCHANGED <<records, events>>
          /\ s = "ABSENT"
        BY <1>0, <1>1 DEF CreateContext, Goto, Agrees
    <2> QED
        BY <1>0, <2>1 DEF SilentStep, Silent, s
<1>2. CASE CheckExists(e)
    <2>1. pc[e] = "check" /\ UNCHANGED <<records, events>> /\ s = "ABSENT"
        BY <1>0, <1>2 DEF CheckExists, Goto, Agrees
    <2>2. pc' = [pc EXCEPT ![e] = "create"]
        BY <1>2, <2>1 DEF CheckExists, Goto, exists, s
    <2> QED
        BY <1>0, <2>1, <2>2 DEF SilentStep, Silent, s
<1>3. CASE SaveCreated(e)
    <2>1. [Absent EXCEPT !.state = "CREATED"].state = "CREATED"
        BY DEF Absent
    <2>2. Silent("create", s, "initialize", "CREATED")
        BY <1>0, <1>3 DEF SaveCreated, Goto, Agrees, Silent
    <2> QED
        BY <1>0, <1>3, <2>1, <2>2, SilentSave DEF SaveCreated, s
<1>4. CASE SaveResolution(e)
    <2>1. PICK l \in {"select", "reject"} : Goto(e, "resolve", l)
        BY <1>4 DEF SaveResolution
    <2>2. Silent("resolve", s, l, held[e].state)
        BY <1>0, <2>1 DEF Goto, Agrees, Fit, Silent
    <2> QED
        BY <1>0, <1>4, <2>1, <2>2, SilentSave DEF SaveResolution, s
<1>5. CASE SaveRejected(e) \/ SaveFailed(e)
    <2> DEFINE r == [held[e] EXCEPT !.error = TRUE, !.result = "FAILED"]
    <2>1. PICK from \in {"save_rejected", "save_failed"},
              l \in {"publish_rejected", "publish_failed"} :
              /\ save(e, r) /\ Goto(e, from, l) /\ UNCHANGED events
              /\ from = "save_rejected" <=> l = "publish_rejected"
        BY <1>5 DEF SaveRejected, SaveFailed
    <2>2. r.state = held[e].state
        BY <1>0 DEF Record
    <2>3. Silent(from, s, l, held[e].state)
        BY <1>0, <2>1 DEF Goto, Agrees, Fit, Silent
    <2> HIDE DEF r
    <2> QED
        BY <1>0, <2>1, <2>2, <2>3, SilentSave DEF s
<1>6. CASE SaveRoute(e)
    <2> DEFINE r == [held[e] EXCEPT !.target = TRUE]
    <2>1. save(e, r) /\ Goto(e, "select", "route") /\ UNCHANGED events
        BY <1>6 DEF SaveRoute
    <2>2. r.state = held[e].state
        BY <1>0 DEF Record
    <2>3. Silent("select", s, "route", held[e].state)
        BY <1>0, <2>1 DEF Goto, Agrees, Fit, Silent
    <2> HIDE DEF r
    <2> QED
        BY <1>0, <2>1, <2>2, <2>3, SilentSave DEF s
<1>7. CASE SaveCompleted(e)
    <2> DEFINE r == [held[e] EXCEPT !.result = "COMPLETED"]
    <2>1. save(e, r) /\ Goto(e, "save_completed", "publish_completed") /\ UNCHANGED events
        BY <1>7 DEF SaveCompleted
    <2>2. r.state = held[e].state
        BY <1>0 DEF Record
    <2>3. Silent("save_completed", s, "publish_completed", held[e].state)
        BY <1>0, <2>1 DEF Goto, Agrees, Fit, Silent
    <2> HIDE DEF r
    <2> QED
        BY <1>0, <2>1, <2>2, <2>3, SilentSave DEF s
<1>8. ASSUME NEW to \in States, NEW from, NEW next, NEW otherwise,
             Transition(e, from, to, next, otherwise), s \in States, s # to,
             to \in VALID_TRANSITIONS[s] => Silent(from, s, next, to),
             to \notin VALID_TRANSITIONS[s] => Silent(from, s, otherwise, s)
      PROVE  SilentStep(e)
    BY <1>0, <1>8, SilentTransition DEF s
<1>9. CASE Initialize(e)
    <2>1. Transition(e, "initialize", "INITIALIZING", "resolve", "raised") /\ s = "CREATED"
        BY <1>0, <1>9 DEF Initialize, Transition, Goto, Agrees
    <2> QED
        BY <1>8, <2>1 DEF States, VALID_TRANSITIONS, Silent
<1>10. CASE Reject(e)
    <2>1. Transition(e, "reject", "FAILED", "save_rejected", "raised") /\ s = "INITIALIZING"
        BY <1>0, <1>10 DEF Reject, Transition, Goto, Agrees
    <2> QED
        BY <1>8, <2>1 DEF States, VALID_TRANSITIONS, Silent
<1>11. CASE Route(e)
    <2>1. Transition(e, "route", "ROUTED", "run", "raised") /\ s = "INITIALIZING"
        BY <1>0, <1>11 DEF Route, Transition, Goto, Agrees
    <2> QED
        BY <1>8, <2>1 DEF States, VALID_TRANSITIONS, Silent
<1>12. CASE Run(e)
    <2>1. Transition(e, "run", "RUNNING", "publish_started", "raised") /\ s = "ROUTED"
        BY <1>0, <1>12 DEF Run, Transition, Goto, Agrees
    <2> QED
        BY <1>8, <2>1 DEF States, VALID_TRANSITIONS, Silent
<1>13. CASE Complete(e)
    <2>1. /\ Transition(e, "complete", "COMPLETED", "save_completed", "fail")
          /\ s \in {"RUNNING", "CANCELLED"}
        BY <1>0, <1>13 DEF Complete, Transition, Goto, Agrees
    <2> QED
        BY <1>8, <2>1 DEF States, VALID_TRANSITIONS, Silent
<1>14. CASE Fail(e)
    <2>1. /\ Transition(e, "fail", "FAILED", "save_failed", "raised")
          /\ s \in {"RUNNING", "CANCELLED"}
        BY <1>0, <1>14 DEF Fail, Transition, Goto, Agrees
    <2> QED
        BY <1>8, <2>1 DEF States, VALID_TRANSITIONS, Silent
<1>15. ASSUME NEW from, NEW next, NEW type, NEW sequence,
              _publish_event(e, from, type, sequence, next), Spoken(from, s, next, type)
       PROVE  SpokenStep(e)
    BY <1>0, <1>15, SpokenPublish DEF s
<1>16. CASE PublishRejected(e)
    <2>1. /\ _publish_event(e, "publish_rejected", "EXECUTION_FAILED", 0, "returned_failed")
          /\ s = "FAILED"
        BY <1>0, <1>16 DEF PublishRejected, _publish_event, Goto, Agrees
    <2> QED
        BY <1>15, <2>1 DEF Spoken
<1>17. CASE PublishStarted(e)
    <2>1. /\ _publish_event(e, "publish_started", "EXECUTION_STARTED", 0, "call")
          /\ s = "RUNNING"
        BY <1>0, <1>17 DEF PublishStarted, _publish_event, Goto, Agrees
    <2> QED
        BY <1>15, <2>1 DEF Spoken
<1>18. CASE PublishCompleted(e)
    <2>1. /\ _publish_event(e, "publish_completed", "EXECUTION_COMPLETED", 1,
                            "returned_completed")
          /\ s = "COMPLETED"
        BY <1>0, <1>18 DEF PublishCompleted, _publish_event, Goto, Agrees
    <2> QED
        BY <1>15, <2>1 DEF Spoken
<1>19. CASE PublishFailed(e)
    <2>1. /\ _publish_event(e, "publish_failed", "EXECUTION_FAILED", 1, "returned_failed")
          /\ s = "FAILED"
        BY <1>0, <1>19 DEF PublishFailed, _publish_event, Goto, Agrees
    <2> QED
        BY <1>15, <2>1 DEF Spoken
<1>20. CASE CallProvider(e)
    <2>1. PICK l \in {"complete", "fail"} : pc' = [pc EXCEPT ![e] = l]
        BY <1>20 DEF CallProvider, Goto
    <2>2. pc[e] = "call" /\ s \in {"RUNNING", "CANCELLED"} /\ UNCHANGED <<records, events>>
        BY <1>0, <1>20 DEF CallProvider, Goto, Agrees
    <2> QED
        BY <1>0, <2>1, <2>2 DEF SilentStep, Silent, s
<1> QED
    BY <1>1, <1>2, <1>3, <1>4, <1>5, <1>6, <1>7, <1>9, <1>10, <1>11, <1>12, <1>13, <1>14,
       <1>16, <1>17, <1>18, <1>19, <1>20 DEF execute

-----------------------------------------------------------------------------
(***************************************************************************)
(* What a step of a canceller amounts to: the execution was announced, and *)
(* at most its state moves from RUNNING to CANCELLED.                      *)
(***************************************************************************)
CancelStep(c) ==
    /\ UNCHANGED <<IdOf, events>>
    /\ Published(IdOf[c], "EXECUTION_STARTED")
    /\ \A id \in Ids : id # IdOf[c] => records'[id] = records[id]
    /\ \/ records'[IdOf[c]].state = records[IdOf[c]].state
       \/ records[IdOf[c]].state = "RUNNING" /\ records'[IdOf[c]].state = "CANCELLED"
    /\ \E m : /\ pc' = [pc EXCEPT ![c] = m]
              /\ m # "start"
              /\ m = "save_cancelled" => records'[IdOf[c]].state = "CANCELLED"

\* An announced execution is running, or over.
LEMMA Announced ==
    ASSUME PhaseInv, NEW id \in Ids, Published(id, "EXECUTION_STARTED")
    PROVE  records[id].state \in {"RUNNING", "CANCELLED", "COMPLETED", "FAILED"}
BY DEF PhaseInv, Agrees, After

LEMMA CancelEffect ==
    ASSUME TypeOK, ResultInv, PhaseInv, CancelAfterStart, NEW c \in Cancellers,
           cancel_execution(c)
    PROVE  CancelStep(c)
<1> DEFINE s == records[IdOf[c]]
<1>0. /\ c \in Threads /\ IdOf[c] \in Ids /\ held[c] \in Record /\ UNCHANGED IdOf
      /\ Fit(pc[c], held[c]) /\ s \in Record
    BY DEF Threads, TypeOK, ResultInv, cancel_execution
<1>1. CASE BeginCancel(c)
    <2>1. PICK m \in {"not_found", "refused", "cancel"} : pc' = [pc EXCEPT ![c] = m]
        BY <1>1 DEF BeginCancel, Goto
    <2> QED
        BY <1>0, <1>1, <2>1 DEF BeginCancel, CancelStep
<1>2. CASE Cancel(c)
    <2>1. /\ pc[c] = "cancel" /\ UNCHANGED events
          /\ Transition(c, "cancel", "CANCELLED", "save_cancelled", "raised")
        BY <1>2 DEF Cancel, Transition, Goto
    <2>2. Published(IdOf[c], "EXECUTION_STARTED")
        BY <2>1 DEF PhaseInv
    <2>3. s.state \in {"RUNNING", "CANCELLED", "COMPLETED", "FAILED"}
        BY <1>0, <2>2, Announced
    <2>4. CASE UNCHANGED <<records, held>> /\ Goto(c, "cancel", "raised")
        <3>1. pc' = [pc EXCEPT ![c] = "raised"] /\ UNCHANGED <<IdOf, records, events>>
            BY <1>0, <2>1, <2>4 DEF Goto
        <3>2. \E m : /\ pc' = [pc EXCEPT ![c] = m]
                     /\ m # "start"
                     /\ m = "save_cancelled" => records'[IdOf[c]].state = "CANCELLED"
            <4> WITNESS "raised"
            <4> QED
                BY <3>1
        <3> QED
            BY <2>2, <3>1, <3>2 DEF CancelStep
    <2>5. CASE update_state(c, "CANCELLED") /\ Goto(c, "cancel", "save_cancelled")
        <3> DEFINE r == Moved(s, "CANCELLED")
        <3>1. r.state = "CANCELLED"
            BY <1>0 DEF Moved, Record
        <3>2. s.state \in {"RUNNING", "CANCELLED"}
            BY <2>3, <2>5 DEF update_state, Allowed, VALID_TRANSITIONS, States
        <3>3. records' = [records EXCEPT ![IdOf[c]] = r] /\ pc' = [pc EXCEPT ![c] = "save_cancelled"]
            BY <2>5 DEF update_state, Goto
        <3> HIDE DEF r
        <3>4. records'[IdOf[c]] = r /\ \A id \in Ids : id # IdOf[c] => records'[id] = records[id]
            BY <1>0, <3>3 DEF TypeOK
        <3> QED
            BY <1>0, <2>1, <2>2, <3>1, <3>2, <3>3, <3>4 DEF CancelStep
    <2> QED
        BY <2>1, <2>4, <2>5 DEF Transition
<1>3. CASE SaveCancelled(c)
    <2> DEFINE r == [held[c] EXCEPT !.cancelledBy = c,
                                    !.result = IF @ = "NONE" THEN "STOPPED" ELSE @]
    <2>1. /\ pc[c] = "save_cancelled" /\ held[c].state = "CANCELLED" /\ save(c, r)
          /\ pc' = [pc EXCEPT ![c] = "returned"] /\ UNCHANGED events
        BY <1>0, <1>3 DEF SaveCancelled, Goto, Fit
    <2>2. r.state = "CANCELLED"
        BY <1>0, <2>1 DEF Record
    <2> HIDE DEF r
    <2>3. records'[IdOf[c]] = r /\ \A id \in Ids : id # IdOf[c] => records'[id] = records[id]
        BY <1>0, <2>1 DEF TypeOK, save
    <2>4. s.state = "CANCELLED" /\ Published(IdOf[c], "EXECUTION_STARTED")
        BY <2>1 DEF PhaseInv
    <2>5. records'[IdOf[c]].state = records[IdOf[c]].state /\ records'[IdOf[c]].state = "CANCELLED"
        BY <2>2, <2>3, <2>4
    <2>6. pc' = [pc EXCEPT ![c] = "returned"] /\ UNCHANGED <<IdOf, events>>
        BY <1>0, <2>1
    <2> HIDE DEF s
    <2> QED
        BY <2>3, <2>4, <2>5, <2>6 DEF CancelStep
<1> QED
    BY <1>1, <1>2, <1>3 DEF cancel_execution

-----------------------------------------------------------------------------
(***************************************************************************)
(* PhaseInv is inductive.                                                  *)
(***************************************************************************)
LEMMA InitPhase == Init => PhaseInv
<1> SUFFICES ASSUME Init PROVE PhaseInv
    OBVIOUS
<1>1. \A e \in Executors : pc[e] = "start" /\ IdOf[e] \in Ids /\ records[IdOf[e]] = Absent
    BY ThreadsAssumption DEF Init, Threads
<1>2. \A c \in Cancellers : pc[c] = "start"
    BY DEF Init, Threads
<1>3. \A id \in Ids : events[id] = <<>> /\ DOMAIN events[id] = {}
    BY EmptySeq DEF Init
<1>4. Agrees("start", Absent.state)
    BY DEF Agrees, Absent
<1> QED
    BY <1>1, <1>2, <1>3, <1>4 DEF PhaseInv, Published

LEMMA SilentPhase ==
    ASSUME TypeOK, PhaseInv, UniqueIds, NEW e \in Executors, SilentStep(e)
    PROVE  PhaseInv'
<1>1. PICK m : /\ pc' = [pc EXCEPT ![e] = m]
               /\ Silent(pc[e], records[IdOf[e]].state, m, records'[IdOf[e]].state)
    BY DEF SilentStep
<1>2. /\ UNCHANGED <<IdOf, events>>
      /\ \A id \in Ids : id # IdOf[e] => records'[id] = records[id]
    BY DEF SilentStep
<1>3. /\ e \in Threads /\ pc'[e] = m
      /\ \A u \in Threads : u # e => pc'[u] = pc[u]
      /\ \A u \in Threads : IdOf[u] \in Ids
    BY <1>1 DEF TypeOK, Threads
<1>4. /\ Agrees(m, records'[IdOf[e]].state)
      /\ records[IdOf[e]].state = "CANCELLED" => records'[IdOf[e]].state = "CANCELLED"
      /\ pc[e] \in After => m \in After
      /\ pc[e] \notin {"returned_completed", "returned_failed"}
    BY <1>1 DEF Silent, Agrees, After
<1>5. \A f \in Executors : Agrees(pc'[f], records'[IdOf[f]].state)
    BY <1>2, <1>3, <1>4 DEF PhaseInv, UniqueIds, Threads
<1>6. \A c \in Cancellers : c \in Threads /\ pc'[c] = pc[c]
    BY <1>3, ThreadsAssumption DEF Threads
<1>7. \A id \in Ids : \A ty : Published(id, ty)' <=> Published(id, ty)
    BY <1>2 DEF Published
<1>8. \A f \in Executors : /\ pc[f] \in After => pc'[f] \in After
                           /\ pc[f] \in {"returned_completed", "returned_failed"} => pc'[f] = pc[f]
    BY <1>3, <1>4 DEF Threads
<1>9. \A c \in Cancellers :
         /\ pc'[c] # "start" => Published(IdOf[c], "EXECUTION_STARTED")'
         /\ pc'[c] = "save_cancelled" => records'[IdOf[c]].state = "CANCELLED"
    BY <1>2, <1>3, <1>4, <1>6, <1>7 DEF PhaseInv
<1>10. \A id \in Ids :
          /\ Published(id, "EXECUTION_STARTED")' =>
                \E f \in Executors : IdOf[f] = id /\ pc'[f] \in After
          /\ Published(id, "EXECUTION_COMPLETED")' =>
                \E f \in Executors : IdOf[f] = id /\ pc'[f] = "returned_completed"
          /\ Published(id, "EXECUTION_FAILED")' =>
                \E f \in Executors : IdOf[f] = id /\ pc'[f] = "returned_failed"
    BY <1>7, <1>8 DEF PhaseInv
<1> QED
    BY <1>2, <1>5, <1>9, <1>10 DEF PhaseInv, Agrees

LEMMA SpokenPhase ==
    ASSUME TypeOK, PhaseInv, NEW e \in Executors, NEW m, NEW type, NEW accepted \in BOOLEAN,
           SpokenAs(e, m, type, accepted)
    PROVE  PhaseInv'
<1>1. /\ UNCHANGED <<IdOf, records>>
      /\ pc' = [pc EXCEPT ![e] = m]
      /\ Spoken(pc[e], records[IdOf[e]].state, m, type)
      /\ \A id \in Ids : \A ty :
            Published(id, ty)' <=> Published(id, ty) \/ (accepted /\ id = IdOf[e] /\ ty = type)
    BY DEF SpokenAs
<1>2. /\ e \in Threads /\ pc'[e] = m
      /\ \A u \in Threads : u # e => pc'[u] = pc[u]
      /\ \A u \in Threads : IdOf[u] \in Ids
    BY <1>1 DEF TypeOK, Threads
<1>3. /\ Agrees(m, records[IdOf[e]].state)
      /\ m \in After
      /\ type = "EXECUTION_COMPLETED" => m = "returned_completed"
      /\ type = "EXECUTION_FAILED" => m = "returned_failed"
      /\ pc[e] \notin {"returned_completed", "returned_failed"}
    BY <1>1 DEF Spoken, Agrees, After
<1>4. \A f \in Executors : Agrees(pc'[f], records[IdOf[f]].state)
    BY <1>2, <1>3 DEF PhaseInv, Threads
<1>5. \A c \in Cancellers : c \in Threads /\ pc'[c] = pc[c]
    BY <1>2, ThreadsAssumption DEF Threads
<1>6. \A f \in Executors : /\ pc[f] \in After => pc'[f] \in After
                           /\ pc[f] \in {"returned_completed", "returned_failed"} => pc'[f] = pc[f]
    BY <1>2, <1>3 DEF Threads
<1>7. \A c \in Cancellers :
         /\ pc'[c] # "start" => Published(IdOf[c], "EXECUTION_STARTED")'
         /\ pc'[c] = "save_cancelled" => records[IdOf[c]].state = "CANCELLED"
    BY <1>1, <1>2, <1>5 DEF PhaseInv
<1>8. \A id \in Ids :
          /\ Published(id, "EXECUTION_STARTED")' =>
                \E f \in Executors : IdOf[f] = id /\ pc'[f] \in After
          /\ Published(id, "EXECUTION_COMPLETED")' =>
                \E f \in Executors : IdOf[f] = id /\ pc'[f] = "returned_completed"
          /\ Published(id, "EXECUTION_FAILED")' =>
                \E f \in Executors : IdOf[f] = id /\ pc'[f] = "returned_failed"
    BY <1>1, <1>2, <1>3, <1>6 DEF PhaseInv
<1> QED
    BY <1>1, <1>4, <1>7, <1>8 DEF PhaseInv, Agrees

LEMMA CancelPhase ==
    ASSUME TypeOK, PhaseInv, UniqueIds, NEW c \in Cancellers, CancelStep(c)
    PROVE  PhaseInv'
<1>1. PICK m : /\ pc' = [pc EXCEPT ![c] = m]
               /\ m = "save_cancelled" => records'[IdOf[c]].state = "CANCELLED"
    BY DEF CancelStep
<1>2. /\ UNCHANGED <<IdOf, events>>
      /\ Published(IdOf[c], "EXECUTION_STARTED")
      /\ \A id \in Ids : id # IdOf[c] => records'[id] = records[id]
      /\ \/ records'[IdOf[c]].state = records[IdOf[c]].state
         \/ records[IdOf[c]].state = "RUNNING" /\ records'[IdOf[c]].state = "CANCELLED"
    BY DEF CancelStep
<1>3. /\ c \in Threads /\ c \notin Executors /\ pc'[c] = m
      /\ \A u \in Threads : u # c => pc'[u] = pc[u]
      /\ \A u \in Threads : IdOf[u] \in Ids
    BY <1>1, ThreadsAssumption DEF TypeOK, Threads
<1>4. \A e \in Executors : e \in Threads /\ pc'[e] = pc[e]
    BY <1>3 DEF Threads
<1>5. ASSUME NEW e \in Executors
      PROVE  Agrees(pc[e], records'[IdOf[e]].state)
    <2>1. CASE records'[IdOf[e]].state = records[IdOf[e]].state
        BY <2>1 DEF PhaseInv
    <2>2. CASE /\ IdOf[e] = IdOf[c] /\ records[IdOf[c]].state = "RUNNING"
               /\ records'[IdOf[c]].state = "CANCELLED"
        <3>1. PICK f \in Executors : IdOf[f] = IdOf[c] /\ pc[f] \in After
            BY <1>2, <1>3 DEF PhaseInv
        <3>2. f = e
            BY <2>2, <3>1 DEF UniqueIds
        <3>3. Agrees(pc[e], "RUNNING")
            BY <2>2 DEF PhaseInv
        <3>4. pc[e] \in {"call", "complete", "fail"}
            BY <3>1, <3>2, <3>3 DEF Agrees, After
        <3> QED
            BY <2>2, <3>4 DEF Agrees
    <2> QED
        BY <1>2, <1>3, <1>4, <2>1, <2>2
<1>6. \A id \in Ids : \A ty : Published(id, ty)' <=> Published(id, ty)
    BY <1>2 DEF Published
<1>7. \A d \in Cancellers :
         /\ pc'[d] # "start" => Published(IdOf[d], "EXECUTION_STARTED")'
         /\ pc'[d] = "save_cancelled" => records'[IdOf[d]].state = "CANCELLED"
    BY <1>1, <1>2, <1>3, <1>6 DEF PhaseInv, Threads
<1> QED
    BY <1>2, <1>4, <1>5, <1>6, <1>7 DEF PhaseInv, Agrees

LEMMA NextPhase ==
    TypeOK /\ ResultInv /\ (Alone => PhaseInv) /\ [Next]_vars => (Alone => PhaseInv)'
<1> SUFFICES ASSUME TypeOK, ResultInv, Alone => PhaseInv, [Next]_vars, Alone'
             PROVE  PhaseInv'
    BY DEF Alone
<1>1. UNCHANGED IdOf
    BY DEF Next, vars, Quiescent, execute, cancel_execution
<1>2. Alone /\ PhaseInv /\ UniqueIds /\ CancelAfterStart
    BY <1>1 DEF Alone, UniqueIds
<1>3. CASE Quiescent \/ UNCHANGED vars
    <2>1. UNCHANGED <<IdOf, records, pc, events>>
        BY <1>3 DEF Quiescent, vars
    <2> QED
        BY <1>2, <2>1 DEF PhaseInv, Published, Agrees
<1>4. ASSUME NEW e \in Executors, execute(e)
      PROVE  PhaseInv'
    BY <1>2, <1>4, ExecuteEffect, SilentPhase, SpokenPhase DEF SpokenStep
<1>5. ASSUME NEW c \in Cancellers, cancel_execution(c)
      PROVE  PhaseInv'
    BY <1>2, <1>5, CancelEffect, CancelPhase
<1> QED
    BY <1>3, <1>4, <1>5 DEF Next

\* What execute told its caller is what the record says, when callers keep
\* the discipline.
THEOREM AnswersAgree == Spec => [](Alone => AnswerAgreesWithRecord)
<1>1. PhaseInv => AnswerAgreesWithRecord
    BY DEF PhaseInv, AnswerAgreesWithRecord, Agrees
<1> QED
    BY <1>1, InitType, NextType, InitResult, NextResult, InitPhase, NextPhase, PTL DEF Spec

\* No subscriber is told an outcome the record does not have, when callers
\* keep the discipline.
THEOREM EventsAgree == Spec => [](Alone => EventsAgreeWithRecord)
<1>1. PhaseInv => EventsAgreeWithRecord
    BY DEF PhaseInv, EventsAgreeWithRecord, Agrees
<1> QED
    BY <1>1, InitType, NextType, InitResult, NextResult, InitPhase, NextPhase, PTL DEF Spec

\* Terminal states cannot be left, as documented, when callers keep the
\* discipline: what it takes to refute that is an id used twice, or a cancel
\* before the start was announced.
THEOREM SettledStays == Spec /\ []Alone => TerminalAbsorbing
<1>1. ASSUME TypeOK, ResultInv, PhaseInv, Alone, [Next]_vars, NEW id \in Ids,
             records[id].state \in Terminal
      PROVE  records'[id].state = records[id].state
  <2>1. UniqueIds /\ CancelAfterStart
      BY <1>1 DEF Alone
  <2>2. CASE Quiescent \/ UNCHANGED vars
      BY <2>2 DEF Quiescent, vars
  <2>3. ASSUME NEW e \in Executors, execute(e)
        PROVE  records'[id].state = records[id].state
    <3>1. SilentStep(e) \/ SpokenStep(e)
        BY <1>1, <2>3, ExecuteEffect
    <3>2. CASE SpokenStep(e)
        BY <3>2 DEF SpokenStep, SpokenAs
    <3>3. CASE SilentStep(e)
      <4>1. CASE id # IdOf[e]
          BY <3>3, <4>1 DEF SilentStep
      <4>2. CASE id = IdOf[e]
        <5>1. \E m : Silent(pc[e], records[id].state, m, records'[id].state)
            BY <3>3, <4>2 DEF SilentStep
        <5> QED
            BY <1>1, <5>1 DEF Silent, Terminal
      <4> QED
          BY <4>1, <4>2
    <3> QED
        BY <3>1, <3>2, <3>3
  <2>4. ASSUME NEW c \in Cancellers, cancel_execution(c)
        PROVE  records'[id].state = records[id].state
    <3>1. CancelStep(c)
        BY <1>1, <2>1, <2>4, CancelEffect
    <3> QED
        BY <1>1, <3>1 DEF CancelStep, Terminal
  <2> QED
      BY <1>1, <2>2, <2>3, <2>4 DEF Next
<1>2. TypeOK /\ ResultInv /\ PhaseInv /\ Alone /\ [Next]_vars =>
        [\A id \in Ids :
            records[id].state \in Terminal => records'[id].state = records[id].state]_vars
    BY <1>1
<1> QED
    BY <1>2, InitType, NextType, InitResult, NextResult, InitPhase, NextPhase, PTL
    DEF Spec, TerminalAbsorbing

-----------------------------------------------------------------------------
(***************************************************************************)
(* Refinement: every step of the lifecycle is a step of the promise, or    *)
(* none.                                                                   *)
(***************************************************************************)
\* PromisedStatus and PromisedReply as functions of what they read.
StatusOf(s) ==
    CASE s = "ABSENT"                                -> "none"
      [] s \in {"CREATED", "INITIALIZING", "ROUTED"} -> "live"
      [] s = "RUNNING"                               -> "running"
      [] OTHER                                       -> s

ReplyOf(l) ==
    CASE l = "returned_completed" -> "COMPLETED"
      [] l = "returned_failed"    -> "FAILED"
      [] l = "raised"             -> "CANCELLED"
      [] OTHER                    -> "none"

LEMMA Statuses ==
    /\ StatusOf("ABSENT") = "none"
    /\ \A s \in {"CREATED", "INITIALIZING", "ROUTED"} : StatusOf(s) = "live"
    /\ StatusOf("RUNNING") = "running"
    /\ \A s \in {"COMPLETED", "FAILED", "CANCELLED"} : StatusOf(s) = s
BY DEF StatusOf

LEMMA Replies ==
    /\ ReplyOf("returned_completed") = "COMPLETED"
    /\ ReplyOf("returned_failed") = "FAILED"
    /\ ReplyOf("raised") = "CANCELLED"
    /\ \A l \in ExecutorLabels \ {"returned_completed", "returned_failed", "raised"} :
          ReplyOf(l) = "none"
BY DEF ReplyOf, ExecutorLabels

\* The refinement mapping.
BarId     == [e \in Executors |-> IdOf[e]]
BarStatus == [id \in Ids |-> StatusOf(records[id].state)]
BarReply  == [e \in Executors |-> ReplyOf(pc[e])]
BarTold   == [id \in Ids |-> PromisedNews(id)]

LEMMA Bars ==
    /\ BarStatus = [id \in Ids |-> PromisedStatus(id)]
    /\ BarReply = [e \in Executors |-> PromisedReply(e)]
    /\ BarStatus' = [id \in Ids |-> PromisedStatus(id)']
    /\ BarReply' = [e \in Executors |-> PromisedReply(e)']
BY DEF BarStatus, BarReply, PromisedStatus, PromisedReply, StatusOf, ReplyOf

\* The abstract step on the mapped variables.
BarUnchanged == UNCHANGED <<BarId, BarStatus, BarReply, BarTold>>

BarMove(id, q) ==
    /\ BarStatus' = [BarStatus EXCEPT ![id] = q]
    /\ UNCHANGED <<BarId, BarReply, BarTold>>

BarAnswer(e) ==
    LET outcome == BarStatus[IdOf[e]]
    IN /\ BarReply[e] = "none"
       /\ outcome \in {"COMPLETED", "FAILED", "CANCELLED"}
       /\ BarReply' = [BarReply EXCEPT ![e] = outcome]
       /\ \/ UNCHANGED BarTold
          \/ outcome # "CANCELLED" /\ BarTold' = [BarTold EXCEPT ![IdOf[e]] = outcome]
       /\ UNCHANGED <<BarId, BarStatus>>

BarNext ==
    \/ BarUnchanged
    \/ \E id \in Ids :
          \/ BarStatus[id] = "none" /\ BarMove(id, "live")
          \/ BarStatus[id] = "live" /\ BarMove(id, "running")
          \/ BarStatus[id] \in {"live", "running"} /\ BarMove(id, "FAILED")
          \/ BarStatus[id] = "running" /\ BarMove(id, "COMPLETED")
          \/ BarStatus[id] = "running" /\ BarMove(id, "CANCELLED")
    \/ \E e \in Executors : BarAnswer(e)

LEMMA BarImplies == BarNext => [Promise!Next]_(Promise!vars)
<1> SUFFICES ASSUME BarNext PROVE [Promise!Next]_(Promise!vars)
    OBVIOUS
<1>1. CASE BarUnchanged
    BY <1>1, Bars DEF BarUnchanged, BarId, BarTold, Promise!vars
<1>2. ASSUME NEW id \in Ids,
             \/ BarStatus[id] = "none" /\ BarMove(id, "live")
             \/ BarStatus[id] = "live" /\ BarMove(id, "running")
             \/ BarStatus[id] \in {"live", "running"} /\ BarMove(id, "FAILED")
             \/ BarStatus[id] = "running" /\ BarMove(id, "COMPLETED")
             \/ BarStatus[id] = "running" /\ BarMove(id, "CANCELLED")
      PROVE  Promise!Next
    <2>1. Promise!Create(id) \/ Promise!Start(id)
             \/ \E outcome \in {"COMPLETED", "FAILED", "CANCELLED"} : Promise!Settle(id, outcome)
        BY <1>2, Bars
        DEF BarMove, BarId, BarTold, Promise!Create, Promise!Start, Promise!Settle
    <2> QED
        BY <2>1 DEF Promise!Next, Promise!Progress, Promise!Outcomes
<1>3. ASSUME NEW e \in Executors, BarAnswer(e)
      PROVE  Promise!Next
    <2>1. BarId[e] = IdOf[e]
        BY DEF BarId
    <2>2. Promise!Answer(e)
        BY <1>3, <2>1, Bars DEF BarAnswer, BarId, BarTold, Promise!Answer, Promise!Outcomes
    <2> QED
        BY <2>2 DEF Promise!Next
<1> QED
    BY <1>1, <1>2, <1>3 DEF BarNext

\* PromisedNews when the record is not COMPLETED, or not FAILED.
LEMMA News ==
    ASSUME NEW id \in Ids
    PROVE  /\ Published(id, "EXECUTION_COMPLETED") => PromisedNews(id) = "COMPLETED"
           /\ ~Published(id, "EXECUTION_COMPLETED") /\ Published(id, "EXECUTION_FAILED")
                 => PromisedNews(id) = "FAILED"
           /\ Published(id, "EXECUTION_COMPLETED")' => PromisedNews(id)' = "COMPLETED"
           /\ ~Published(id, "EXECUTION_COMPLETED")' /\ Published(id, "EXECUTION_FAILED")'
                 => PromisedNews(id)' = "FAILED"
           /\ /\ Published(id, "EXECUTION_COMPLETED")' <=> Published(id, "EXECUTION_COMPLETED")
              /\ Published(id, "EXECUTION_FAILED")' <=> Published(id, "EXECUTION_FAILED")
              => PromisedNews(id)' = PromisedNews(id)
<1>1. Published(id, "EXECUTION_COMPLETED") => PromisedNews(id) = "COMPLETED"
    BY DEF PromisedNews
<1>2. ~Published(id, "EXECUTION_COMPLETED") /\ Published(id, "EXECUTION_FAILED")
         => PromisedNews(id) = "FAILED"
    BY DEF PromisedNews
<1>3. ~Published(id, "EXECUTION_COMPLETED") /\ ~Published(id, "EXECUTION_FAILED")
         => PromisedNews(id) = "none"
    BY DEF PromisedNews
<1>4. Published(id, "EXECUTION_COMPLETED")' => PromisedNews(id)' = "COMPLETED"
    BY DEF PromisedNews
<1>5. ~Published(id, "EXECUTION_COMPLETED")' /\ Published(id, "EXECUTION_FAILED")'
         => PromisedNews(id)' = "FAILED"
    BY DEF PromisedNews
<1>6. ~Published(id, "EXECUTION_COMPLETED")' /\ ~Published(id, "EXECUTION_FAILED")'
         => PromisedNews(id)' = "none"
    BY DEF PromisedNews
<1> QED
    BY <1>1, <1>2, <1>3, <1>4, <1>5, <1>6

\* A step that changes no more than the state of one id.
LEMMA StateStep ==
    ASSUME NEW id \in Ids, UNCHANGED <<IdOf, events>>,
           \A x \in Ids : x # id => records'[x] = records[x],
           BarReply' = BarReply
    PROVE  BarMove(id, StatusOf(records'[id].state))
<1>1. BarStatus' = [BarStatus EXCEPT ![id] = StatusOf(records'[id].state)]
    BY DEF BarStatus
<1>2. \A x \in Ids : PromisedNews(x)' = PromisedNews(x)
    BY DEF PromisedNews, Published
<1>3. UNCHANGED <<BarId, BarTold>>
    BY <1>2 DEF BarId, BarTold
<1> QED
    BY <1>1, <1>3 DEF BarMove

\* A move of the status to itself is no step.
LEMMA SameMove ==
    ASSUME NEW id \in Ids, NEW q, BarMove(id, q), BarStatus[id] = q
    PROVE  BarUnchanged
BY DEF BarMove, BarUnchanged, BarStatus

LEMMA SilentBar ==
    ASSUME TypeOK, NEW e \in Executors, SilentStep(e)
    PROVE  BarNext
<1>1. PICK m : /\ pc' = [pc EXCEPT ![e] = m]
               /\ Silent(pc[e], records[IdOf[e]].state, m, records'[IdOf[e]].state)
    BY DEF SilentStep
<1> DEFINE id == IdOf[e]
           s  == records[id].state
           q  == records'[id].state
<1>2. /\ id \in Ids /\ e \in Threads
      /\ UNCHANGED <<IdOf, events>>
      /\ \A x \in Ids : x # id => records'[x] = records[x]
    BY DEF SilentStep, TypeOK, Threads
<1>3. BarStatus[id] = StatusOf(s)
    BY <1>2 DEF BarStatus
<1>4. /\ pc'[e] = m
      /\ \A f \in Executors : f # e => pc'[f] = pc[f]
    BY <1>1, <1>2 DEF TypeOK, Threads
<1>5. CASE m # "raised"
    <2>1. /\ m \in ExecutorLabels \ {"returned_completed", "returned_failed", "raised"}
          /\ pc[e] \in ExecutorLabels \ {"returned_completed", "returned_failed", "raised"}
        BY <1>1, <1>5 DEF Silent, ExecutorLabels
    <2>2. \A f \in Executors : ReplyOf(pc'[f]) = ReplyOf(pc[f])
        BY <1>4, <2>1, Replies
    <2>3. BarReply' = BarReply
        BY <2>2 DEF BarReply
    <2>4. BarMove(id, StatusOf(q))
        BY <1>2, <2>3, StateStep
    <2>5. \/ StatusOf(s) = StatusOf(q)
          \/ StatusOf(s) = "none" /\ StatusOf(q) = "live"
          \/ StatusOf(s) = "live" /\ StatusOf(q) = "running"
          \/ StatusOf(s) \in {"live", "running"} /\ StatusOf(q) = "FAILED"
          \/ StatusOf(s) = "running" /\ StatusOf(q) = "COMPLETED"
        BY <1>1, Statuses DEF Silent
    <2> HIDE DEF s, q, id
    <2> QED
        BY <1>2, <1>3, <2>4, <2>5, SameMove DEF BarNext
<1>6. CASE m = "raised"
    <2>1. pc[e] = "fail" /\ s = "CANCELLED" /\ q = "CANCELLED"
        BY <1>1, <1>6 DEF Silent
    <2>2. BarReply[e] = "none" /\ BarStatus[id] = "CANCELLED"
        <3>1. ReplyOf("fail") = "none"
            BY Replies DEF ExecutorLabels
        <3> QED
            BY <1>2, <2>1, <3>1, Statuses DEF BarReply, BarStatus
    <2>3. BarReply' = [BarReply EXCEPT ![e] = "CANCELLED"]
        BY <1>4, <1>6, Replies DEF BarReply
    <2>4. \A x \in Ids : records'[x].state = records[x].state
        BY <1>2, <2>1
    <2>5. UNCHANGED <<BarId, BarStatus>>
        BY <1>2, <2>4 DEF BarId, BarStatus
    <2>6. \A x \in Ids : PromisedNews(x)' = PromisedNews(x)
        BY <1>2 DEF PromisedNews, Published
    <2>7. UNCHANGED BarTold
        BY <2>6 DEF BarTold
    <2> QED
        BY <2>2, <2>3, <2>5, <2>7 DEF BarNext, BarAnswer
<1> QED
    BY <1>5, <1>6

LEMMA SpokenBar ==
    ASSUME TypeOK, PhaseInv, NEW e \in Executors, NEW m, NEW type, NEW accepted \in BOOLEAN,
           SpokenAs(e, m, type, accepted)
    PROVE  BarNext
<1>0. PICK id \in Ids : id = IdOf[e]
    BY DEF TypeOK, Threads
<1> DEFINE s == records[id].state
<1>1. /\ UNCHANGED <<IdOf, records>>
      /\ pc' = [pc EXCEPT ![e] = m]
      /\ Spoken(pc[e], s, m, type)
      /\ \A x \in Ids : \A ty :
            Published(x, ty)' <=> Published(x, ty) \/ (accepted /\ x = id /\ ty = type)
    BY <1>0 DEF SpokenAs
<1>2. /\ id \in Ids /\ e \in Threads /\ pc'[e] = m
      /\ \A f \in Executors : f # e => pc'[f] = pc[f]
    BY <1>0, <1>1 DEF TypeOK, Threads
<1>3. UNCHANGED <<BarId, BarStatus>> /\ BarStatus[id] = StatusOf(s)
    BY <1>1, <1>2 DEF BarId, BarStatus
<1>4. /\ Published(id, "EXECUTION_COMPLETED") => s = "COMPLETED"
      /\ Published(id, "EXECUTION_FAILED") => s = "FAILED"
    BY <1>0, <1>2 DEF PhaseInv, Agrees
<1>5. \A x \in Ids : x # id => PromisedNews(x)' = PromisedNews(x)
    BY <1>1, News
<1>6. CASE m = "call"
    <2>1. pc[e] = "publish_started" /\ type = "EXECUTION_STARTED"
        BY <1>1, <1>6 DEF Spoken
    <2>2. ReplyOf("publish_started") = "none" /\ ReplyOf("call") = "none"
        BY Replies DEF ExecutorLabels
    <2>3. UNCHANGED BarReply
        BY <1>2, <1>6, <2>1, <2>2 DEF BarReply
    <2>4. PromisedNews(id)' = PromisedNews(id)
        BY <1>1, <1>2, <2>1, News
    <2>5. \A x \in Ids : PromisedNews(x)' = PromisedNews(x)
        BY <1>5, <2>4
    <2>6. UNCHANGED BarTold
        BY <2>5 DEF BarTold
    <2> QED
        BY <1>3, <2>3, <2>6 DEF BarNext, BarUnchanged
<1>7. ASSUME NEW o \in {"COMPLETED", "FAILED"}, s = o, ReplyOf(m) = o, ReplyOf(pc[e]) = "none",
             \/ PromisedNews(id)' = PromisedNews(id)
             \/ PromisedNews(id)' = o
      PROVE  BarNext
    <2>1. BarReply[e] = "none" /\ BarReply' = [BarReply EXCEPT ![e] = o]
        BY <1>2, <1>7 DEF BarReply
    <2>2. BarStatus[id] = o
        BY <1>3, <1>7, Statuses
    <2>3. UNCHANGED BarTold \/ BarTold' = [BarTold EXCEPT ![id] = o]
        <3>1. CASE PromisedNews(id)' = PromisedNews(id)
            <4>1. \A x \in Ids : PromisedNews(x)' = PromisedNews(x)
                BY <1>5, <3>1
            <4> QED
                BY <4>1 DEF BarTold
        <3>2. CASE PromisedNews(id)' = o
            <4>1. \A x \in Ids : PromisedNews(x)' = IF x = id THEN o ELSE PromisedNews(x)
                BY <1>5, <3>2
            <4> QED
                BY <1>2, <4>1 DEF BarTold
        <3> QED
            BY <1>7, <3>1, <3>2
    <2> HIDE DEF s
    <2> QED
        BY <1>0, <1>3, <2>1, <2>2, <2>3 DEF BarNext, BarAnswer
<1>8. CASE m = "returned_completed"
    <2>1. pc[e] = "publish_completed" /\ type = "EXECUTION_COMPLETED" /\ s = "COMPLETED"
        BY <1>1, <1>8 DEF Spoken
    <2>2. ReplyOf("publish_completed") = "none" /\ ReplyOf(m) = "COMPLETED"
        BY <1>8, Replies DEF ExecutorLabels
    <2>3. PromisedNews(id)' = PromisedNews(id) \/ PromisedNews(id)' = "COMPLETED"
        BY <1>1, <1>2, <2>1, News
    <2> QED
        BY <1>7, <2>1, <2>2, <2>3
<1>9. CASE m = "returned_failed"
    <2>1. /\ pc[e] \in {"publish_rejected", "publish_failed"}
          /\ type = "EXECUTION_FAILED" /\ s = "FAILED"
        BY <1>1, <1>9 DEF Spoken
    <2>2. ReplyOf(pc[e]) = "none" /\ ReplyOf(m) = "FAILED"
        BY <1>9, <2>1, Replies DEF ExecutorLabels
    <2>3. PromisedNews(id)' = PromisedNews(id) \/ PromisedNews(id)' = "FAILED"
        BY <1>1, <1>2, <1>4, <2>1, News
    <2> QED
        BY <1>7, <2>1, <2>2, <2>3
<1> QED
    BY <1>1, <1>6, <1>8, <1>9 DEF Spoken

LEMMA CancelBar ==
    ASSUME TypeOK, NEW c \in Cancellers, CancelStep(c)
    PROVE  BarNext
<1> DEFINE id == IdOf[c]
           s  == records[id].state
           q  == records'[id].state
<1>1. /\ id \in Ids /\ UNCHANGED <<IdOf, events>>
      /\ \A x \in Ids : x # id => records'[x] = records[x]
      /\ q = s \/ (s = "RUNNING" /\ q = "CANCELLED")
    BY DEF CancelStep, TypeOK, Threads
<1>2. \A e \in Executors : pc'[e] = pc[e]
    BY ThreadsAssumption DEF CancelStep, TypeOK, Threads
<1>3. BarReply' = BarReply
    BY <1>2 DEF BarReply
<1>4. BarMove(id, StatusOf(q)) /\ BarStatus[id] = StatusOf(s)
    BY <1>1, <1>3, StateStep DEF BarStatus
<1>5. StatusOf(q) = StatusOf(s) \/ (StatusOf(s) = "running" /\ StatusOf(q) = "CANCELLED")
    BY <1>1, Statuses
<1> HIDE DEF id, s, q
<1> QED
    BY <1>1, <1>4, <1>5, SameMove DEF BarNext

LEMMA NextPromise ==
    ASSUME TypeOK, ResultInv, PhaseInv, Alone, [Next]_vars
    PROVE  [Promise!Next]_(Promise!vars)
<1>0. CancelAfterStart
    BY DEF Alone
<1>1. CASE Quiescent \/ UNCHANGED vars
    <2>1. UNCHANGED <<IdOf, records, pc, events>>
        BY <1>1 DEF Quiescent, vars
    <2>2. \A id \in Ids : PromisedNews(id)' = PromisedNews(id)
        BY <2>1 DEF PromisedNews, Published
    <2>3. BarUnchanged
        BY <2>1, <2>2 DEF BarUnchanged, BarId, BarStatus, BarReply, BarTold
    <2> QED
        BY <2>3, BarImplies DEF BarNext
<1>2. ASSUME NEW e \in Executors, execute(e)
      PROVE  BarNext
    BY <1>2, ExecuteEffect, SilentBar, SpokenBar DEF SpokenStep
<1>3. ASSUME NEW c \in Cancellers, cancel_execution(c)
      PROVE  BarNext
    BY <1>0, <1>3, CancelEffect, CancelBar
<1> QED
    BY <1>1, <1>2, <1>3, BarImplies DEF Next

LEMMA InitPromise == Init => Promise!Init
<1> SUFFICES ASSUME Init PROVE Promise!Init
    OBVIOUS
<1>1. BarId \in [Executors -> Ids]
    BY ThreadsAssumption DEF BarId, Init, Threads
<1>2. BarStatus = [id \in Ids |-> "none"]
    <2>1. StatusOf(Absent.state) = "none"
        BY Statuses DEF Absent
    <2> QED
        BY <2>1 DEF BarStatus, Init
<1>3. BarReply = [e \in Executors |-> "none"]
    <2>1. ReplyOf("start") = "none"
        BY Replies DEF ExecutorLabels
    <2> QED
        BY <2>1 DEF BarReply, Init, Threads
<1>4. BarTold = [id \in Ids |-> "none"]
    <2>1. ASSUME NEW id \in Ids
          PROVE  PromisedNews(id) = "none"
        <3>1. DOMAIN events[id] = {}
            BY EmptySeq DEF Init
        <3> QED
            BY <3>1 DEF PromisedNews, Published
    <2> QED
        BY <2>1 DEF BarTold
<1> QED
    BY <1>1, <1>2, <1>3, <1>4, Bars DEF BarId, BarTold, Promise!Init

\* The lifecycle implements the safety part of its promise: an execution
\* settles once, and its answer and its events are how it settled.  The
\* liveness part of PromiseKept is left to the model checker.
THEOREM PromiseSafe ==
    Spec /\ []Alone => Promise!Init /\ [][Promise!Next]_(Promise!vars)
BY InitType, NextType, InitResult, NextResult, InitPhase, NextPhase, InitPromise, NextPromise,
   PTL DEF Spec
=============================================================================
