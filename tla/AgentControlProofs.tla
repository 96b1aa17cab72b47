------------------------ MODULE AgentControlProofs ------------------------
(***************************************************************************)
(* Theorems about AgentControl, for all sets of threads, executions and    *)
(* operation ids, all capabilities and all bounds.                         *)
(***************************************************************************)
EXTENDS AgentControl, TLAPS

Inside == {"execute", "stop", "signal", "record"}

\* A thread that waits or executes holds the arguments of its call, and one
\* that is about to record has the executor's answer.
CallInv ==
    \A c \in Controllers :
        /\ ctl[c] # "idle" => call[c] \in Calls
        /\ ctl[c] = "record" => status[c] \in Statuses

TypeInv == TypeOK /\ CallInv

LEMMA TypeInit == Init => TypeInv
BY ControlAssumption DEF Init, TypeInv, TypeOK, CallInv

\* The arguments of a call have their types.
LEMMA CallFields ==
    ASSUME NEW k \in Calls
    PROVE  /\ k \in Call
           /\ k.execution_id \in Executions /\ k.action \in Actions
           /\ k.operation_id \in OpIds /\ k.hard \in BOOLEAN
BY ControlAssumption DEF Call

\* Recording an answer keeps the types of the results and of the audit
\* history.
LEMMA AuditedTypes ==
    ASSUME TypeOK, NEW k \in Calls, NEW s \in Statuses, Audited(k, s),
           seq_counters' \in [Executions -> Nat]
    PROVE  /\ operations' \in [OpIds -> Result \cup {NoResult}]
           /\ history' \in [Executions -> Seq(AuditRecord)]
<1>1. k.execution_id \in Executions /\ k.action \in Actions /\ k.operation_id \in OpIds
  BY CallFields
<1>2. [execution_id |-> k.execution_id, action |-> k.action, status |-> s] \in Result
  BY <1>1 DEF Result
<1>3. operations' \in [OpIds -> Result \cup {NoResult}]
  BY <1>2 DEF Audited, TypeOK
<1>4. [operation_id |-> k.operation_id, status |-> s,
       sequence |-> seq_counters'[k.execution_id]] \in AuditRecord
  BY <1>1 DEF AuditRecord
<1>5. history' \in [Executions -> Seq(AuditRecord)]
  BY <1>1, <1>4 DEF Audited, TypeOK
<1> QED
  BY <1>3, <1>5

\* No step breaks the types.
LEMMA TypeStep == TypeInv /\ [Next]_vars => TypeInv'
<1> SUFFICES ASSUME TypeInv, [Next]_vars PROVE TypeInv'
  OBVIOUS
<1> USE ControlAssumption DEF TypeInv, boundary, threads, processes, stepping, counted
<1>1. ASSUME NEW s \in Steppers, execute_step(s) PROVE TypeInv'
  BY <1>1 DEF execute_step, TypeOK, CallInv
<1>2. ASSUME NEW s \in Steppers, Step(s) PROVE TypeInv'
  <2>1. CASE Launch(s)
    BY <2>1 DEF Launch, TypeOK, CallInv
  <2>2. CASE Register(s)
    BY <2>2 DEF Register, TypeOK, CallInv
  <2>3. CASE Communicate(s)
    BY <2>3 DEF Communicate, TypeOK, CallInv
  <2>4. CASE TimeOut(s)
    BY <2>4 DEF TimeOut, Signalled, TypeOK, CallInv
  <2>5. CASE Reap(s)
    BY <2>5 DEF Reap, TypeOK, CallInv
  <2>6. CASE Finally(s)
    BY <2>6 DEF Finally, TypeOK, CallInv
  <2>7. CASE Publish(s)
    BY <2>7 DEF Publish, TypeOK, CallInv
  <2> QED
    BY <1>2, <2>1, <2>2, <2>3, <2>4, <2>5, <2>6, <2>7 DEF Step
<1>3. ASSUME NEW s \in Steppers, Exit(s) PROVE TypeInv'
  BY <1>3 DEF Exit, ReturnCodes, TypeOK, CallInv
<1>4. ASSUME NEW c \in Controllers, dispatch_control(c) PROVE TypeInv'
  BY <1>4 DEF dispatch_control, TypeOK, CallInv
<1>5. ASSUME NEW c \in Controllers, Dispatch(c) PROVE TypeInv'
  <2>1. CASE Repeat(c)
    BY <2>1, CallFields DEF Repeat, Admitted, Answered, TypeOK, CallInv
  <2>2. CASE Settle(c)
    <3> DEFINE k == call[c]
    <3>1. k \in Calls /\ k.execution_id \in Executions
      BY <2>2, CallFields DEF Settle, Admitted, CallInv
    <3>2. seq_counters' \in [Executions -> Nat]
      BY <2>2, <3>1 DEF Settle, Admitted, TypeOK
    <3>3. PICK a \in Statuses : Audited(k, a)
      BY <2>2 DEF Settle, Statuses
    <3>4. /\ operations' \in [OpIds -> Result \cup {NoResult}]
          /\ history' \in [Executions -> Seq(AuditRecord)]
      BY <3>1, <3>2, <3>3, AuditedTypes
    <3> QED
      BY <2>2, <3>2, <3>4 DEF Settle, Answered, TypeOK, CallInv
  <2>3. CASE Hand(c)
    BY <2>3, CallFields, SMTT(30) DEF Hand, Admitted, TypeOK, CallInv
  <2>4. CASE execute_control(c)
    <3>1. call[c] \in Calls /\ call[c].operation_id \in OpIds
      BY <2>4, CallFields DEF execute_control, CallInv
    <3>2. received' \in [OpIds -> Nat]
      BY <2>4, <3>1 DEF execute_control, TypeOK
    <3>3. \/ \E a \in Statuses : Executed(c, a)
          \/ ctl' = [ctl EXCEPT ![c] = "stop"] /\ UNCHANGED status
      BY <2>4 DEF execute_control, Statuses
    <3>4. UNCHANGED <<boundary, call, reached, processes, stepping, made, configured>>
      BY <2>4 DEF execute_control
    <3>5. CASE \E a \in Statuses : Executed(c, a)
      BY <3>1, <3>2, <3>4, <3>5 DEF Executed, TypeOK, CallInv
    <3>6. CASE ctl' = [ctl EXCEPT ![c] = "stop"] /\ UNCHANGED status
      BY <3>1, <3>2, <3>4, <3>6 DEF TypeOK, CallInv
    <3> QED
      BY <3>3, <3>5, <3>6
  <2>5. CASE FindNone(c)
    BY <2>5 DEF FindNone, Executed, Statuses, TypeOK, CallInv
  <2>6. CASE Find(c)
    BY <2>6 DEF Find, TypeOK, CallInv
  <2>7. CASE Signal(c)
    BY <2>7, ZenonT(40) DEF Signal, Signalled, Executed, Statuses, TypeOK, CallInv
  <2>8. CASE SignalRefused(c)
    BY <2>8 DEF SignalRefused, Executed, Statuses, TypeOK, CallInv
  <2>9. CASE Record(c)
    <3>1. call[c] \in Calls /\ status[c] \in Statuses
      BY <2>9 DEF Record, CallInv
    <3>2. seq_counters' \in [Executions -> Nat]
      BY <2>9 DEF Record, TypeOK
    <3>3. /\ operations' \in [OpIds -> Result \cup {NoResult}]
          /\ history' \in [Executions -> Seq(AuditRecord)]
      BY <2>9, <3>1, <3>2, AuditedTypes DEF Record
    <3> QED
      BY <2>9, <3>2, <3>3 DEF Record, Answered, TypeOK, CallInv
  <2> QED
    BY <1>5, <2>1, <2>2, <2>3, <2>4, <2>5, <2>6, <2>7, <2>8, <2>9 DEF Dispatch
<1>6. ASSUME NEW x \in Executions, register_executor(x) PROVE TypeInv'
  BY <1>6 DEF register_executor, TypeOK, CallInv
<1>7. ASSUME NEW x \in Executions, NEW d \in Declared, register_capability(x, d)
      PROVE  TypeInv'
  BY <1>7 DEF register_capability, TypeOK, CallInv
<1>8. CASE clear
  BY <1>8 DEF clear, TypeOK, CallInv
<1>9. CASE UNCHANGED vars
  BY <1>9 DEF vars, TypeOK, CallInv
<1> QED
  BY <1>1, <1>2, <1>3, <1>4, <1>5, <1>6, <1>7, <1>8, <1>9 DEF Next

LEMMA TypeInvariant == Spec => []TypeInv
BY TypeInit, TypeStep, PTL DEF Spec

\* Type correctness of the boundary, the adapter, the transport and the
\* threads that use them.
THEOREM TypeCorrect == Spec => []TypeOK
<1>1. TypeInv => TypeOK
  BY DEF TypeInv
<1> QED
  BY <1>1, TypeInvariant, PTL

-----------------------------------------------------------------------------
(***************************************************************************)
(* The registry of processes.                                              *)
(***************************************************************************)
\* Two steps of one execution that run at once are known to overlap.
OverlapKnown ==
    \A s, t \in Steppers :
        s # t /\ pc[s] # "idle" /\ pc[t] # "idle" /\ ExecOf[s] = ExecOf[t] =>
            ExecOf[s] \in overlapped

RegistryInv == RegistryAccurate /\ OverlapKnown

LEMMA RegistryInit == Init => RegistryInv
BY ControlAssumption DEF Init, RegistryInv, RegistryAccurate, EntriesAreSteps,
                          WaitersAreRegistered, OverlapKnown

LEMMA RegistryStep == TypeInv /\ RegistryInv /\ [Next]_vars => RegistryInv'
<1> SUFFICES ASSUME TypeInv, RegistryInv, [Next]_vars PROVE RegistryInv'
  OBVIOUS
<1>0. ASSUME UNCHANGED <<active, pc, overlapped>> PROVE RegistryInv'
  BY <1>0 DEF RegistryInv, RegistryAccurate, EntriesAreSteps, WaitersAreRegistered,
              OverlapKnown
<1>1. ASSUME NEW s \in Steppers, execute_step(s) PROVE RegistryInv'
  <2>1. RegistryAccurate'
    BY <1>1, ControlAssumption DEF execute_step, RegistryInv, RegistryAccurate, EntriesAreSteps,
                WaitersAreRegistered, TypeInv, TypeOK
  <2>2. OverlapKnown'
    BY <1>1, ControlAssumption DEF execute_step, RegistryInv, OverlapKnown, TypeInv, TypeOK
  <2> QED
    BY <2>1, <2>2 DEF RegistryInv
<1>2. ASSUME NEW s \in Steppers, Step(s) PROVE RegistryInv'
  <2>1. pc[s] # "idle" /\ UNCHANGED overlapped
    BY <1>2 DEF Step, Launch, Register, Communicate, TimeOut, Reap, Finally, Publish
  <2>2. PICK l : pc' = [pc EXCEPT ![s] = l]
    BY <1>2 DEF Step, Launch, Register, Communicate, TimeOut, Reap, Finally, Publish
  <2>3. OverlapKnown'
    BY <2>1, <2>2 DEF OverlapKnown, RegistryInv, TypeInv, TypeOK
  <2>4. /\ ExecOf \in [Steppers -> Executions] /\ None \notin Steppers
        /\ active \in [Executions -> Steppers \cup {None}]
        /\ \A t \in Steppers : t # s => pc'[t] = pc[t]
    BY <2>2, ControlAssumption DEF TypeInv, TypeOK
  <2>5. CASE Launch(s) \/ Communicate(s) \/ TimeOut(s) \/ Reap(s) \/ Publish(s)
    <3>1. UNCHANGED active
      BY <2>5 DEF Launch, Communicate, TimeOut, Reap, Publish, processes
    <3>2. /\ pc[s] \in {"communicate", "reap"} => pc'[s] \in {"reap", "finally"}
          /\ pc[s] \notin {"communicate", "reap"} => pc'[s] \notin {"communicate", "reap"}
          /\ pc[s] # "finally"
      BY <2>5 DEF Launch, Communicate, TimeOut, Reap, Publish, TypeInv, TypeOK
    <3>3. EntriesAreSteps'
      <4> SUFFICES ASSUME NEW x \in Executions, active[x] # None
                   PROVE  /\ pc'[active[x]] \in {"communicate", "reap", "finally"}
                          /\ ExecOf[active[x]] = x
        BY <3>1 DEF EntriesAreSteps
      <4>1. /\ pc[active[x]] \in {"communicate", "reap", "finally"}
            /\ ExecOf[active[x]] = x
        BY DEF EntriesAreSteps, RegistryAccurate, RegistryInv
      <4> QED
        BY <2>4, <3>2, <4>1
    <3>4. WaitersAreRegistered'
      <4> SUFFICES ASSUME NEW t \in Steppers, pc'[t] \in {"communicate", "reap"},
                          ExecOf[t] \notin overlapped
                   PROVE  active'[ExecOf[t]] = t
        BY <2>1 DEF WaitersAreRegistered
      <4>1. pc[t] \in {"communicate", "reap"}
        BY <2>4, <3>2
      <4> QED
        BY <3>1, <4>1 DEF WaitersAreRegistered, RegistryAccurate, RegistryInv
    <3> QED
      BY <2>3, <3>3, <3>4 DEF RegistryAccurate, RegistryInv
  <2>6. CASE Register(s)
    <3>1. /\ active' = [active EXCEPT ![ExecOf[s]] = s]
          /\ pc[s] = "register" /\ pc'[s] = "communicate"
      BY <2>6 DEF Register, TypeInv, TypeOK
    <3>2. EntriesAreSteps'
      BY <2>4, <3>1 DEF EntriesAreSteps, RegistryAccurate, RegistryInv
    <3>3. WaitersAreRegistered'
      <4> SUFFICES ASSUME NEW t \in Steppers, pc'[t] \in {"communicate", "reap"},
                          ExecOf[t] \notin overlapped
                   PROVE  active'[ExecOf[t]] = t
        BY <2>1 DEF WaitersAreRegistered
      <4>1. CASE t = s
        BY <2>4, <3>1, <4>1
      <4>2. CASE t # s
        <5>1. pc[t] \in {"communicate", "reap"} /\ active[ExecOf[t]] = t
          BY <2>4, <4>2 DEF WaitersAreRegistered, RegistryAccurate, RegistryInv
        <5>2. ExecOf[t] # ExecOf[s]
          BY <2>1, <4>2, <5>1 DEF OverlapKnown, RegistryInv
        <5> QED
          BY <2>4, <3>1, <5>1, <5>2
      <4> QED
        BY <4>1, <4>2
    <3> QED
      BY <2>3, <3>2, <3>3 DEF RegistryAccurate, RegistryInv
  <2>7. CASE Finally(s)
    <3>1. /\ active' = [active EXCEPT ![ExecOf[s]] = None]
          /\ pc[s] = "finally" /\ pc'[s] \in {"publish", "idle"}
      BY <2>7 DEF Finally, TypeInv, TypeOK
    <3>2. EntriesAreSteps'
      BY <2>4, <3>1 DEF EntriesAreSteps, RegistryAccurate, RegistryInv
    <3>3. WaitersAreRegistered'
      <4> SUFFICES ASSUME NEW t \in Steppers, pc'[t] \in {"communicate", "reap"},
                          ExecOf[t] \notin overlapped
                   PROVE  active'[ExecOf[t]] = t
        BY <2>1 DEF WaitersAreRegistered
      <4>1. t # s
        BY <3>1
      <4>2. pc[t] \in {"communicate", "reap"} /\ active[ExecOf[t]] = t
        BY <2>4, <4>1 DEF WaitersAreRegistered, RegistryAccurate, RegistryInv
      <4>3. ExecOf[t] # ExecOf[s]
        BY <2>1, <4>1, <4>2 DEF OverlapKnown, RegistryInv
      <4> QED
        BY <2>4, <3>1, <4>2, <4>3
    <3> QED
      BY <2>3, <3>2, <3>3 DEF RegistryAccurate, RegistryInv
  <2> QED
    BY <1>2, <2>5, <2>6, <2>7 DEF Step
<1>3. ASSUME NEW s \in Steppers, Exit(s) PROVE RegistryInv'
  BY <1>0, <1>3 DEF Exit, stepping
<1>4. ASSUME NEW c \in Controllers, dispatch_control(c) \/ Dispatch(c) PROVE RegistryInv'
  <2>1. UNCHANGED <<active, pc, overlapped>>
    BY <1>4 DEF dispatch_control, Dispatch, Repeat, Settle, Hand, execute_control,
                FindNone, Find, Signal, SignalRefused, Record, processes, stepping
  <2> QED
    BY <1>0, <2>1
<1>5. ASSUME NEW x \in Executions,
             register_executor(x) \/ \E d \in Declared : register_capability(x, d)
      PROVE  RegistryInv'
  BY <1>0, <1>5 DEF register_executor, register_capability, processes, stepping
<1>6. CASE clear
  BY <1>0, <1>6 DEF clear, processes, stepping
<1>7. CASE UNCHANGED vars
  BY <1>0, <1>7 DEF vars, processes, stepping
<1> QED
  BY <1>1, <1>2, <1>3, <1>4, <1>5, <1>6, <1>7 DEF Next

\* The transport's registry never points to a step that has left execute,
\* nor to one of another execution, and it holds the process of every step
\* that waits while its execution has not run two steps at once: a STOP
\* finds that process, and no other.
THEOREM RegistryIsAccurate == Spec => []RegistryAccurate
<1>1. RegistryInv => RegistryAccurate
  BY DEF RegistryInv
<1> QED
  BY <1>1, RegistryInit, RegistryStep, TypeInvariant, PTL DEF Spec

-----------------------------------------------------------------------------
(***************************************************************************)
(* How steps end.                                                          *)
(***************************************************************************)
\* What is known of a step and of its process at every point of execute.
EndInv ==
    \A s \in Steppers :
        /\ pc[s] \in {"idle", "launch", "finally", "publish"} => proc[s] # "running"
        /\ pc[s] \in {"launch", "register", "communicate", "reap"} => outcome[s] = "none"
        /\ pc[s] = "publish" => outcome[s] = "ok"
        /\ proc[s] = "exited" /\ "KILL" \in signals[s] => returncode[s] = -9
        /\ outcome[s] = "ok" => proc[s] = "exited" /\ returncode[s] = 0
        /\ \A n \in Nat : <<s, n>> \in announced => n <= steps[s]
        /\ <<s, steps[s]>> \in announced => outcome[s] = "ok"

LEMMA EndInit == Init => EndInv
BY DEF Init, EndInv

LEMMA EndStep == TypeInv /\ EndInv /\ [Next]_vars => EndInv'
<1> SUFFICES ASSUME TypeInv, EndInv, [Next]_vars PROVE EndInv'
  OBVIOUS
<1>0. ASSUME UNCHANGED <<proc, returncode, signals, pc, outcome, steps, announced>>
      PROVE  EndInv'
  BY <1>0 DEF EndInv
<1>1. ASSUME NEW s \in Steppers, execute_step(s) PROVE EndInv'
  BY <1>1 DEF execute_step, EndInv, TypeInv, TypeOK
<1>2. ASSUME NEW s \in Steppers, Step(s) PROVE EndInv'
  <2>1. CASE Launch(s)
    BY <2>1 DEF Launch, EndInv, TypeInv, TypeOK
  <2>2. CASE Register(s)
    BY <2>2 DEF Register, EndInv, TypeInv, TypeOK
  <2>3. CASE Communicate(s)
    BY <2>3 DEF Communicate, ProcessError, processes, EndInv, TypeInv, TypeOK
  <2>4. CASE TimeOut(s)
    BY <2>4 DEF TimeOut, Signalled, EndInv, TypeInv, TypeOK
  <2>5. CASE Reap(s)
    BY <2>5 DEF Reap, processes, EndInv, TypeInv, TypeOK
  <2>6. CASE Finally(s)
    BY <2>6 DEF Finally, EndInv, TypeInv, TypeOK
  <2>7. CASE Publish(s)
    BY <2>7 DEF Publish, processes, EndInv, TypeInv, TypeOK
  <2> QED
    BY <1>2, <2>1, <2>2, <2>3, <2>4, <2>5, <2>6, <2>7 DEF Step
<1>3. ASSUME NEW s \in Steppers, Exit(s) PROVE EndInv'
  BY <1>3 DEF Exit, ReturnCodes, stepping, EndInv, TypeInv, TypeOK
<1>4. ASSUME NEW c \in Controllers, dispatch_control(c) \/ Dispatch(c) PROVE EndInv'
  <2>1. CASE Signal(c)
    BY <2>1 DEF Signal, Signalled, stepping, EndInv, TypeInv, TypeOK
  <2>2. CASE ~Signal(c)
    BY <1>0, <1>4, <2>2
       DEF dispatch_control, Dispatch, Repeat, Settle, Hand, execute_control,
           FindNone, Find, SignalRefused, Record, processes, stepping
  <2> QED
    BY <2>1, <2>2
<1>5. ASSUME NEW x \in Executions,
             register_executor(x) \/ \E d \in Declared : register_capability(x, d)
      PROVE  EndInv'
  BY <1>0, <1>5 DEF register_executor, register_capability, processes, stepping
<1>6. CASE clear
  BY <1>0, <1>6 DEF clear, processes, stepping
<1>7. CASE UNCHANGED vars
  BY <1>0, <1>7 DEF vars, processes, stepping
<1> QED
  BY <1>1, <1>2, <1>3, <1>4, <1>5, <1>6, <1>7 DEF Next

\* However time-outs, STOPs and exits race, a step returns only after its
\* process has ended, and succeeds only if that process was not killed and
\* ended without an error.
THEOREM StepsAlwaysEndTruly == Spec => []StepsEndTruly
<1>1. TypeInv /\ EndInv => StepsEndTruly
  BY DEF EndInv, StepsEndTruly
<1> QED
  BY <1>1, EndInit, EndStep, TypeInvariant, PTL DEF Spec

-----------------------------------------------------------------------------
(***************************************************************************)
(* What a STOP does.                                                       *)
(***************************************************************************)
\* Only a STOP looks for a process, and between the look-up and the signal the
\* transport's lock keeps an entry for its execution.
AimInv ==
    \A c \in Controllers :
        /\ ctl[c] \in {"stop", "signal"} => call[c].action = "STOP"
        /\ ctl[c] = "signal" => active[call[c].execution_id] # None

LEMMA AimInit == Init => AimInv
BY DEF Init, AimInv

\* What a step of a controller's dispatch leaves alone, whoever looks.
LEMMA DispatchIsLocal ==
    ASSUME TypeInv, NEW c \in Controllers, dispatch_control(c) \/ Dispatch(c)
    PROVE  /\ UNCHANGED <<active, proc, pc>>
           /\ \A d \in Controllers : d # c => ctl'[d] = ctl[d] /\ call'[d] = call[d]
           /\ ctl'[c] \in {"stop", "signal"} => call'[c] = call[c]
           /\ ctl'[c] = "stop" => call[c].action = "STOP"
           /\ ctl'[c] = "signal" => ctl[c] = "stop" /\ HasProcess(call[c].execution_id)
<1> USE DEF TypeInv, TypeOK, processes, stepping, Answered
<1>1. CASE dispatch_control(c)
  <2>1. PICK k : call' = [call EXCEPT ![c] = k]
    BY <1>1 DEF dispatch_control
  <2> QED
    BY <1>1, <2>1 DEF dispatch_control
<1>2. CASE Repeat(c)
  BY <1>2 DEF Repeat
<1>3. CASE Settle(c)
  BY <1>3 DEF Settle
<1>4. CASE Hand(c)
  BY <1>4 DEF Hand
<1>5. CASE execute_control(c)
  BY <1>5 DEF execute_control, Executed
<1>6. CASE FindNone(c)
  BY <1>6 DEF FindNone, Executed
<1>7. CASE Find(c)
  BY <1>7 DEF Find
<1>8. CASE Signal(c)
  BY <1>8 DEF Signal, Executed
<1>9. CASE SignalRefused(c)
  BY <1>9 DEF SignalRefused, Executed
<1>10. CASE Record(c)
  BY <1>10 DEF Record
<1> QED
  BY <1>1, <1>2, <1>3, <1>4, <1>5, <1>6, <1>7, <1>8, <1>9, <1>10 DEF Dispatch

LEMMA AimStep == TypeInv /\ AimInv /\ [Next]_vars => AimInv'
<1> SUFFICES ASSUME TypeInv, AimInv, [Next]_vars PROVE AimInv'
  OBVIOUS
<1>0. ASSUME UNCHANGED <<active, ctl, call>> PROVE AimInv'
  BY <1>0 DEF AimInv
<1>1. ASSUME NEW s \in Steppers, Register(s) \/ Finally(s) PROVE AimInv'
  BY <1>1 DEF Register, Finally, TransportFree, threads, AimInv
<1>2. ASSUME NEW s \in Steppers, execute_step(s) \/ Step(s) \/ Exit(s),
             ~Register(s), ~Finally(s)
      PROVE  AimInv'
  BY <1>0, <1>2 DEF execute_step, Step, Launch, Communicate, TimeOut, Reap, Publish, Exit,
                    threads, processes
<1>3. ASSUME NEW c \in Controllers, dispatch_control(c) \/ Dispatch(c) PROVE AimInv'
  <2>1. ASSUME NEW d \in Controllers, d # c
        PROVE  /\ ctl'[d] \in {"stop", "signal"} => call'[d].action = "STOP"
               /\ ctl'[d] = "signal" => active'[call'[d].execution_id] # None
    BY <1>3, <2>1, DispatchIsLocal DEF AimInv
  <2>2. /\ ctl'[c] \in {"stop", "signal"} => call'[c].action = "STOP"
        /\ ctl'[c] = "signal" => active'[call'[c].execution_id] # None
    BY <1>3, DispatchIsLocal DEF AimInv, HasProcess
  <2> QED
    BY <2>1, <2>2 DEF AimInv
<1>4. ASSUME NEW x \in Executions,
             register_executor(x) \/ \E d \in Declared : register_capability(x, d)
      PROVE  AimInv'
  BY <1>0, <1>4 DEF register_executor, register_capability, processes, threads
<1>5. CASE clear
  BY <1>0, <1>5 DEF clear, processes, threads
<1>6. CASE UNCHANGED vars
  BY <1>0, <1>6 DEF vars, processes, threads
<1> QED
  BY <1>1, <1>2, <1>3, <1>4, <1>5, <1>6 DEF Next

\* A controller's answer from its look-up is that of a step of its own, which
\* found no process.
LEMMA OnlyNoneFound ==
    ASSUME TypeInv, [Next]_vars, NEW c \in Controllers,
           ctl[c] = "stop", ctl'[c] = "record"
    PROVE  ~HasProcess(call[c].execution_id)
<1>1. ASSUME NEW d \in Controllers, dispatch_control(d) \/ Dispatch(d)
      PROVE  ~HasProcess(call[c].execution_id)
  <2>1. d = c
    BY <1>1, DispatchIsLocal
  <2>2. FindNone(c) \/ Find(c)
    BY <1>1, <2>1 DEF dispatch_control, Dispatch, Repeat, Settle, Hand, Admitted,
                      execute_control, Signal, SignalRefused, Record
  <2>3. ~Find(c)
    BY DEF Find, TypeInv, TypeOK
  <2> QED
    BY <2>2, <2>3 DEF FindNone
<1>2. UNCHANGED ctl => ~HasProcess(call[c].execution_id)
  OBVIOUS
<1>3. ASSUME NEW s \in Steppers, execute_step(s) \/ Step(s) \/ Exit(s)
      PROVE  UNCHANGED ctl
  BY <1>3 DEF execute_step, Step, Launch, Register, Communicate, TimeOut, Reap, Finally,
              Publish, Exit, threads
<1>4. ASSUME NEW x \in Executions,
             register_executor(x) \/ \E d \in Declared : register_capability(x, d)
      PROVE  UNCHANGED ctl
  BY <1>4 DEF register_executor, register_capability, threads
<1>5. clear \/ UNCHANGED vars => UNCHANGED ctl
  BY DEF clear, vars, threads
<1> QED
  BY <1>1, <1>2, <1>3, <1>4, <1>5 DEF Next

\* Where the documented claim that a STOP reaches the process fails is exactly
\* known: a STOP that is answered without a signal misses only a process that
\* is not registered yet, or one of an execution that ran two steps at once.
THEOREM StopsReachFindable == Spec => StopReachesFindable
<1>1. ASSUME TypeInv, RegistryInv, EndInv, [Next]_vars
      PROVE  [\A c \in Controllers, s \in Steppers :
                 /\ ctl[c] = "stop" /\ ctl'[c] = "record" /\ status'[c] = "COMPLETED"
                 /\ ExecOf[s] = call[c].execution_id /\ Findable(s)
                 => proc[s] # "running"]_vars
  <2> SUFFICES ASSUME NEW c \in Controllers, NEW s \in Steppers,
                      ctl[c] = "stop", ctl'[c] = "record",
                      ExecOf[s] = call[c].execution_id, Findable(s), proc[s] = "running"
               PROVE  FALSE
    OBVIOUS
  <2>1. pc[s] \in {"communicate", "reap"}
    BY <1>1 DEF Findable, EndInv, TypeInv, TypeOK
  <2>2. active[ExecOf[s]] = s
    BY <1>1, <2>1 DEF Findable, RegistryInv, RegistryAccurate, WaitersAreRegistered
  <2>3. HasProcess(call[c].execution_id)
    BY <2>2, ControlAssumption DEF HasProcess
  <2> QED
    BY <1>1, <2>3, OnlyNoneFound
<1> QED
  BY <1>1, TypeInvariant, RegistryInit, RegistryStep, EndInit, EndStep, PTL
     DEF Spec, StopReachesFindable

\* Who may signal a process: its own step on a time-out, or a STOP of its
\* execution, while the step has not returned.
THEOREM SignalsStay == Spec => SignalsStayHome
<1> DEFINE Home(s, signal) ==
             /\ pc[s] \in {"communicate", "reap", "finally"}
             /\ \/ pc[s] = "communicate" /\ pc'[s] = "reap" /\ signal = "KILL"
                \/ \E c \in Controllers :
                      /\ ctl[c] = "signal" /\ ctl'[c] = "record"
                      /\ call[c].action = "STOP" /\ call[c].execution_id = ExecOf[s]
                      /\ signal = IF call[c].hard THEN "KILL" ELSE "TERM"
<1>1. ASSUME TypeInv, RegistryInv, AimInv, [Next]_vars
      PROVE  \A s \in Steppers : \A signal \in signals'[s] \ signals[s] : Home(s, signal)
  <2> SUFFICES ASSUME NEW s \in Steppers, NEW signal \in signals'[s] \ signals[s]
               PROVE  Home(s, signal)
    OBVIOUS
  <2>1. ASSUME UNCHANGED signals PROVE FALSE
    BY <2>1
  <2>2. ASSUME NEW t \in Steppers, TimeOut(t) PROVE Home(s, signal)
    <3>1. t = s /\ signal = "KILL"
      BY <1>1, <2>2 DEF TimeOut, Signalled, TypeInv, TypeOK
    <3> QED
      BY <1>1, <2>2, <3>1 DEF TimeOut, TypeInv, TypeOK
  <2>3. ASSUME NEW t \in Steppers, execute_step(t) PROVE FALSE
    BY <1>1, <2>3 DEF execute_step, TypeInv, TypeOK
  <2>4. ASSUME NEW t \in Steppers, Step(t) \/ Exit(t), ~TimeOut(t) PROVE FALSE
    BY <2>1, <2>4 DEF Step, Launch, Register, Communicate, Reap, Finally, Publish, Exit,
                      processes
  <2>5. ASSUME NEW c \in Controllers, Signal(c) PROVE Home(s, signal)
    <3> DEFINE x == call[c].execution_id
               sent == IF call[c].hard THEN "KILL" ELSE "TERM"
    <3>1. ctl[c] = "signal" /\ ctl'[c] = "record" /\ Signalled(active[x], sent)
      BY <1>1, <2>5 DEF Signal, Executed, TypeInv, TypeOK
    <3>2. x \in Executions /\ active[x] \in Steppers
      BY <1>1, <3>1, CallFields DEF AimInv, TypeInv, CallInv, TypeOK
    <3>3. s = active[x] /\ signal = sent
      BY <1>1, <3>1, <3>2 DEF Signalled, TypeInv, TypeOK
    <3>4. pc[s] \in {"communicate", "reap", "finally"} /\ ExecOf[s] = x
      BY <1>1, <3>2, <3>3, ControlAssumption DEF RegistryInv, RegistryAccurate, EntriesAreSteps
    <3>5. call[c].action = "STOP"
      BY <1>1, <3>1 DEF AimInv
    <3> QED
      BY <3>1, <3>3, <3>4, <3>5
  <2>6. ASSUME NEW c \in Controllers, dispatch_control(c) \/ Dispatch(c), ~Signal(c)
        PROVE  FALSE
    BY <2>1, <2>6 DEF dispatch_control, Dispatch, Repeat, Settle, Hand, execute_control,
                      FindNone, Find, SignalRefused, Record, processes
  <2>7. ASSUME NEW x \in Executions,
               register_executor(x) \/ \E d \in Declared : register_capability(x, d)
        PROVE  FALSE
    BY <2>1, <2>7 DEF register_executor, register_capability, processes
  <2>8. ~clear /\ ~UNCHANGED vars
    BY <2>1 DEF clear, vars, processes
  <2> QED
    BY <1>1, <2>2, <2>3, <2>4, <2>5, <2>6, <2>7, <2>8 DEF Next
<1>2. ASSUME TypeInv, RegistryInv, AimInv, [Next]_vars
      PROVE  [\A s \in Steppers : \A signal \in signals'[s] \ signals[s] :
                 /\ pc[s] \in {"communicate", "reap", "finally"}
                 /\ \/ pc[s] = "communicate" /\ pc'[s] = "reap" /\ signal = "KILL"
                    \/ \E c \in Controllers :
                          /\ ctl[c] = "signal" /\ ctl'[c] = "record"
                          /\ call[c].action = "STOP" /\ call[c].execution_id = ExecOf[s]
                          /\ signal = IF call[c].hard THEN "KILL" ELSE "TERM"]_vars
  BY <1>1, <1>2
<1> QED
  BY <1>2, TypeInvariant, RegistryInit, RegistryStep, AimInit, AimStep, PTL
     DEF Spec, SignalsStayHome

-----------------------------------------------------------------------------
(***************************************************************************)
(* The audit.                                                              *)
(***************************************************************************)
\* The thread that executes is the one that holds the lock.
OneInside == \A c \in Controllers : ctl[c] \in Inside <=> busy = c

\* What is executed has no result yet, and the thread's sequence number is
\* above those recorded for its execution.
InsideIsFresh ==
    \A c \in Controllers : ctl[c] \in Inside =>
        /\ operations[call[c].operation_id] = NoResult
        /\ \A i \in DOMAIN history[call[c].execution_id] :
              history[call[c].execution_id][i].sequence < seq_counters[call[c].execution_id]

Executing(o) ==
    \E c \in Controllers : ctl[c] \in Inside \ {"execute"} /\ call[c].operation_id = o

\* An operation that was executed has a result or is still being executed.
ReceivedOnce ==
    \A o \in OpIds :
        /\ received[o] <= 1
        /\ received[o] = 1 => operations[o] # NoResult \/ Executing(o)

CountersBound ==
    \A x \in Executions : \A i \in DOMAIN history[x] :
        history[x][i].sequence <= seq_counters[x]

Trail == OneRecordPerOperation /\ SequencesIncrease

AuditInv ==
    OneInside /\ InsideIsFresh /\ ReceivedOnce /\ CountersBound /\ Trail

LEMMA AuditInit == Init => AuditInv
BY ControlAssumption
   DEF Init, AuditInv, OneInside, InsideIsFresh, ReceivedOnce, CountersBound, Trail,
       OneRecordPerOperation, SequencesIncrease, Records, Inside

\* Recording the first answer to an operation, under a sequence number above
\* those of its execution, keeps the audit in order.
LEMMA AuditedTrail ==
    ASSUME TypeOK, Trail, NEW k \in Calls, NEW s \in Statuses, Audited(k, s),
           seq_counters' \in [Executions -> Nat],
           operations[k.operation_id] = NoResult,
           \A i \in DOMAIN history[k.execution_id] :
              history[k.execution_id][i].sequence < seq_counters'[k.execution_id]
    PROVE  /\ Trail'
           /\ \A i \in DOMAIN history'[k.execution_id] :
                 history'[k.execution_id][i].sequence <= seq_counters'[k.execution_id]
           /\ operations'[k.operation_id] # NoResult
           /\ \A o \in OpIds : o # k.operation_id => operations'[o] = operations[o]
           /\ \A x \in Executions : x # k.execution_id => history'[x] = history[x]
<1> DEFINE x == k.execution_id
           o == k.operation_id
           r == [operation_id |-> o, status |-> s, sequence |-> seq_counters'[x]]
           n == Len(history[x]) + 1
<1>1. x \in Executions /\ o \in OpIds /\ k.action \in Actions
  BY CallFields
<1>2. /\ operations' = [operations EXCEPT ![o] =
            [execution_id |-> x, action |-> k.action, status |-> s]]
      /\ history' = [history EXCEPT ![x] = Append(@, r)]
  BY DEF Audited
<1>3. /\ operations \in [OpIds -> Result \cup {NoResult}]
      /\ history \in [Executions -> Seq(AuditRecord)]
      /\ history[x] \in Seq(AuditRecord)
  BY <1>1 DEF TypeOK
<1>4. r \in AuditRecord /\ seq_counters'[x] \in Nat
  BY <1>1 DEF AuditRecord
<1>5. /\ n \in Nat /\ n >= 1 /\ DOMAIN history[x] = 1..(n - 1)
      /\ DOMAIN history'[x] = 1..n
      /\ history'[x][n] = r
      /\ \A i \in 1..(n - 1) : history'[x][i] = history[x][i]
  <2> HIDE DEF r
  <2>1. history'[x] = Append(history[x], r)
    BY <1>1, <1>2, <1>3
  <2> QED
    BY <1>3, <1>4, <2>1
<1>6. \A i \in 1..(n - 1) : history[x][i] \in AuditRecord
  BY <1>3, <1>5
<1>7. \A y \in Executions : y # x => history'[y] = history[y]
  BY <1>2, <1>3
<1>8. /\ operations'[o] = [execution_id |-> x, action |-> k.action, status |-> s]
      /\ operations'[o] \in Result
      /\ \A p \in OpIds : p # o => operations'[p] = operations[p]
  BY <1>1, <1>2, <1>3 DEF Result
<1>9. operations'[o] # NoResult
  <2>1. operations'[o].status = s /\ NoResult.status = "NONE"
    BY <1>8 DEF NoResult
  <2> QED
    BY <2>1 DEF Statuses
<1> HIDE DEF n
<1>10. /\ n - 1 \in Nat /\ r.sequence = seq_counters'[x] /\ r.operation_id = o /\ r.status = s
       /\ \A i \in 1..(n - 1) : history[x][i].sequence < seq_counters'[x]
       /\ \A i \in 1..n : i = n \/ i \in 1..(n - 1)
       /\ operations[o] = NoResult
  BY <1>5
<1> HIDE DEF x, o, r
<1>11. SequencesIncrease'
  <2> SUFFICES ASSUME NEW y \in Executions,
                      NEW i \in DOMAIN history'[y], NEW j \in DOMAIN history'[y], i < j
               PROVE  history'[y][i].sequence < history'[y][j].sequence
    BY DEF SequencesIncrease
  <2>1. CASE y # x
    <3>1. history'[y] = history[y]
      BY <1>7, <2>1
    <3> QED
      BY <3>1 DEF Trail, SequencesIncrease
  <2>2. CASE y = x /\ j = n
    <3>1. i \in 1..(n - 1)
      BY <1>5, <1>10, <2>2
    <3> QED
      BY <1>5, <1>10, <2>2, <3>1
  <2>3. CASE y = x /\ j # n
    <3>1. i \in 1..(n - 1) /\ j \in 1..(n - 1)
      BY <1>5, <1>10, <2>3
    <3>2. history[x][i].sequence < history[x][j].sequence
      BY <1>1, <1>5, <3>1 DEF Trail, SequencesIncrease
    <3> QED
      BY <1>5, <2>3, <3>1, <3>2
  <2> QED
    BY <2>1, <2>2, <2>3
<1>12. OneRecordPerOperation'
  <2> SUFFICES ASSUME NEW p \in OpIds, NEW y \in Executions
               PROVE  IF operations'[p] # NoResult /\ operations'[p].execution_id = y
                      THEN \E i \in DOMAIN history'[y] :
                              /\ Records(y, p)' = {i}
                              /\ history'[y][i].status = operations'[p].status
                      ELSE Records(y, p)' = {}
    BY DEF OneRecordPerOperation
  <2>1. IF operations[p] # NoResult /\ operations[p].execution_id = y
        THEN \E i \in DOMAIN history[y] :
                Records(y, p) = {i} /\ history[y][i].status = operations[p].status
        ELSE Records(y, p) = {}
    BY DEF Trail, OneRecordPerOperation
  <2>2. CASE y # x
    <3>1. Records(y, p)' = Records(y, p)
      BY <1>7, <2>2 DEF Records
    <3>2. CASE p = o
      BY <1>8, <1>10, <2>1, <2>2, <3>1, <3>2
    <3>3. CASE p # o
      BY <1>7, <1>8, <2>1, <2>2, <3>1, <3>3
    <3> QED
      BY <3>2, <3>3
  <2>3. CASE y = x /\ p # o
    <3>1. Records(x, p)' = Records(x, p)
      BY <1>5, <1>10, <2>3 DEF Records
    <3>2. \A i \in DOMAIN history[x] : i \in DOMAIN history'[x] /\ history'[x][i] = history[x][i]
      BY <1>5, <1>10
    <3> QED
      BY <1>8, <2>1, <2>3, <3>1, <3>2
  <2>4. CASE y = x /\ p = o
    <3>1. Records(x, o) = {}
      BY <1>10, <2>1, <2>4
    <3>2. Records(x, o)' = {n}
      BY <1>5, <1>10, <3>1 DEF Records
    <3>3. history'[x][n].status = operations'[o].status
      BY <1>5, <1>8, <1>10
    <3> QED
      BY <1>5, <1>8, <1>9, <2>4, <3>2, <3>3
  <2> QED
    BY <2>2, <2>3, <2>4
<1>13. \A i \in DOMAIN history'[x] : history'[x][i].sequence <= seq_counters'[x]
  <2> SUFFICES ASSUME NEW i \in 1..n
               PROVE  history'[x][i].sequence <= seq_counters'[x]
    BY <1>5
  <2>1. CASE i = n
    BY <1>4, <1>5, <1>10, <2>1
  <2>2. CASE i # n
    BY <1>4, <1>5, <1>6, <1>10, <2>2 DEF AuditRecord
  <2> QED
    BY <2>1, <2>2
<1> QED
  BY <1>7, <1>8, <1>9, <1>11, <1>12, <1>13 DEF Trail, x, o

\* A step that leaves the boundary and its callers alone keeps the audit.
LEMMA AuditUntouched ==
    ASSUME AuditInv, UNCHANGED <<operations, history, seq_counters, busy, ctl, call, received>>
    PROVE  AuditInv'
BY DEF AuditInv, OneInside, InsideIsFresh, ReceivedOnce, Executing, CountersBound, Trail,
       OneRecordPerOperation, SequencesIncrease, Records

LEMMA AuditStep == TypeInv /\ TypeInv' /\ AuditInv /\ [Next]_vars => AuditInv'
<1> SUFFICES ASSUME TypeInv, TypeInv', AuditInv, [Next]_vars PROVE AuditInv'
  OBVIOUS
<1> USE DEF Inside
<1>1. ASSUME NEW s \in Steppers, execute_step(s) \/ Step(s) \/ Exit(s) PROVE AuditInv'
  <2>1. UNCHANGED <<operations, history, seq_counters, busy, ctl, call, received>>
    BY <1>1 DEF execute_step, Step, Launch, Register, Communicate, TimeOut, Reap, Finally,
                Publish, Exit, boundary, threads, counted
  <2> QED
    BY <2>1, AuditUntouched
<1>2. ASSUME NEW c \in Controllers, dispatch_control(c) PROVE AuditInv'
  <2>1. /\ ctl[c] = "idle"
        /\ ctl' = [ctl EXCEPT ![c] = "wait"]
        /\ \A d \in Controllers : d # c => call'[d] = call[d]
        /\ UNCHANGED <<operations, history, seq_counters, busy, received>>
    BY <1>2 DEF dispatch_control, boundary, TypeInv, TypeOK
  <2>2. \A d \in Controllers : ctl'[d] \in Inside \/ ctl[d] \in Inside =>
           ctl'[d] = ctl[d] /\ call'[d] = call[d]
    BY <2>1 DEF TypeInv, TypeOK
  <2>3. OneInside' /\ InsideIsFresh' /\ ReceivedOnce'
    BY <2>1, <2>2 DEF AuditInv, OneInside, InsideIsFresh, ReceivedOnce, Executing
  <2> QED
    BY <2>1, <2>3 DEF AuditInv, CountersBound, Trail, OneRecordPerOperation,
                      SequencesIncrease, Records
<1>3. ASSUME NEW c \in Controllers, Dispatch(c) PROVE AuditInv'
  <2> DEFINE k == call[c]
             x == k.execution_id
             o == k.operation_id
  <2>1. /\ k \in Calls /\ x \in Executions /\ o \in OpIds
        /\ ctl[c] # "idle"
    BY <1>3, CallFields
       DEF Dispatch, Repeat, Settle, Hand, execute_control, FindNone, Find, Signal,
           SignalRefused, Record, Admitted, TypeInv, CallInv
  <2>2. /\ ctl \in [Controllers -> {"idle", "wait", "execute", "stop", "signal", "record"}]
        /\ seq_counters \in [Executions -> Nat] /\ seq_counters' \in [Executions -> Nat]
        /\ received \in [OpIds -> Nat]
        /\ call \in [Controllers -> Calls \cup {None}]
        /\ \A y \in Executions : \A i \in DOMAIN history[y] : history[y][i].sequence \in Nat
    <3>1. \A y \in Executions : \A i \in DOMAIN history[y] : history[y][i] \in AuditRecord
      BY DEF TypeInv, TypeOK
    <3> QED
      BY <3>1 DEF TypeInv, TypeOK, AuditRecord
  <2>3. CASE Repeat(c) \/ Settle(c)
    <3>1. /\ busy = None /\ ctl[c] = "wait"
          /\ ctl' = [ctl EXCEPT ![c] = "idle"]
          /\ seq_counters' = [seq_counters EXCEPT ![x] = @ + 1]
          /\ UNCHANGED <<busy, received>>
      BY <2>3 DEF Repeat, Settle, Admitted, Answered, counted
    <3>2. \A d \in Controllers : ctl[d] \notin Inside /\ ctl'[d] \notin Inside
      BY <2>2, <3>1, ControlAssumption DEF AuditInv, OneInside
    <3>3. OneInside' /\ InsideIsFresh'
      BY <3>1, <3>2, ControlAssumption DEF OneInside, InsideIsFresh
    <3>4. \A p \in OpIds : ~Executing(p)
      BY <3>2 DEF Executing
    <3>5. \A y \in Executions : seq_counters[y] <= seq_counters'[y]
      BY <2>1, <2>2, <3>1
    <3>6. \A i \in DOMAIN history[x] : history[x][i].sequence < seq_counters'[x]
      BY <2>1, <2>2, <3>1 DEF AuditInv, CountersBound
    <3>7. CASE Repeat(c)
      <4>1. UNCHANGED <<operations, history>>
        BY <3>7 DEF Repeat
      <4>2. CountersBound'
        BY <2>2, <3>5, <4>1 DEF AuditInv, CountersBound
      <4>3. ReceivedOnce' /\ Trail'
        BY <3>1, <3>4, <4>1 DEF AuditInv, ReceivedOnce, Trail, OneRecordPerOperation,
                                SequencesIncrease, Records
      <4> QED
        BY <3>3, <4>2, <4>3 DEF AuditInv
    <3>8. CASE Settle(c)
      <4>1. operations[o] = NoResult
        BY <3>8 DEF Settle
      <4>2. PICK a \in Statuses : Audited(k, a)
        BY <3>8 DEF Settle, Statuses
      <4>3. /\ Trail'
            /\ \A i \in DOMAIN history'[x] : history'[x][i].sequence <= seq_counters'[x]
            /\ operations'[o] # NoResult
            /\ \A p \in OpIds : p # o => operations'[p] = operations[p]
            /\ \A y \in Executions : y # x => history'[y] = history[y]
        BY <2>1, <2>2, <3>6, <4>1, <4>2, AuditedTrail DEF AuditInv, TypeInv
      <4>4. CountersBound'
        BY <2>2, <3>5, <4>3 DEF AuditInv, CountersBound
      <4>5. ReceivedOnce'
        BY <3>1, <3>4, <4>3 DEF AuditInv, ReceivedOnce
      <4> QED
        BY <3>3, <4>3, <4>4, <4>5 DEF AuditInv
    <3> QED
      BY <2>3, <3>7, <3>8
  <2>4. CASE Hand(c)
    <3>1. /\ busy = None /\ busy' = c
          /\ ctl' = [ctl EXCEPT ![c] = "execute"]
          /\ seq_counters' = [seq_counters EXCEPT ![x] = @ + 1]
          /\ operations[o] = NoResult
          /\ UNCHANGED <<operations, history, call, received>>
      BY <2>4 DEF Hand, Admitted, counted
    <3>2. \A d \in Controllers : ctl[d] \notin Inside /\ (ctl'[d] \in Inside <=> d = c)
      BY <2>2, <3>1, ControlAssumption DEF AuditInv, OneInside
    <3>3. OneInside'
      BY <3>1, <3>2 DEF OneInside
    <3>4. \A i \in DOMAIN history[x] : history[x][i].sequence < seq_counters'[x]
      BY <2>1, <2>2, <3>1 DEF AuditInv, CountersBound
    <3>5. InsideIsFresh'
      BY <3>1, <3>2, <3>4 DEF InsideIsFresh
    <3>6. \A y \in Executions : seq_counters[y] <= seq_counters'[y]
      BY <2>1, <2>2, <3>1
    <3>7. CountersBound'
      BY <2>2, <3>1, <3>6 DEF AuditInv, CountersBound
    <3>8. ReceivedOnce' /\ Trail'
      BY <3>1, <3>2 DEF AuditInv, ReceivedOnce, Executing, Trail, OneRecordPerOperation,
                        SequencesIncrease, Records
    <3> QED
      BY <3>3, <3>5, <3>7, <3>8 DEF AuditInv
  <2>5. CASE execute_control(c)
    <3>1. PICK l \in {"record", "stop"} : ctl' = [ctl EXCEPT ![c] = l]
      BY <2>5 DEF execute_control, Executed
    <3>2. /\ ctl[c] = "execute"
          /\ received' = [received EXCEPT ![o] = @ + 1]
          /\ UNCHANGED <<operations, history, seq_counters, busy, call>>
      BY <2>5 DEF execute_control, boundary
    <3>3. /\ \A d \in Controllers : ctl'[d] \in Inside <=> ctl[d] \in Inside
          /\ busy = c /\ operations[o] = NoResult
      BY <2>2, <3>1, <3>2 DEF AuditInv, OneInside, InsideIsFresh
    <3>4. OneInside' /\ InsideIsFresh' /\ CountersBound' /\ Trail'
      BY <3>2, <3>3 DEF AuditInv, OneInside, InsideIsFresh, CountersBound, Trail,
                        OneRecordPerOperation, SequencesIncrease, Records
    <3>5. \A p \in OpIds : ~Executing(p)
      BY <3>2, <3>3 DEF Executing, AuditInv, OneInside
    <3>6. received[o] = 0 /\ received'[o] = 1
      BY <2>1, <2>2, <3>2, <3>3, <3>5 DEF AuditInv, ReceivedOnce
    <3>7. Executing(o)'
      BY <2>2, <3>1, <3>2 DEF Executing
    <3>8. ReceivedOnce'
      BY <2>2, <3>2, <3>5, <3>6, <3>7 DEF AuditInv, ReceivedOnce
    <3> QED
      BY <3>4, <3>8 DEF AuditInv
  <2>6. CASE FindNone(c) \/ Find(c) \/ Signal(c) \/ SignalRefused(c)
    <3>1. PICK l \in {"record", "signal"} : ctl' = [ctl EXCEPT ![c] = l]
      BY <2>6 DEF FindNone, Find, Signal, SignalRefused, Executed
    <3>2. /\ ctl[c] \in {"stop", "signal"}
          /\ UNCHANGED <<operations, history, seq_counters, busy, call, received>>
      BY <2>6 DEF FindNone, Find, Signal, SignalRefused, boundary, counted
    <3>3. /\ \A d \in Controllers : ctl'[d] \in Inside <=> ctl[d] \in Inside
          /\ \A d \in Controllers : ctl'[d] \in Inside \ {"execute"} <=>
                                    ctl[d] \in Inside \ {"execute"}
      BY <2>2, <3>1, <3>2
    <3>4. OneInside' /\ InsideIsFresh' /\ CountersBound' /\ Trail'
      BY <3>2, <3>3 DEF AuditInv, OneInside, InsideIsFresh, CountersBound, Trail,
                        OneRecordPerOperation, SequencesIncrease, Records
    <3>5. ReceivedOnce'
      BY <3>2, <3>3 DEF AuditInv, ReceivedOnce, Executing
    <3> QED
      BY <3>4, <3>5 DEF AuditInv
  <2>7. CASE Record(c)
    <3>1. /\ ctl[c] = "record" /\ status[c] \in Statuses
          /\ ctl' = [ctl EXCEPT ![c] = "idle"]
          /\ Audited(k, status[c])
          /\ busy' = None
          /\ UNCHANGED <<seq_counters, received>>
      BY <2>7 DEF Record, Answered, counted, TypeInv, CallInv
    <3>2. /\ busy = c /\ operations[o] = NoResult
          /\ \A i \in DOMAIN history[x] : history[x][i].sequence < seq_counters'[x]
      BY <3>1 DEF AuditInv, OneInside, InsideIsFresh
    <3>3. \A d \in Controllers : ctl'[d] \notin Inside
      BY <2>2, <3>1, <3>2 DEF AuditInv, OneInside
    <3>4. /\ Trail'
          /\ \A i \in DOMAIN history'[x] : history'[x][i].sequence <= seq_counters'[x]
          /\ operations'[o] # NoResult
          /\ \A p \in OpIds : p # o => operations'[p] = operations[p]
          /\ \A y \in Executions : y # x => history'[y] = history[y]
      BY <2>1, <2>2, <3>1, <3>2, AuditedTrail DEF AuditInv, TypeInv
    <3>5. OneInside' /\ InsideIsFresh'
      BY <3>1, <3>3, ControlAssumption DEF OneInside, InsideIsFresh
    <3>6. CountersBound'
      BY <3>1, <3>4 DEF AuditInv, CountersBound
    <3>7. \A p \in OpIds : Executing(p) => p = o
      BY <3>2 DEF Executing, AuditInv, OneInside
    <3>8. ReceivedOnce'
      BY <3>1, <3>4, <3>7 DEF AuditInv, ReceivedOnce
    <3> QED
      BY <3>4, <3>5, <3>6, <3>8 DEF AuditInv
  <2> QED
    BY <1>3, <2>3, <2>4, <2>5, <2>6, <2>7 DEF Dispatch
<1>4. ASSUME NEW x \in Executions,
             register_executor(x) \/ \E d \in Declared : register_capability(x, d)
      PROVE  AuditInv'
  BY <1>4, AuditUntouched DEF register_executor, register_capability, threads
<1>5. CASE clear
  <2>1. \A c \in Controllers : ctl[c] \notin Inside
    BY <1>5, ControlAssumption DEF clear, AuditInv, OneInside
  <2>2. /\ operations' = [o \in OpIds |-> NoResult]
        /\ history' = [x \in Executions |-> <<>>]
        /\ received' = [o \in OpIds |-> 0]
        /\ UNCHANGED <<busy, ctl, call>>
    BY <1>5 DEF clear, threads
  <2> QED
    BY <2>1, <2>2 DEF AuditInv, OneInside, InsideIsFresh, ReceivedOnce, CountersBound, Trail,
                      OneRecordPerOperation, SequencesIncrease, Records
<1>6. CASE UNCHANGED vars
  BY <1>6, AuditUntouched DEF vars, boundary, threads, counted
<1> QED
  BY <1>1, <1>2, <1>3, <1>4, <1>5, <1>6 DEF Next

\* Whatever threads dispatch, and however executors fail, an executor is
\* called at most once for an operation id, and the audit history has
\* exactly one record of it, with the cached result.
THEOREM AuditAlwaysAgrees == Spec => []AuditAgrees
<1>1. AuditInv /\ TypeInv => AuditAgrees
  <2> SUFFICES ASSUME AuditInv, TypeInv PROVE ExecutedOnce
    BY DEF AuditInv, Trail, AuditAgrees
  <2>1. ASSUME NEW o \in OpIds, busy = None PROVE ~Executing(o)
    BY <2>1, ControlAssumption DEF Executing, AuditInv, OneInside, Inside
  <2> QED
    BY <2>1 DEF ExecutedOnce, AuditInv, ReceivedOnce
<1> QED
  BY <1>1, AuditInit, AuditStep, TypeInvariant, PTL DEF Spec
=============================================================================
