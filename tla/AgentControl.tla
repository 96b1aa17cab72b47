---------------------------- MODULE AgentControl ----------------------------
(***************************************************************************)
(* Steps of an agent and the control operations that reach them: the       *)
(* execution control boundary (infuse/control/boundary.py), the Claude     *)
(* Code adapter and its subprocess transport (infuse/agents/claude), and   *)
(* the operating-system processes the transport starts.                    *)
(*                                                                         *)
(* The boundary holds its lock while the adapter applies an operation; the *)
(* adapter and the transport hold theirs for one dictionary access each;   *)
(* processes end whenever they like.                                       *)
(***************************************************************************)
EXTENDS Integers, Sequences, FiniteSets

CONSTANTS
    Steppers,         \* threads that call execute_step
    Controllers,      \* threads that call dispatch_control
    Executions,       \* execution ids
    ExecOf,           \* the execution each stepper works for
    OpIds,            \* operation ids
    Calls,            \* the arguments dispatch_control is called with
    Declared,         \* the sets of actions register_capability declares
    AdapterActions,   \* the actions the adapter supports
    None,             \* an absent value
    MaxCalls,         \* bound: execute_step and dispatch_control calls together
    MaxConfigurations \* bound: register_capability, register_executor and clear calls

Actions == {"CONTINUE", "OPTIMIZE", "ESCALATE", "DOWNGRADE", "SWITCH", "THROTTLE", "STOP"}

Call == [execution_id : Executions, action : Actions,
         operation_id : OpIds, hard : BOOLEAN]

ASSUME ControlAssumption ==
    /\ ExecOf \in [Steppers -> Executions]
    /\ Calls \subseteq Call
    /\ Declared \subseteq SUBSET Actions /\ AdapterActions \subseteq Actions
    /\ None \notin Steppers \cup Controllers \cup Int
    /\ MaxCalls \in Nat /\ MaxConfigurations \in Nat

NoResult == [execution_id |-> None, action |-> None, status |-> "NONE"]

VARIABLES
    (* the boundary *)
    capabilities, \* _capabilities: the actions declared for an execution, none at first
    executors,    \* the executions whose executor is the adapter
    operations,   \* _operations: operation id -> result, or NoResult
    history,      \* _history: the audit records of each execution
    seq_counters, \* _seq_counters
    busy,         \* the thread that holds the boundary's lock while it executes
    (* the threads that dispatch *)
    ctl,          \* where each stands
    call,         \* the arguments of its call, or None
    status,       \* the status the executor gave, or None
    reached,      \* what the transport answered: whether there was a process
    (* the transport and its processes *)
    active,       \* _active_processes: execution -> the stepper it was started by
    proc,         \* the process of each stepper's last step
    returncode,   \* how that process ended, or None
    signals,      \* the signals it received while it ran
    (* the threads that step *)
    pc,           \* where each stands
    outcome,      \* how its last step ended
    steps,        \* how many steps it made
    announced,    \* the steps whose EXECUTION_COMPLETED was handed to the bus
    (* what is observed of the calls, and their bounds *)
    received,     \* execute_control calls of each operation id since the last clear
    overlapped,   \* the executions that ever ran two steps at once
    made,         \* how many calls were made
    configured    \* how many times the boundary was registered with or cleared

boundary  == <<capabilities, executors, operations, history, seq_counters, busy>>
threads   == <<ctl, call, status, reached>>
processes == <<active, proc, returncode, signals>>
stepping  == <<pc, outcome, steps, announced, overlapped>>
counted   == <<received, made, configured>>

vars == <<boundary, threads, processes, stepping, counted>>

Init ==
    /\ capabilities = [x \in Executions |-> {}]
    /\ executors = {}
    /\ operations = [o \in OpIds |-> NoResult]
    /\ history = [x \in Executions |-> <<>>]
    /\ seq_counters = [x \in Executions |-> 0]
    /\ busy = None
    /\ ctl     = [c \in Controllers |-> "idle"]
    /\ call    = [c \in Controllers |-> None]
    /\ status  = [c \in Controllers |-> None]
    /\ reached = [c \in Controllers |-> FALSE]
    /\ active = [x \in Executions |-> None]
    /\ proc       = [s \in Steppers |-> "none"]
    /\ returncode = [s \in Steppers |-> None]
    /\ signals    = [s \in Steppers |-> {}]
    /\ pc      = [s \in Steppers |-> "idle"]
    /\ outcome = [s \in Steppers |-> "none"]
    /\ steps   = [s \in Steppers |-> 0]
    /\ announced = {}
    /\ received = [o \in OpIds |-> 0]
    /\ overlapped = {}
    /\ made = 0 /\ configured = 0

-----------------------------------------------------------------------------
(***************************************************************************)
(* The processes.  A signalled process may ignore or handle SIGTERM, never *)
(* SIGKILL; Popen reports a death by signal as its negated number.         *)
(***************************************************************************)
ReturnCodes(s) ==
    IF "KILL" \in signals[s] THEN {-9}
    ELSE {0, 1} \cup (IF "TERM" \in signals[s] THEN {-15} ELSE {})

Exit(s) ==
    /\ proc[s] = "running"
    /\ proc' = [proc EXCEPT ![s] = "exited"]
    /\ \E code \in ReturnCodes(s) : returncode' = [returncode EXCEPT ![s] = code]
    /\ UNCHANGED <<boundary, threads, active, signals, stepping, counted>>

Signalled(s, signal) ==
    signals' = IF proc[s] = "running" THEN [signals EXCEPT ![s] = @ \cup {signal}]
               ELSE signals

-----------------------------------------------------------------------------
(***************************************************************************)
(* execute_step, and the transport's execute below it                      *)
(***************************************************************************)
\* The transport's lock is free: no controller is between its look-up and
\* its signal.
TransportFree == \A c \in Controllers : ctl[c] # "signal"

execute_step(s) ==
    /\ pc[s] = "idle" /\ made < MaxCalls
    /\ made' = made + 1
    /\ pc' = [pc EXCEPT ![s] = "launch"]
    /\ steps' = [steps EXCEPT ![s] = @ + 1]
    /\ outcome' = [outcome EXCEPT ![s] = "none"]
    /\ proc' = [proc EXCEPT ![s] = "none"]
    /\ returncode' = [returncode EXCEPT ![s] = None]
    /\ signals' = [signals EXCEPT ![s] = {}]
    /\ overlapped' = overlapped \cup
         {x \in {ExecOf[s]} : \E t \in Steppers : pc[t] # "idle" /\ ExecOf[t] = x}
    /\ UNCHANGED <<boundary, threads, active, announced, received, configured>>

Launch(s) ==
    /\ pc[s] = "launch"
    /\ \/ /\ proc' = [proc EXCEPT ![s] = "running"]
          /\ pc' = [pc EXCEPT ![s] = "register"]
          /\ UNCHANGED outcome
       \/ /\ pc' = [pc EXCEPT ![s] = "finally"]
          /\ outcome' = [outcome EXCEPT ![s] = "launch_error"]
          /\ UNCHANGED proc
    /\ UNCHANGED <<boundary, threads, active, returncode, signals,
                   steps, announced, overlapped, counted>>

Register(s) ==
    /\ pc[s] = "register" /\ TransportFree
    /\ active' = [active EXCEPT ![ExecOf[s]] = s]
    /\ pc' = [pc EXCEPT ![s] = "communicate"]
    /\ UNCHANGED <<boundary, threads, proc, returncode, signals,
                   outcome, steps, announced, overlapped, counted>>

\* Mutant: a death by signal is not an error.
Mut_ProcessError(code) == code > 0

ProcessError(code) == code # 0

Communicate(s) ==
    /\ pc[s] = "communicate" /\ proc[s] = "exited"
    /\ pc' = [pc EXCEPT ![s] = "finally"]
    /\ outcome' = [outcome EXCEPT ![s] =
         IF ProcessError(returncode[s]) THEN "process_error" ELSE "ok"]
    /\ UNCHANGED <<boundary, threads, processes, steps, announced, overlapped,
                   counted>>

\* Mutant: a process that exceeds its time is asked to end.
Mut_TimeOut(s) ==
    /\ pc[s] = "communicate"
    /\ pc' = [pc EXCEPT ![s] = "reap"]
    /\ Signalled(s, "TERM")
    /\ UNCHANGED <<boundary, threads, active, proc, returncode, outcome, steps,
                   announced, overlapped, counted>>

\* TimeoutExpired, which races with the exit: kill does nothing after it.
TimeOut(s) ==
    /\ pc[s] = "communicate"
    /\ pc' = [pc EXCEPT ![s] = "reap"]
    /\ Signalled(s, "KILL")
    /\ UNCHANGED <<boundary, threads, active, proc, returncode, outcome, steps,
                   announced, overlapped, counted>>

\* Mutant: the time-out leaves without the finally block.
Mut_Reap(s) ==
    /\ pc[s] = "reap" /\ proc[s] = "exited"
    /\ pc' = [pc EXCEPT ![s] = "idle"]
    /\ outcome' = [outcome EXCEPT ![s] = "timeout_error"]
    /\ UNCHANGED <<boundary, threads, processes, steps, announced, overlapped,
                   counted>>

Reap(s) ==
    /\ pc[s] = "reap" /\ proc[s] = "exited"
    /\ pc' = [pc EXCEPT ![s] = "finally"]
    /\ outcome' = [outcome EXCEPT ![s] = "timeout_error"]
    /\ UNCHANGED <<boundary, threads, processes, steps, announced, overlapped,
                   counted>>

\* The entry of the execution is removed, whoever registered it.
Finally(s) ==
    /\ pc[s] = "finally" /\ TransportFree
    /\ active' = [active EXCEPT ![ExecOf[s]] = None]
    /\ pc' = [pc EXCEPT ![s] = IF outcome[s] = "ok" THEN "publish" ELSE "idle"]
    /\ UNCHANGED <<boundary, threads, proc, returncode, signals,
                   outcome, steps, announced, overlapped, counted>>

\* The bus may refuse the event; its errors are ignored.
Publish(s) ==
    /\ pc[s] = "publish"
    /\ pc' = [pc EXCEPT ![s] = "idle"]
    /\ announced' = announced \cup {<<s, steps[s]>>}
    /\ UNCHANGED <<boundary, threads, processes, outcome, steps, overlapped,
                   counted>>

\* What a step does by itself once it was called.
Step(s) ==
    \/ Launch(s) \/ Register(s) \/ Communicate(s) \/ TimeOut(s)
    \/ Reap(s) \/ Finally(s) \/ Publish(s)

-----------------------------------------------------------------------------
(***************************************************************************)
(* The boundary.  An operation id is chosen by the caller; one the         *)
(* boundary generates is like an id nobody else uses.                      *)
(***************************************************************************)
register_capability(x, declared) ==
    /\ busy = None /\ configured < MaxConfigurations
    /\ configured' = configured + 1
    /\ capabilities' = [capabilities EXCEPT ![x] = declared]
    /\ UNCHANGED <<executors, operations, history, seq_counters, busy,
                   threads, processes, stepping, received, made>>

register_executor(x) ==
    /\ busy = None /\ configured < MaxConfigurations
    /\ configured' = configured + 1
    /\ executors' = executors \cup {x}
    /\ capabilities' = [capabilities EXCEPT ![x] = AdapterActions]
    /\ UNCHANGED <<operations, history, seq_counters, busy,
                   threads, processes, stepping, received, made>>

clear ==
    /\ busy = None /\ configured < MaxConfigurations
    /\ configured' = configured + 1
    /\ capabilities' = [x \in Executions |-> {}]
    /\ executors' = {}
    /\ operations' = [o \in OpIds |-> NoResult]
    /\ history' = [x \in Executions |-> <<>>]
    /\ seq_counters' = [x \in Executions |-> 0]
    /\ received' = [o \in OpIds |-> 0]
    /\ UNCHANGED <<busy, threads, processes, stepping, made>>

\* A capability is the set of actions its flags and its list support.
supports_action(x, action) ==
    action \in capabilities[x] \cup {"CONTINUE"}

\* A caller of dispatch_control waits for the boundary's lock.
dispatch_control(c) ==
    /\ ctl[c] = "idle" /\ made < MaxCalls
    /\ made' = made + 1
    /\ \E k \in Calls : call' = [call EXCEPT ![c] = k]
    /\ ctl' = [ctl EXCEPT ![c] = "wait"]
    /\ UNCHANGED <<boundary, status, reached, processes, stepping, received, configured>>

\* The CONTROL_ACTION_ISSUED event is published for every new operation; its
\* errors are ignored and nothing depends on it.
Admitted(c) ==
    /\ ctl[c] = "wait" /\ busy = None
    /\ seq_counters' = [seq_counters EXCEPT ![call[c].execution_id] = @ + 1]

Answered(c) ==
    /\ ctl' = [ctl EXCEPT ![c] = "idle"]
    /\ call' = [call EXCEPT ![c] = None]
    /\ status' = [status EXCEPT ![c] = None]
    /\ reached' = [reached EXCEPT ![c] = FALSE]

\* An operation id that was dispatched before, for whatever execution.
Repeat(c) ==
    /\ Admitted(c)
    /\ operations[call[c].operation_id] # NoResult
    /\ Answered(c)
    /\ UNCHANGED <<capabilities, executors, operations, history, busy,
                   processes, stepping, counted>>

\* Mutant: a failed operation is not remembered.
Mut_Audited(k, s) ==
    /\ operations' = IF s = "FAILED" THEN operations
                     ELSE [operations EXCEPT ![k.operation_id] =
         [execution_id |-> k.execution_id, action |-> k.action, status |-> s]]
    /\ history' = [history EXCEPT ![k.execution_id] = Append(@,
         [operation_id |-> k.operation_id, status |-> s,
          sequence |-> seq_counters'[k.execution_id]])]

Audited(k, s) ==
    /\ operations' = [operations EXCEPT ![k.operation_id] =
         [execution_id |-> k.execution_id, action |-> k.action, status |-> s]]
    /\ history' = [history EXCEPT ![k.execution_id] = Append(@,
         [operation_id |-> k.operation_id, status |-> s,
          sequence |-> seq_counters'[k.execution_id]])]

\* The answers the boundary gives without an executor.
Settle(c) ==
    LET k == call[c]
    IN /\ Admitted(c)
       /\ operations[k.operation_id] = NoResult
       /\ \/ /\ ~supports_action(k.execution_id, k.action)
             /\ Audited(k, "UNSUPPORTED")
          \/ /\ supports_action(k.execution_id, k.action)
             /\ k.execution_id \notin executors
             /\ Audited(k, IF k.action = "CONTINUE" THEN "COMPLETED" ELSE "ACCEPTED")
       /\ Answered(c)
       /\ UNCHANGED <<capabilities, executors, busy, processes, stepping, counted>>

Hand(c) ==
    LET k == call[c]
    IN /\ Admitted(c)
       /\ operations[k.operation_id] = NoResult
       /\ supports_action(k.execution_id, k.action) /\ k.execution_id \in executors
       /\ busy' = c
       /\ ctl' = [ctl EXCEPT ![c] = "execute"]
       /\ UNCHANGED <<capabilities, executors, operations, history, call, status,
                      reached, processes, stepping, counted>>

-----------------------------------------------------------------------------
(***************************************************************************)
(* execute_control of the adapter                                          *)
(***************************************************************************)
Executed(c, s) ==
    /\ ctl' = [ctl EXCEPT ![c] = "record"]
    /\ status' = [status EXCEPT ![c] = s]

execute_control(c) ==
    LET action == call[c].action
    IN /\ ctl[c] = "execute"
       /\ received' = [received EXCEPT ![call[c].operation_id] = @ + 1]
       /\ \/ action \notin AdapterActions /\ Executed(c, "UNSUPPORTED")
          \/ action \in AdapterActions \ {"STOP"} /\ Executed(c, "COMPLETED")
          \/ /\ action \in AdapterActions \cap {"STOP"}
             /\ ctl' = [ctl EXCEPT ![c] = "stop"]
             /\ UNCHANGED status
       /\ UNCHANGED <<boundary, call, reached, processes, stepping, made, configured>>

HasProcess(x) == active[x] # None /\ proc[active[x]] = "running"

\* cancel_execution and terminate_session look the process up and poll it.
\* What they return is not looked at.
FindNone(c) ==
    /\ ctl[c] = "stop" /\ ~HasProcess(call[c].execution_id)
    /\ Executed(c, "COMPLETED")
    /\ UNCHANGED <<boundary, call, reached, processes, stepping, counted>>

Find(c) ==
    /\ ctl[c] = "stop" /\ HasProcess(call[c].execution_id)
    /\ ctl' = [ctl EXCEPT ![c] = "signal"]
    /\ reached' = [reached EXCEPT ![c] = TRUE]
    /\ UNCHANGED <<boundary, call, status, processes, stepping, counted>>

\* The process may have ended since it was polled.
Signal(c) ==
    /\ ctl[c] = "signal"
    /\ Executed(c, "COMPLETED")
    /\ Signalled(active[call[c].execution_id], IF call[c].hard THEN "KILL" ELSE "TERM")
    /\ UNCHANGED <<boundary, call, reached, active, proc, returncode,
                   stepping, counted>>

\* Mutant: an exception has a status of its own.
Mut_SignalRefused(c) ==
    /\ ctl[c] = "signal"
    /\ Executed(c, "ERROR")
    /\ UNCHANGED <<boundary, call, reached, processes, stepping, counted>>

\* The operating system refuses the signal: the exception is answered.
SignalRefused(c) ==
    /\ ctl[c] = "signal"
    /\ Executed(c, "FAILED")
    /\ UNCHANGED <<boundary, call, reached, processes, stepping, counted>>

Record(c) ==
    /\ ctl[c] = "record"
    /\ UNCHANGED seq_counters
    /\ Audited(call[c], status[c])
    /\ busy' = None
    /\ Answered(c)
    /\ UNCHANGED <<capabilities, executors, processes, stepping, counted>>

\* What a dispatch does by itself once it was called.
Dispatch(c) ==
    \/ Repeat(c) \/ Settle(c) \/ Hand(c)
    \/ execute_control(c) \/ FindNone(c) \/ Find(c)
    \/ Signal(c) \/ SignalRefused(c) \/ Record(c)

-----------------------------------------------------------------------------
Next ==
    \/ \E s \in Steppers : execute_step(s) \/ Step(s) \/ Exit(s)
    \/ \E c \in Controllers : dispatch_control(c) \/ Dispatch(c)
    \/ \E x \in Executions :
          register_executor(x) \/ \E d \in Declared : register_capability(x, d)
    \/ clear

\* Threads are scheduled, communicate is called with a time-out, and a
\* killed process ends; a process that was not killed may run forever.
Fairness ==
    /\ \A s \in Steppers :
         /\ WF_vars(Step(s))
         /\ WF_vars("KILL" \in signals[s] /\ Exit(s))
    /\ \A c \in Controllers : WF_vars(Dispatch(c))

Spec == Init /\ [][Next]_vars /\ Fairness

-----------------------------------------------------------------------------
(***************************************************************************)
(* Properties.                                                             *)
(***************************************************************************)
Statuses == {"UNSUPPORTED", "ACCEPTED", "COMPLETED", "FAILED"}

Result == [execution_id : Executions, action : Actions, status : Statuses]

AuditRecord == [operation_id : OpIds, status : Statuses, sequence : Nat]

\* Every variable has its type.
TypeOK ==
    /\ capabilities \in [Executions -> SUBSET Actions]
    /\ executors \subseteq Executions
    /\ operations \in [OpIds -> Result \cup {NoResult}]
    /\ history \in [Executions -> Seq(AuditRecord)]
    /\ seq_counters \in [Executions -> Nat]
    /\ busy \in Controllers \cup {None}
    /\ ctl \in [Controllers -> {"idle", "wait", "execute", "stop", "signal", "record"}]
    /\ call \in [Controllers -> Calls \cup {None}]
    /\ status \in [Controllers -> Statuses \cup {None}]
    /\ reached \in [Controllers -> BOOLEAN]
    /\ active \in [Executions -> Steppers \cup {None}]
    /\ proc \in [Steppers -> {"none", "running", "exited"}]
    /\ returncode \in [Steppers -> {None, 0, 1, -15, -9}]
    /\ signals \in [Steppers -> SUBSET {"TERM", "KILL"}]
    /\ pc \in [Steppers -> {"idle", "launch", "register", "communicate",
                            "reap", "finally", "publish"}]
    /\ outcome \in [Steppers -> {"none", "ok", "process_error",
                                 "timeout_error", "launch_error"}]
    /\ steps \in [Steppers -> Nat]
    /\ announced \subseteq Steppers \X Nat
    /\ received \in [OpIds -> Nat]
    /\ overlapped \subseteq Executions
    /\ made \in Nat /\ configured \in Nat

EntriesAreSteps ==
    \A x \in Executions :
        active[x] # None => /\ pc[active[x]] \in {"communicate", "reap", "finally"}
                            /\ ExecOf[active[x]] = x

WaitersAreRegistered ==
    \A s \in Steppers :
        pc[s] \in {"communicate", "reap"} /\ ExecOf[s] \notin overlapped =>
            active[ExecOf[s]] = s

\* The registry of processes never points to a step that has left execute or
\* that works for another execution, and it has the process of every step
\* that waits, unless two steps of the execution ever overlapped.
RegistryAccurate == EntriesAreSteps /\ WaitersAreRegistered

\* However a time-out, a STOP and the process's own exit race: a step returns
\* only after its process has ended, and succeeds, and is announced as
\* completed, only if that process ended by itself and without an error.
StepsEndTruly ==
    \A s \in Steppers :
        /\ pc[s] \in {"idle", "finally", "publish"} => proc[s] # "running"
        /\ outcome[s] = "ok" => returncode[s] = 0 /\ "KILL" \notin signals[s]
        /\ <<s, steps[s]>> \in announced => outcome[s] = "ok"

Records(x, o) == {i \in DOMAIN history[x] : history[x][i].operation_id = o}

ExecutedOnce ==
    \A o \in OpIds :
        /\ received[o] <= 1
        /\ received[o] = 1 /\ busy = None => operations[o] # NoResult

OneRecordPerOperation ==
    \A o \in OpIds, x \in Executions :
        IF operations[o] # NoResult /\ operations[o].execution_id = x
        THEN \E i \in DOMAIN history[x] :
                Records(x, o) = {i} /\ history[x][i].status = operations[o].status
        ELSE Records(x, o) = {}

SequencesIncrease ==
    \A x \in Executions : \A i, j \in DOMAIN history[x] :
        i < j => history[x][i].sequence < history[x][j].sequence

\* An executor is called at most once for an operation id, whatever its
\* outcome and however often the id is dispatched, and the audit history has
\* exactly one record of it, with the result that is cached, in the order of
\* the sequence numbers.
AuditAgrees == ExecutedOnce /\ OneRecordPerOperation /\ SequencesIncrease

\* A step ends even if its process never does by itself, and a dispatch is
\* answered even if the boundary is busy with another.
CallsReturn ==
    /\ \A s \in Steppers : pc[s] # "idle" ~> pc[s] = "idle"
    /\ \A c \in Controllers : ctl[c] # "idle" ~> ctl[c] = "idle"

\* Where a STOP can find a step's process: the step registered it, and no
\* second step of the execution took its place.
Findable(s) == pc[s] # "register" /\ ExecOf[s] \notin overlapped

\* A STOP that is reported as COMPLETED without a signal leaves no process
\* running that could be found.
StopReachesFindable ==
    [][\A c \in Controllers, s \in Steppers :
         /\ ctl[c] = "stop" /\ ctl'[c] = "record" /\ status'[c] = "COMPLETED"
         /\ ExecOf[s] = call[c].execution_id /\ Findable(s)
         => proc[s] # "running"]_vars

\* A step's process receives a new signal only from its own time-out, or from
\* a STOP of its execution while the step still waits for it, however steps
\* begin, end and overlap between the look-up and the signal.
SignalsStayHome ==
    [][\A s \in Steppers : \A signal \in signals'[s] \ signals[s] :
         /\ pc[s] \in {"communicate", "reap", "finally"}
         /\ \/ pc[s] = "communicate" /\ pc'[s] = "reap" /\ signal = "KILL"
            \/ \E c \in Controllers :
                  /\ ctl[c] = "signal" /\ ctl'[c] = "record"
                  /\ call[c].action = "STOP" /\ call[c].execution_id = ExecOf[s]
                  /\ signal = IF call[c].hard THEN "KILL" ELSE "TERM"]_vars

\* A STOP that is reported as COMPLETED leaves no process of its execution
\* running without a signal.
StopReachesProcess ==
    [][\A c \in Controllers, s \in Steppers :
         /\ ctl[c] = "stop" /\ ctl'[c] = "record" /\ status'[c] = "COMPLETED"
         /\ ExecOf[s] = call[c].execution_id
         => proc[s] # "running"]_vars
=============================================================================
