----------------------------- MODULE Lifecycle -----------------------------
(***************************************************************************)
(* The execution lifecycle of infuse: ExecutionLifecycleService over the   *)
(* in-memory repository of lifecycle records                               *)
(* (infuse/lifecycle/service.py, infuse/lifecycle/repository.py).          *)
(*                                                                         *)
(* The repository takes its lock once per operation, so a thread that runs *)
(* execute or cancel_execution is a sequence of atomic steps with a        *)
(* private copy of the record in between: one action per repository call,  *)
(* per published event and per provider call.  Any other thread may run    *)
(* between two of them.                                                    *)
(***************************************************************************)
EXTENDS Naturals, Sequences

CONSTANTS
    Executors,         \* threads that call execute, once each
    Cancellers,        \* threads that call cancel_execution, once each
    Ids,               \* execution ids
    Assignments,       \* which execution ids the threads may pass
    NoThread,          \* the value of an unset cancellation or context field
    CancelAfterStart,  \* TRUE: callers cancel only after EXECUTION_STARTED
    BusMayFail         \* TRUE: publish may raise (closed bus, failing handler)

Threads == Executors \cup Cancellers

ASSUME ThreadsAssumption ==
    /\ Executors \cap Cancellers = {}
    /\ NoThread \notin Threads
    /\ Assignments \subseteq [Threads -> Ids]
    /\ CancelAfterStart \in BOOLEAN
    /\ BusMayFail \in BOOLEAN

States == {"CREATED", "INITIALIZING", "ROUTED", "RUNNING",
           "COMPLETED", "FAILED", "CANCELLED", "TERMINATED"}

Terminal == {"COMPLETED", "FAILED", "CANCELLED", "TERMINATED"}

VALID_TRANSITIONS ==
    [s \in States |->
        CASE s = "CREATED"      -> {"INITIALIZING", "CANCELLED", "FAILED"}
          [] s = "INITIALIZING" -> {"ROUTED", "RUNNING", "CANCELLED", "FAILED"}
          [] s = "ROUTED"       -> {"RUNNING", "CANCELLED", "FAILED"}
          [] s = "RUNNING"      -> {"COMPLETED", "FAILED", "CANCELLED", "TERMINATED"}
          [] OTHER              -> {}]

(***************************************************************************)
(* A lifecycle record.  A missing dictionary entry, and the local copy of  *)
(* a thread that has none yet, is the record Absent.  started and          *)
(* completed stand for the two optional timestamps; result is the status   *)
(* of the stored ExecutionResult.                                          *)
(***************************************************************************)
Record ==
    [state       : States \cup {"ABSENT"},
     transitions : Seq(States \X States),
     started     : BOOLEAN,
     completed   : BOOLEAN,
     target      : BOOLEAN,
     result      : {"NONE", "COMPLETED", "FAILED", "STOPPED"},
     error       : BOOLEAN,
     cancelledBy : Cancellers \cup {NoThread}]

Absent ==
    [state |-> "ABSENT", transitions |-> <<>>, started |-> FALSE,
     completed |-> FALSE, target |-> FALSE, result |-> "NONE",
     error |-> FALSE, cancelledBy |-> NoThread]

VARIABLES
    IdOf,      \* the execution id each thread passes, never changed
    records,   \* _records: the stored record of each execution id
    contexts,  \* _contexts: whose request the stored context describes
    held,      \* each thread's private copy of the record
    pc,        \* where each thread stands in its call
    answer,    \* what the provider adapter gave each executor
    events     \* what the event bus accepted for each execution id

vars == <<IdOf, records, contexts, held, pc, answer, events>>

Init ==
    /\ IdOf \in Assignments
    /\ records  = [id \in Ids |-> Absent]
    /\ contexts = [id \in Ids |-> NoThread]
    /\ held     = [t \in Threads |-> Absent]
    /\ pc       = [t \in Threads |-> "start"]
    /\ answer   = [e \in Executors |-> "none"]
    /\ events   = [id \in Ids |-> <<>>]

-----------------------------------------------------------------------------
(***************************************************************************)
(* The repository.                                                         *)
(***************************************************************************)
exists(id) == records[id].state # "ABSENT"

\* save: a blind overwrite by the thread's own copy.
save(t, record) ==
    /\ records' = [records EXCEPT ![IdOf[t]] = record]
    /\ held'    = [held EXCEPT ![t] = record]

\* Mutant: the transition is not validated.
Mut_Allowed(record, to) == TRUE

Allowed(record, to) ==
    \/ record.state = to
    \/ record.state \in States /\ to \in VALID_TRANSITIONS[record.state]

Moved(record, to) ==
    IF record.state = to
    THEN record
    ELSE [record EXCEPT !.state       = to,
                        !.transitions = Append(@, <<record.state, to>>),
                        !.started     = @ \/ to = "RUNNING",
                        !.completed   = @ \/ to \in Terminal]

\* update_state: validate, move the stored record, hand out a copy.
update_state(t, to) ==
    /\ Allowed(records[IdOf[t]], to)
    /\ records' = [records EXCEPT ![IdOf[t]] = Moved(@, to)]
    /\ held'    = [held EXCEPT ![t] = Moved(records[IdOf[t]], to)]

-----------------------------------------------------------------------------
(***************************************************************************)
(* execute                                                                 *)
(***************************************************************************)
Goto(t, from, to) ==
    /\ pc[t] = from
    /\ pc' = [pc EXCEPT ![t] = to]

\* update_state at one point of the pipeline; a refused transition raises.
Transition(t, from, to, next, otherwise) ==
    /\ \/ update_state(t, to) /\ Goto(t, from, next)
       \/ /\ ~Allowed(records[IdOf[t]], to)
          /\ Goto(t, from, otherwise)
          /\ UNCHANGED <<records, held>>
    /\ UNCHANGED <<contexts, answer, events>>

\* _publish_event swallows whatever the bus raises.
_publish_event(e, from, type, sequence, next) ==
    /\ Goto(e, from, next)
    /\ \/ events' = [events EXCEPT ![IdOf[e]] =
                        Append(@, [type |-> type, sequence |-> sequence, by |-> e])]
       \/ BusMayFail /\ UNCHANGED events
    /\ UNCHANGED <<records, contexts, held, answer>>

\* create_execution, in its three steps: the context is stored before the
\* id is checked, and the check and the save take the lock separately.
CreateContext(e) ==
    /\ Goto(e, "start", "check")
    /\ contexts' = [contexts EXCEPT ![IdOf[e]] = e]
    /\ UNCHANGED <<records, held, answer, events>>

CheckExists(e) ==
    /\ IF exists(IdOf[e]) THEN Goto(e, "check", "already_exists")
                          ELSE Goto(e, "check", "create")
    /\ UNCHANGED <<records, contexts, held, answer, events>>

SaveCreated(e) ==
    /\ Goto(e, "create", "initialize")
    /\ save(e, [Absent EXCEPT !.state = "CREATED"])
    /\ UNCHANGED <<contexts, answer, events>>

Initialize(e) == Transition(e, "initialize", "INITIALIZING", "resolve", "raised")

\* Classification and resolution are local; the copy taken by Initialize is
\* then written back whole.
SaveResolution(e) ==
    /\ \/ Goto(e, "resolve", "select")    \* some compatible target
       \/ Goto(e, "resolve", "reject")    \* none
    /\ save(e, held[e])
    /\ UNCHANGED <<contexts, answer, events>>

Reject(e) == Transition(e, "reject", "FAILED", "save_rejected", "raised")

SaveRejected(e) ==
    /\ Goto(e, "save_rejected", "publish_rejected")
    /\ save(e, [held[e] EXCEPT !.error = TRUE, !.result = "FAILED"])
    /\ UNCHANGED <<contexts, answer, events>>

PublishRejected(e) ==
    _publish_event(e, "publish_rejected", "EXECUTION_FAILED", 0, "returned_failed")

\* The routing decision is local too; same copy, written back again.
\* Mutant: the record is saved before its target is set.
Mut_SaveRoute(e) ==
    /\ Goto(e, "select", "route")
    /\ save(e, held[e])
    /\ UNCHANGED <<contexts, answer, events>>

SaveRoute(e) ==
    /\ Goto(e, "select", "route")
    /\ save(e, [held[e] EXCEPT !.target = TRUE])
    /\ UNCHANGED <<contexts, answer, events>>

Route(e) == Transition(e, "route", "ROUTED", "run", "raised")

Run(e) == Transition(e, "run", "RUNNING", "publish_started", "raised")

PublishStarted(e) ==
    _publish_event(e, "publish_started", "EXECUTION_STARTED", 0, "call")

\* adapter_service.execute_target returns a response or raises.

CallProvider(e) ==
    /\ \/ Goto(e, "call", "complete") /\ answer' = [answer EXCEPT ![e] = "response"]
       \/ Goto(e, "call", "fail")     /\ answer' = [answer EXCEPT ![e] = "error"]
    /\ UNCHANGED <<records, contexts, held, events>>

\* Mutant: completion is written from the executor's own copy.
Mut_Complete(e) ==
    /\ Goto(e, "complete", "save_completed")
    /\ save(e, Moved(held[e], "COMPLETED"))
    /\ UNCHANGED <<contexts, answer, events>>

\* A refused COMPLETED is caught by the handler of provider errors.
Complete(e) == Transition(e, "complete", "COMPLETED", "save_completed", "fail")

\* Mutant: the completed record is saved without its result.
Mut_SaveCompleted(e) ==
    /\ Goto(e, "save_completed", "publish_completed")
    /\ save(e, held[e])
    /\ UNCHANGED <<contexts, answer, events>>

SaveCompleted(e) ==
    /\ Goto(e, "save_completed", "publish_completed")
    /\ save(e, [held[e] EXCEPT !.result = "COMPLETED"])
    /\ UNCHANGED <<contexts, answer, events>>

\* Mutant: the sequence number is off by one.
Mut_PublishCompleted(e) ==
    _publish_event(e, "publish_completed", "EXECUTION_COMPLETED", 2, "returned_completed")

PublishCompleted(e) ==
    _publish_event(e, "publish_completed", "EXECUTION_COMPLETED", 1, "returned_completed")

\* Mutant: a refused FAILED is swallowed and the failure announced anyway.
Mut_Fail(e) == Transition(e, "fail", "FAILED", "save_failed", "publish_failed")

\* Mutant: a refused FAILED is tried again.
Mut_FailRetried(e) == Transition(e, "fail", "FAILED", "save_failed", "fail")

Fail(e) == Transition(e, "fail", "FAILED", "save_failed", "raised")

SaveFailed(e) ==
    /\ Goto(e, "save_failed", "publish_failed")
    /\ save(e, [held[e] EXCEPT !.error = TRUE, !.result = "FAILED"])
    /\ UNCHANGED <<contexts, answer, events>>

PublishFailed(e) ==
    _publish_event(e, "publish_failed", "EXECUTION_FAILED", 1, "returned_failed")

execute(e) ==
    /\ \/ CreateContext(e)  \/ CheckExists(e)    \/ SaveCreated(e)
       \/ Initialize(e)     \/ SaveResolution(e)
       \/ Reject(e)         \/ SaveRejected(e)   \/ PublishRejected(e)
       \/ SaveRoute(e)      \/ Route(e)          \/ Run(e)
       \/ PublishStarted(e) \/ CallProvider(e)
       \/ Complete(e)       \/ SaveCompleted(e)  \/ PublishCompleted(e)
       \/ Fail(e)           \/ SaveFailed(e)     \/ PublishFailed(e)
    /\ UNCHANGED IdOf

-----------------------------------------------------------------------------
(***************************************************************************)
(* cancel_execution                                                        *)
(***************************************************************************)
Published(id, type) == \E i \in DOMAIN events[id] : events[id][i].type = type

\* get, and the early returns on what it returned.
BeginCancel(c) ==
    /\ CancelAfterStart => Published(IdOf[c], "EXECUTION_STARTED")
    /\ LET state == records[IdOf[c]].state
       IN \/ state = "ABSENT" /\ Goto(c, "start", "not_found")
          \/ state \in Terminal /\ Goto(c, "start", "refused")
          \/ state \in States \ Terminal /\ Goto(c, "start", "cancel")
    /\ UNCHANGED <<records, contexts, held, answer, events>>

Cancel(c) == Transition(c, "cancel", "CANCELLED", "save_cancelled", "raised")

SaveCancelled(c) ==
    /\ Goto(c, "save_cancelled", "returned")
    /\ save(c, [held[c] EXCEPT !.cancelledBy = c,
                               !.result = IF @ = "NONE" THEN "STOPPED" ELSE @])
    /\ UNCHANGED <<contexts, answer, events>>

cancel_execution(c) ==
    /\ BeginCancel(c) \/ Cancel(c) \/ SaveCancelled(c)
    /\ UNCHANGED IdOf

-----------------------------------------------------------------------------
Finished == {"returned_completed", "returned_failed", "already_exists",
             "raised", "returned", "refused", "not_found"}

\* Every call is over; a canceller may wait forever for EXECUTION_STARTED.
Quiescent ==
    /\ \A e \in Executors : pc[e] \in Finished
    /\ \A c \in Cancellers : pc[c] \in Finished \cup {"start"}
    /\ UNCHANGED vars

Next ==
    \/ \E e \in Executors : execute(e)
    \/ \E c \in Cancellers : cancel_execution(c)
    \/ Quiescent

Spec == Init /\ [][Next]_vars

\* Every thread keeps running, and the provider call returns or raises.
Fairness ==
    /\ \A e \in Executors : WF_vars(execute(e))
    /\ \A c \in Cancellers : WF_vars(cancel_execution(c))

FairSpec == Spec /\ Fairness

-----------------------------------------------------------------------------
(***************************************************************************)
(* Properties that hold under every interleaving, duplicate ids included.  *)
(***************************************************************************)
ExecutorLabels ==
    {"start", "check", "create", "initialize", "resolve", "reject",
     "save_rejected", "publish_rejected", "select", "route", "run",
     "publish_started", "call", "complete", "save_completed",
     "publish_completed", "fail", "save_failed", "publish_failed",
     "already_exists", "raised", "returned_completed", "returned_failed"}

CancellerLabels ==
    {"start", "cancel", "save_cancelled", "not_found", "refused", "raised",
     "returned"}

Event == [type     : {"EXECUTION_STARTED", "EXECUTION_COMPLETED", "EXECUTION_FAILED"},
          sequence : {0, 1},
          by       : Executors]

\* Every variable has its type.
TypeOK ==
    /\ IdOf \in [Threads -> Ids]
    /\ records \in [Ids -> Record]
    /\ contexts \in [Ids -> Executors \cup {NoThread}]
    /\ held \in [Threads -> Record]
    /\ pc \in [Threads -> ExecutorLabels \cup CancellerLabels]
    /\ \A e \in Executors : pc[e] \in ExecutorLabels
    /\ \A c \in Cancellers : pc[c] \in CancellerLabels
    /\ answer \in [Executors -> {"none", "response", "error"}]
    /\ events \in [Ids -> Seq(Event)]

\* The transitions of a record form a chain of VALID_TRANSITIONS that starts
\* at CREATED and ends at the record's state, and the two timestamps are set
\* exactly when the chain says so.
AuditChain(record) ==
    LET log == record.transitions
    IN /\ \A i \in DOMAIN log : log[i][2] \in VALID_TRANSITIONS[log[i][1]]
       /\ \A i \in DOMAIN log : i > 1 => log[i][1] = log[i - 1][2]
       /\ log # <<>> => log[1][1] = "CREATED" /\ record.state = log[Len(log)][2]
       /\ log = <<>> => record.state \in {"ABSENT", "CREATED"}
       /\ record.started <=> \E i \in DOMAIN log : log[i][2] = "RUNNING"
       /\ record.completed <=> record.state \in Terminal

\* However threads overwrite one another's records, the audit trail of every
\* stored record and of every copy in a thread's hands is a legal history:
\* update_state checks the stored record, and save replaces records whole.
AuditTrail ==
    /\ \A id \in Ids : AuditChain(records[id])
    /\ \A t \in Threads : AuditChain(held[t])

ResultOf == [COMPLETED |-> {"COMPLETED"}, FAILED |-> {"FAILED"},
             CANCELLED |-> {"STOPPED"}, TERMINATED |-> {}]

SaveLabels == {"save_rejected", "save_completed", "save_failed", "save_cancelled"}

\* A terminal record carries the result of that outcome, or the thread that
\* moved it there still holds it in that state and is about to save the
\* result: no interleaving leaves a COMPLETED record without a result, or
\* with the result of another outcome.
ResultMatchesState ==
    \A id \in Ids :
        LET record == records[id]
        IN record.state \in Terminal =>
             \/ record.result \in ResultOf[record.state]
             \/ /\ record.result = "NONE"
                /\ \E t \in Threads : /\ IdOf[t] = id
                                      /\ pc[t] \in SaveLabels
                                      /\ held[t].state = record.state

-----------------------------------------------------------------------------
(***************************************************************************)
(* Properties of executions whose id is their own.                         *)
(***************************************************************************)
UniqueIds == \A e, f \in Executors : IdOf[e] = IdOf[f] => e = f

\* A cancellation that reached the record while it was RUNNING is final: no
\* copy the executor, or an earlier cancellation, still holds can bring the
\* execution back.
CancelOfRunningSticks ==
    [][\A id \in Ids :
         LET log == records[id].transitions
         IN (UniqueIds /\ log # <<>> /\ log[Len(log)] = <<"RUNNING", "CANCELLED">>) =>
               records'[id].state = "CANCELLED"]_vars

\* COMPLETED is never recorded, and EXECUTION_COMPLETED never published, for
\* an id whose provider call did not return a response to one of its
\* executors; and a record that has its id to itself starts to run only with
\* the target it was routed to, whatever cancellers do to it in between.
OutcomesAreEarned ==
    \A id \in Ids :
        /\ records[id].state = "COMPLETED" \/ Published(id, "EXECUTION_COMPLETED") =>
              \E e \in Executors : IdOf[e] = id /\ answer[e] = "response"
        /\ UniqueIds /\ records[id].started => records[id].target

\* What execute tells its caller once it is over is what the record says:
\* COMPLETED or FAILED as returned, and CANCELLED if execute raised.
AnswerAgreesWithRecord ==
    \A e \in Executors :
        /\ pc[e] = "returned_completed" => records[IdOf[e]].state = "COMPLETED"
        /\ pc[e] = "returned_failed" => records[IdOf[e]].state = "FAILED"
        /\ pc[e] = "raised" => records[IdOf[e]].state = "CANCELLED"

\* Subscribers are never told an outcome the record does not have: a terminal
\* event agrees with the stored state, and none is published for a
\* cancelled execution.
EventsAgreeWithRecord ==
    \A id \in Ids :
        /\ Published(id, "EXECUTION_COMPLETED") => records[id].state = "COMPLETED"
        /\ Published(id, "EXECUTION_FAILED") => records[id].state = "FAILED"

\* A terminal execution cannot transition further.
TerminalAbsorbing ==
    [][\A id \in Ids :
         records[id].state \in Terminal => records'[id].state = records[id].state]_vars

-----------------------------------------------------------------------------
(***************************************************************************)
(* Progress.                                                               *)
(***************************************************************************)
\* Every execute call comes to an end, and leaves its execution in a terminal
\* state for good, however calls for the same id interleave.
ExecutionsSettle ==
    \A e \in Executors :
        <>[](pc[e] \in Finished /\ records[IdOf[e]].state \in Terminal)

-----------------------------------------------------------------------------
(***************************************************************************)
(* Refinement.                                                             *)
(***************************************************************************)
PromisedStatus(id) ==
    CASE records[id].state = "ABSENT"                      -> "none"
      [] records[id].state \in {"CREATED", "INITIALIZING", "ROUTED"} -> "live"
      [] records[id].state = "RUNNING"                     -> "running"
      [] OTHER                                             -> records[id].state

PromisedReply(e) ==
    CASE pc[e] = "returned_completed" -> "COMPLETED"
      [] pc[e] = "returned_failed"    -> "FAILED"
      [] pc[e] = "raised"             -> "CANCELLED"
      [] OTHER                        -> "none"

PromisedNews(id) ==
    IF Published(id, "EXECUTION_COMPLETED") THEN "COMPLETED"
    ELSE IF Published(id, "EXECUTION_FAILED") THEN "FAILED" ELSE "none"

Promise == INSTANCE LifecyclePromise WITH
               IdOf   <- [e \in Executors |-> IdOf[e]],
               status <- [id \in Ids |-> PromisedStatus(id)],
               reply  <- [e \in Executors |-> PromisedReply(e)],
               told   <- [id \in Ids |-> PromisedNews(id)]

\* When ids are unique and callers cancel only an execution they were told
\* has started, the lifecycle keeps its promise: it implements
\* LifecyclePromise, liveness included.
PromiseKept == Promise!Spec
=============================================================================
