-------------------------- MODULE LifecyclePromise --------------------------
(***************************************************************************)
(* What the execution lifecycle promises its callers, without records,     *)
(* copies or locks: an execution is created once, settles once, and what   *)
(* execute answers and what the event bus is told is how it settled        *)
(* (docs/execution_lifecycle.md, sections 2, 4 and 5).                     *)
(***************************************************************************)
CONSTANTS Ids, Executors

VARIABLES
    IdOf,    \* the execution each execute call is about, never changed
    status,  \* of each execution
    reply,   \* what each execute call answered
    told     \* the outcome the event bus accepted for each execution

vars == <<IdOf, status, reply, told>>

Outcomes == {"COMPLETED", "FAILED", "CANCELLED"}

Init ==
    /\ IdOf \in [Executors -> Ids]
    /\ status = [id \in Ids |-> "none"]
    /\ reply  = [e \in Executors |-> "none"]
    /\ told   = [id \in Ids |-> "none"]

Create(id) ==
    /\ status[id] = "none"
    /\ status' = [status EXCEPT ![id] = "live"]
    /\ UNCHANGED <<IdOf, reply, told>>

Start(id) ==
    /\ status[id] = "live"
    /\ status' = [status EXCEPT ![id] = "running"]
    /\ UNCHANGED <<IdOf, reply, told>>

\* Only a running execution completes or is cancelled.
Settle(id, outcome) ==
    /\ status[id] \in IF outcome = "FAILED" THEN {"live", "running"} ELSE {"running"}
    /\ status' = [status EXCEPT ![id] = outcome]
    /\ UNCHANGED <<IdOf, reply, told>>

\* execute answers with the outcome, and raises if that is a cancellation;
\* subscribers hear of an outcome execute returned, or of none.
Answer(e) ==
    LET outcome == status[IdOf[e]]
    IN /\ reply[e] = "none"
       /\ outcome \in Outcomes
       /\ reply' = [reply EXCEPT ![e] = outcome]
       /\ \/ UNCHANGED told
          \/ outcome # "CANCELLED" /\ told' = [told EXCEPT ![IdOf[e]] = outcome]
       /\ UNCHANGED <<IdOf, status>>

Progress(id) == Start(id) \/ \E outcome \in Outcomes : Settle(id, outcome)

Next ==
    \/ \E id \in Ids : Create(id) \/ Progress(id)
    \/ \E e \in Executors : Answer(e)

\* An execution that was created settles, and its caller gets an answer.
Fairness ==
    /\ \A id \in Ids : WF_vars(Progress(id))
    /\ \A e \in Executors : WF_vars(Answer(e))

Spec == Init /\ [][Next]_vars /\ Fairness
=============================================================================
