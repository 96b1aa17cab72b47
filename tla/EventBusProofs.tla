--------------------------- MODULE EventBusProofs ---------------------------
(***************************************************************************)
(* Theorems about EventBus, for any number of publishers, subscriptions,   *)
(* events and clears.                                                      *)
(***************************************************************************)
EXTENDS EventBus, SequenceTheorems, TLAPS

-----------------------------------------------------------------------------
(***************************************************************************)
(* Type correctness.                                                       *)
(***************************************************************************)
LEMMA InitType == Init => TypeOK
<1> SUFFICES ASSUME Init PROVE TypeOK
    OBVIOUS
<1>1. <<>> \in Seq(Receipt)
    BY EmptySeq
<1>2. 0 \in 0..MaxSubs
    BY BusAssumption
<1>3. isolate \in BOOLEAN
    BY BusAssumption, Zenon DEF Init
<1> QED
    BY <1>1, <1>2, <1>3 DEF Init, TypeOK

LEMMA RefuseType ==
    ASSUME TypeOK, NEW t \in Threads, NEW event \in Events, Refuse(t, event)
    PROVE  TypeOK'
<1>1. made' \in [Threads -> Nat]
    BY DEF Refuse, Calls, TypeOK
<1>2. PICK o \in {"closed", "duplicate", "conflict"} : outcome' = [outcome EXCEPT ![t] = o]
    BY DEF Refuse
<1>3. outcome' \in [Threads -> {"none", "closed", "duplicate", "conflict", "delivered",
                                "delivery_error"}]
    BY <1>2 DEF TypeOK
<1> QED
    BY <1>1, <1>3 DEF TypeOK, Refuse, busVars

LEMMA AcceptType ==
    ASSUME TypeOK, NEW t \in Threads, NEW event \in Events, Accept(t, event)
    PROVE  TypeOK'
<1>1. event.sequence \in Nat /\ event.execution_id \in Executions
    BY BusAssumption
<1>2. sequences' \in [Executions -> Nat \cup {-1}]
    BY <1>1 DEF Accept, TypeOK
<1>3. {s \in subscriptions : Matches(s, event)} \subseteq SubIds
    BY DEF TypeOK
<1> QED
    BY <1>2, <1>3 DEF TypeOK, Accept, Calls

LEMMA InvokeType ==
    ASSUME TypeOK, NEW t \in Threads, Invoke(t)
    PROVE  TypeOK'
<1>1. PICK s \in pending[t], ok \in BOOLEAN :
         /\ pending' = [pending EXCEPT ![t] = @ \ {s}]
         /\ received' = [received EXCEPT ![s] =
                Append(@, [event |-> current[t], by |-> t, call |-> made[t], ok |-> ok])]
         /\ pc' = [pc EXCEPT ![t] = IF ok THEN "dispatch" ELSE "record"]
    BY DEF Invoke
<1>2. s \in SubIds
    BY DEF TypeOK
<1>3. [event |-> current[t], by |-> t, call |-> made[t], ok |-> ok] \in Receipt
    BY DEF TypeOK, Receipt
<1>4. received' \in [SubIds -> Seq(Receipt)]
    BY <1>1, <1>2, <1>3, AppendProperties DEF TypeOK
<1>5. pending' \in [Threads -> SUBSET SubIds]
    BY <1>1 DEF TypeOK
<1>6. pc' \in [Threads -> {"idle", "dispatch", "record"}]
    BY <1>1 DEF TypeOK
<1> QED
    BY <1>4, <1>5, <1>6 DEF TypeOK, Invoke, busVars

LEMMA RecordType ==
    ASSUME TypeOK, NEW t \in Threads, RecordError(t) \/ Return(t)
    PROVE  TypeOK'
<1>1. CASE RecordError(t)
    <2>1. [by |-> t, call |-> made[t]] \in [by : Threads, call : Nat]
        BY DEF TypeOK
    <2>2. failed' \in [Threads -> BOOLEAN]
        <3>1. (failed[t] \/ ~isolate) \in BOOLEAN
            OBVIOUS
        <3> QED
            BY <1>1, <3>1, Zenon DEF RecordError, TypeOK
    <2>3. /\ pc' \in [Threads -> {"idle", "dispatch", "record"}]
          /\ handler_errors' \subseteq [by : Threads, call : Nat]
        BY <1>1, <2>1 DEF RecordError, TypeOK
    <2> QED
        BY <1>1, <2>2, <2>3 DEF TypeOK, RecordError
<1>2. CASE Return(t)
    BY <1>2 DEF TypeOK, Return, busVars
<1> QED
    BY <1>1, <1>2

LEMMA OthersType ==
    ASSUME TypeOK, subscribe \/ unsubscribe \/ clear \/ close
    PROVE  TypeOK'
<1>1. CASE subscribe
    <2>1. issued + 1 \in SubIds /\ issued' \in 0..MaxSubs
        BY <1>1, BusAssumption DEF subscribe, TypeOK, SubIds
    <2>2. DOMAIN filter' = SubIds
        BY <1>1 DEF subscribe, TypeOK
    <2> QED
        BY <1>1, <2>1, <2>2 DEF subscribe, TypeOK, callVars
<1>2. CASE unsubscribe
    BY <1>2 DEF unsubscribe, TypeOK, callVars
<1>3. CASE clear
    BY <1>3 DEF clear, Forget, TypeOK, callVars
<1>4. CASE close
    BY <1>4 DEF close, Forget, TypeOK, callVars
<1> QED
    BY <1>1, <1>2, <1>3, <1>4

LEMMA NextType == TypeOK /\ [Next]_vars => TypeOK'
<1> SUFFICES ASSUME TypeOK, [Next]_vars PROVE TypeOK'
    OBVIOUS
<1>1. CASE UNCHANGED vars
    BY <1>1 DEF vars, busVars, callVars, TypeOK
<1>2. CASE Next
    BY <1>2, RefuseType, AcceptType, InvokeType, RecordType, OthersType DEF Next, publish
<1> QED
    BY <1>1, <1>2

\* Type correctness of the bus.
THEOREM TypeCorrect == Spec => []TypeOK
BY InitType, NextType, PTL DEF Spec

-----------------------------------------------------------------------------
(***************************************************************************)
(* At most one delivery.                                                   *)
(***************************************************************************)
\* The handler of s was called with the event id.
Got(s, id) == \E i \in DOMAIN received[s] : received[s][i].event.event_id = id

\* AtMostOnce is not inductive by itself: the handlers a thread has still to
\* call must not have been called with its event, nor be about to be by
\* another thread, and what is not in the registry can have touched none of
\* the live subscriptions.
OnceInv ==
    /\ AtMostOnce
    /\ \A t \in Threads : \A s \in pending[t] : ~Got(s, current[t].event_id)
    /\ \A t, u \in Threads : \A s \in pending[t] \cap pending[u] :
          current[t].event_id = current[u].event_id => t = u
    /\ \A t \in Threads : \A s \in pending[t] \cap subscriptions : current[t] \in published
    /\ \A s \in subscriptions : \A i \in DOMAIN received[s] : received[s][i].event \in published
    /\ \A s \in SubIds : s > issued =>
          /\ s \notin subscriptions
          /\ received[s] = <<>>
          /\ \A t \in Threads : s \notin pending[t]

\* What OnceInv says is read from four variables and from the bounds of two
\* that may shrink.
LEMMA QuietOnce ==
    ASSUME OnceInv, UNCHANGED <<pending, current, received, issued>>,
           \/ UNCHANGED <<subscriptions, published>>
           \/ subscriptions' \subseteq subscriptions /\ UNCHANGED published
           \/ subscriptions' = {}
    PROVE  OnceInv'
BY DEF OnceInv, AtMostOnce, Got

LEMMA AcceptOnce ==
    ASSUME TypeOK, OnceInv, NEW t \in Threads, NEW event \in Events, Accept(t, event)
    PROVE  OnceInv'
<1> DEFINE subs == {s \in subscriptions : Matches(s, event)}
<1>1. /\ \A u \in Threads : u # t => pending'[u] = pending[u] /\ current'[u] = current[u]
      /\ pending'[t] = subs /\ current'[t] = event
      /\ published' = published \cup {event}
      /\ UNCHANGED <<subscriptions, received, issued>>
    BY DEF Accept, TypeOK
<1>2. \A p \in published : p.event_id # event.event_id
    BY DEF Accept, Known
<1>3. subs \subseteq subscriptions
    OBVIOUS
<1> HIDE DEF subs
<1>4. \A u \in Threads : \A s \in pending'[u] : ~Got(s, current'[u].event_id)
    BY <1>1, <1>2, <1>3 DEF OnceInv, Got
<1>5. ASSUME NEW u \in Threads, NEW v \in Threads, NEW s \in pending'[u] \cap pending'[v],
             current'[u].event_id = current'[v].event_id
      PROVE  u = v
    <2>1. CASE u # t /\ v # t
        BY <1>1, <1>5, <2>1 DEF OnceInv
    <2>2. ASSUME NEW w \in Threads, w # t, s \in pending[w], s \in subs
          PROVE  current[w].event_id # event.event_id
        BY <1>2, <1>3, <2>2 DEF OnceInv
    <2> QED
        BY <1>1, <1>5, <2>1, <2>2
<1>6. \A u \in Threads : \A s \in pending'[u] \cap subscriptions : current'[u] \in published'
    BY <1>1 DEF OnceInv
<1>7. \A s \in SubIds : s > issued => \A u \in Threads : s \notin pending'[u]
    BY <1>1, <1>3 DEF OnceInv
<1> QED
    BY <1>1, <1>4, <1>5, <1>6, <1>7 DEF OnceInv, AtMostOnce, Got

LEMMA InvokeOnce ==
    ASSUME TypeOK, OnceInv, NEW t \in Threads, Invoke(t)
    PROVE  OnceInv'
<1>1. PICK s \in pending[t], ok \in BOOLEAN :
         /\ pending' = [pending EXCEPT ![t] = @ \ {s}]
         /\ received' = [received EXCEPT ![s] =
                Append(@, [event |-> current[t], by |-> t, call |-> made[t], ok |-> ok])]
    BY DEF Invoke
<1> DEFINE e == [event |-> current[t], by |-> t, call |-> made[t], ok |-> ok]
           n == Len(received[s])
<1>2. s \in SubIds /\ received[s] \in Seq(Receipt) /\ e \in Receipt
    BY DEF TypeOK, Receipt
<1>3. /\ received'[s] = Append(received[s], e)
      /\ \A r \in SubIds : r # s => received'[r] = received[r]
      /\ pending'[t] = pending[t] \ {s}
      /\ \A u \in Threads : u # t => pending'[u] = pending[u]
      /\ UNCHANGED <<subscriptions, published, current, issued>>
    BY <1>1, <1>2 DEF TypeOK, Invoke, busVars
<1>4. /\ n \in Nat
      /\ DOMAIN received[s] = 1..n
      /\ DOMAIN received'[s] = 1..(n + 1)
      /\ \A i \in 1..n : received'[s][i] = received[s][i]
      /\ received'[s][n + 1] = e
    BY <1>2, <1>3, AppendProperties, LenProperties
<1>5. e.event = current[t]
    OBVIOUS
<1> HIDE DEF e, n
<1>6. \A i \in 1..(n + 1) : i \in 1..n \/ i = n + 1
    BY <1>4
<1>7. AtMostOnce'
    <2> SUFFICES ASSUME NEW r \in SubIds, NEW i \in DOMAIN received'[r],
                        NEW j \in DOMAIN received'[r],
                        received'[r][i].event.event_id = received'[r][j].event.event_id
                 PROVE  i = j
        BY DEF AtMostOnce
    <2>1. CASE r # s
        BY <1>3, <2>1 DEF OnceInv, AtMostOnce
    <2>2. CASE r = s
        <3>1. \A k \in 1..n : received[s][k].event.event_id # current[t].event_id
            BY <1>4 DEF OnceInv, Got
        <3> QED
            BY <1>2, <1>4, <1>5, <1>6, <2>2, <3>1, SMTT(30) DEF OnceInv, AtMostOnce
    <2> QED
        BY <2>1, <2>2
<1>8. ASSUME NEW u \in Threads, NEW r \in pending'[u], NEW i \in DOMAIN received'[r]
      PROVE  received'[r][i].event.event_id # current[u].event_id
    <2>1. r \in pending[u] /\ r \in SubIds
        BY <1>3, <1>8 DEF TypeOK
    <2>2. CASE r # s
        BY <1>3, <1>8, <2>1, <2>2 DEF OnceInv, Got
    <2>3. CASE r = s
        <3>1. u # t
            BY <1>3, <1>8, <2>3
        <3>2. current[u].event_id # current[t].event_id
            BY <1>1, <2>1, <2>3, <3>1 DEF OnceInv
        <3> QED
            BY <1>4, <1>5, <1>6, <1>8, <2>1, <2>3, <3>2 DEF OnceInv, Got
    <2> QED
        BY <2>2, <2>3
<1>9. \A r \in subscriptions : \A i \in DOMAIN received'[r] : received'[r][i].event \in published
    <2> SUFFICES ASSUME NEW r \in subscriptions, NEW i \in DOMAIN received'[r]
                 PROVE  received'[r][i].event \in published
        OBVIOUS
    <2>1. CASE r # s
        BY <1>3, <2>1 DEF OnceInv, TypeOK
    <2>2. CASE r = s
        <3>1. current[t] \in published
            BY <1>1, <2>2 DEF OnceInv
        <3> QED
            BY <1>4, <1>5, <1>6, <2>2, <3>1 DEF OnceInv
    <2> QED
        BY <2>1, <2>2
<1>10. \A u \in Threads : pending'[u] \subseteq pending[u]
    BY <1>3
<1>11. s <= issued
    BY <1>1, <1>2 DEF OnceInv, TypeOK, SubIds
<1>12. \A r \in SubIds : r > issued =>
          received'[r] = <<>> /\ \A u \in Threads : r \notin pending'[u]
    BY <1>3, <1>10, <1>11 DEF OnceInv, TypeOK, SubIds
<1> QED
    BY <1>3, <1>7, <1>8, <1>9, <1>10, <1>12 DEF OnceInv, Got

LEMMA SubscribeOnce ==
    ASSUME TypeOK, OnceInv, subscribe
    PROVE  OnceInv'
<1>1. /\ issued' = issued + 1
      /\ subscriptions' = subscriptions \cup {issued + 1}
      /\ UNCHANGED <<published, pending, current, received>>
      /\ issued + 1 \in SubIds /\ issued \in Nat
    BY BusAssumption DEF subscribe, callVars, TypeOK, SubIds
<1>2. received[issued + 1] = <<>> /\ \A t \in Threads : issued + 1 \notin pending[t]
    BY <1>1 DEF OnceInv
<1>3. DOMAIN received[issued + 1] = {}
    BY <1>2, EmptySeq
<1>4. \A s \in SubIds : s > issued + 1 => s > issued /\ s # issued + 1
    BY <1>1 DEF SubIds
<1> QED
    BY <1>1, <1>2, <1>3, <1>4 DEF OnceInv, AtMostOnce, Got

LEMMA NextOnce == TypeOK /\ OnceInv /\ [Next]_vars => OnceInv'
<1> SUFFICES ASSUME TypeOK, OnceInv, [Next]_vars PROVE OnceInv'
    OBVIOUS
<1>1. CASE UNCHANGED vars
    BY <1>1, QuietOnce DEF vars, busVars, callVars
<1>2. ASSUME NEW t \in Threads, publish(t)
      PROVE  OnceInv'
    <2>1. ASSUME NEW event \in Events, Refuse(t, event)
          PROVE  OnceInv'
        BY <2>1, QuietOnce DEF Refuse, busVars
    <2>2. CASE RecordError(t) \/ Return(t)
        BY <2>2, QuietOnce DEF RecordError, Return, busVars
    <2> QED
        BY <1>2, <2>1, <2>2, AcceptOnce, InvokeOnce DEF publish
<1>3. CASE unsubscribe
    BY <1>3, QuietOnce DEF unsubscribe, callVars
<1>4. CASE clear \/ close
    BY <1>4, QuietOnce DEF clear, close, Forget, callVars
<1> QED
    BY <1>1, <1>2, <1>3, <1>4, SubscribeOnce DEF Next

LEMMA InitOnce == Init => OnceInv
<1> SUFFICES ASSUME Init PROVE OnceInv
    OBVIOUS
<1>1. \A s \in SubIds : received[s] = <<>> /\ DOMAIN received[s] = {}
    BY EmptySeq DEF Init
<1> QED
    BY <1>1 DEF Init, OnceInv, AtMostOnce, Got

\* No handler is called twice with one event id.
THEOREM DeliveredAtMostOnce == Spec => []AtMostOnce
<1>1. OnceInv => AtMostOnce
    BY DEF OnceInv
<1> QED
    BY <1>1, InitType, NextType, InitOnce, NextOnce, PTL DEF Spec

-----------------------------------------------------------------------------
(***************************************************************************)
(* The tables.                                                             *)
(***************************************************************************)
\* TablesAgree with its set of sequences unfolded: a recorded sequence is that
\* of a published event, and no published event has a higher one.
TablesInv ==
    /\ \A p, q \in published : p.event_id = q.event_id => p = q
    /\ \A x \in Executions :
          /\ sequences[x] # -1 =>
                \E p \in published : p.execution_id = x /\ p.sequence = sequences[x]
          /\ \A p \in published : p.execution_id = x => p.sequence <= sequences[x]
    /\ closed => subscriptions = {} /\ published = {}

LEMMA TablesFollow == TypeOK /\ TablesInv => TablesAgree
<1> SUFFICES ASSUME TypeOK, TablesInv, NEW x \in Executions
             PROVE  LET seqs == {p.sequence : p \in {q \in published : q.execution_id = x}}
                                    \cup {-1}
                    IN sequences[x] \in seqs /\ \A n \in seqs : n <= sequences[x]
    BY DEF TablesAgree, TablesInv
<1>1. sequences[x] \in Nat \cup {-1}
    BY DEF TypeOK
<1> QED
    BY <1>1 DEF TablesInv

LEMMA AcceptTables ==
    ASSUME TypeOK, TablesInv, NEW t \in Threads, NEW event \in Events, Accept(t, event)
    PROVE  TablesInv'
<1>1. event.sequence \in Nat /\ event.execution_id \in Executions
    BY BusAssumption
<1>2. /\ published' = published \cup {event}
      /\ ~closed /\ closed' = closed
      /\ \A p \in published : p.event_id # event.event_id
    BY DEF Accept, Known
<1>3. \A x \in Executions :
         sequences'[x] = IF x = event.execution_id /\ sequences[x] < event.sequence
                         THEN event.sequence ELSE sequences[x]
    <2> DEFINE old == sequences[event.execution_id]
               new == IF old >= event.sequence THEN old ELSE event.sequence
    <2>1. sequences' = [sequences EXCEPT ![event.execution_id] = new]
        BY DEF Accept
    <2>2. old \in Nat \cup {-1}
        BY <1>1 DEF TypeOK
    <2>3. new = IF old < event.sequence THEN event.sequence ELSE old
        <3> HIDE DEF old
        <3> QED
            BY <1>1, <2>2
    <2> HIDE DEF new
    <2> QED
        BY <1>1, <2>1, <2>3 DEF TypeOK
<1>4. \A x \in Executions : sequences[x] \in Nat \cup {-1}
    BY DEF TypeOK
<1>5. \A p \in published : p.sequence \in Nat
    BY BusAssumption DEF TypeOK
<1>6. ASSUME NEW x \in Executions
      PROVE  /\ sequences'[x] # -1 =>
                   \E p \in published' : p.execution_id = x /\ p.sequence = sequences'[x]
             /\ \A p \in published' : p.execution_id = x => p.sequence <= sequences'[x]
    <2>1. CASE x = event.execution_id /\ sequences[x] < event.sequence
        BY <1>1, <1>2, <1>3, <1>4, <1>5, <2>1 DEF TablesInv
    <2>2. CASE ~(x = event.execution_id /\ sequences[x] < event.sequence)
        BY <1>1, <1>2, <1>3, <1>4, <1>5, <2>2 DEF TablesInv
    <2> QED
        BY <2>1, <2>2
<1>7. \A p, q \in published' : p.event_id = q.event_id => p = q
    BY <1>2 DEF TablesInv
<1> QED
    BY <1>2, <1>6, <1>7 DEF TablesInv

LEMMA NextTables == TypeOK /\ TablesInv /\ [Next]_vars => TablesInv'
<1> SUFFICES ASSUME TypeOK, TablesInv, [Next]_vars PROVE TablesInv'
    OBVIOUS
<1>1. CASE UNCHANGED <<subscriptions, published, sequences, closed>>
    BY <1>1 DEF TablesInv
<1>2. CASE UNCHANGED vars
    BY <1>1, <1>2 DEF vars, busVars
<1>3. ASSUME NEW t \in Threads, publish(t)
      PROVE  TablesInv'
    BY <1>1, <1>3, AcceptTables DEF publish, Refuse, Invoke, RecordError, Return, busVars
<1>4. CASE subscribe
    BY <1>4 DEF subscribe, TablesInv
<1>5. CASE unsubscribe
    BY <1>5 DEF unsubscribe, TablesInv
<1>6. CASE clear \/ close
    BY <1>6 DEF clear, close, Forget, TablesInv
<1> QED
    BY <1>2, <1>3, <1>4, <1>5, <1>6 DEF Next

\* One event per id, the highest sequence on record, and nothing in a closed
\* bus, however publishing, subscribing, clearing and closing interleave.
THEOREM TablesAlwaysAgree == Spec => []TablesAgree
<1>1. Init => TablesInv
    BY DEF Init, TablesInv
<1> QED
    BY <1>1, InitType, NextType, NextTables, TablesFollow, PTL DEF Spec

-----------------------------------------------------------------------------
(***************************************************************************)
(* Who is called, and what becomes of a failure.                           *)
(***************************************************************************)
\* Receipts are numbered by the calls they belong to, none of them in the
\* future, and a thread has only matching handlers left to call.
CallsInv ==
    /\ \A s \in SubIds : \A i \in DOMAIN received[s] :
          received[s][i].call <= made[received[s][i].by]
    /\ \A t \in Threads : pending[t] \subseteq matching[t]

\* What one handler call does to the receipts.
LEMMA InvokeReceipts ==
    ASSUME TypeOK, NEW t \in Threads, Invoke(t)
    PROVE  \E s \in pending[t] : \E ok \in BOOLEAN : \E n \in Nat :
              /\ s \in SubIds
              /\ pending'[t] = pending[t] \ {s}
              /\ \A u \in Threads : u # t => pending'[u] = pending[u] /\ pc'[u] = pc[u]
              /\ pc'[t] = IF ok THEN "dispatch" ELSE "record"
              /\ \A r \in SubIds : r # s => received'[r] = received[r]
              /\ DOMAIN received[s] = 1..n
              /\ DOMAIN received'[s] = 1..(n + 1)
              /\ \A i \in 1..n : received'[s][i] = received[s][i]
              /\ received'[s][n + 1].by = t
              /\ received'[s][n + 1].call = made[t]
              /\ received'[s][n + 1].ok <=> ok
              /\ UNCHANGED <<busVars, matching, failed, outcome, made, cleared>>
<1>1. PICK s \in pending[t], ok \in BOOLEAN :
         /\ pending' = [pending EXCEPT ![t] = @ \ {s}]
         /\ received' = [received EXCEPT ![s] =
                Append(@, [event |-> current[t], by |-> t, call |-> made[t], ok |-> ok])]
         /\ pc' = [pc EXCEPT ![t] = IF ok THEN "dispatch" ELSE "record"]
    BY DEF Invoke
<1> DEFINE e == [event |-> current[t], by |-> t, call |-> made[t], ok |-> ok]
           n == Len(received[s])
<1>2. s \in SubIds /\ received[s] \in Seq(Receipt) /\ e \in Receipt
    BY DEF TypeOK, Receipt
<1>3. received'[s] = Append(received[s], e) /\ \A r \in SubIds : r # s => received'[r] = received[r]
    BY <1>1, <1>2 DEF TypeOK
<1>4. e.by = t /\ e.call = made[t] /\ (e.ok <=> ok)
    OBVIOUS
<1> HIDE DEF e
<1>5. /\ n \in Nat
      /\ DOMAIN received[s] = 1..n
      /\ DOMAIN received'[s] = 1..(n + 1)
      /\ \A i \in 1..n : received'[s][i] = received[s][i]
      /\ received'[s][n + 1] = e
    BY <1>2, <1>3, AppendProperties, LenProperties
<1> HIDE DEF n
<1>6. /\ pending'[t] = pending[t] \ {s}
      /\ \A u \in Threads : u # t => pending'[u] = pending[u] /\ pc'[u] = pc[u]
      /\ pc'[t] = IF ok THEN "dispatch" ELSE "record"
    BY <1>1 DEF TypeOK
<1>7. UNCHANGED <<busVars, matching, failed, outcome, made, cleared>>
    BY DEF Invoke
<1> QED
    BY <1>1, <1>2, <1>3, <1>4, <1>5, <1>6, <1>7

LEMMA NextCalls == TypeOK /\ CallsInv /\ [Next]_vars => CallsInv'
<1> SUFFICES ASSUME TypeOK, CallsInv, [Next]_vars PROVE CallsInv'
    OBVIOUS
<1>1. \A s \in SubIds : \A i \in DOMAIN received[s] :
         received[s][i].call \in Nat /\ received[s][i].by \in Threads
    <2> SUFFICES ASSUME NEW s \in SubIds, NEW i \in DOMAIN received[s]
                 PROVE  received[s][i].call \in Nat /\ received[s][i].by \in Threads
        OBVIOUS
    <2>1. received[s] \in Seq(Receipt)
        BY DEF TypeOK
    <2>2. received[s][i] \in Receipt
        BY <2>1, ElementOfSeq, LenProperties
    <2> QED
        BY <2>2 DEF Receipt
<1>2. CASE UNCHANGED <<made, received, pending, matching>>
    BY <1>2 DEF CallsInv
<1>3. ASSUME NEW t \in Threads, Calls(t), UNCHANGED received,
             \/ UNCHANGED <<pending, matching>>
             \/ \E subs : /\ pending' = [pending EXCEPT ![t] = subs]
                          /\ matching' = [matching EXCEPT ![t] = subs]
      PROVE  CallsInv'
    <2>1. \A u \in Threads : made[u] \in Nat /\ made'[u] \in {made[u], made[u] + 1}
        BY <1>3 DEF Calls, TypeOK
    <2>2. \A u \in Threads : pending'[u] \subseteq matching'[u]
      <3>1. CASE UNCHANGED <<pending, matching>>
          BY <3>1 DEF CallsInv
      <3>2. ASSUME NEW subs, pending' = [pending EXCEPT ![t] = subs],
                   matching' = [matching EXCEPT ![t] = subs]
            PROVE  \A u \in Threads : pending'[u] \subseteq matching'[u]
        <4>1. \A u \in Threads : pending[u] \subseteq matching[u]
            BY DEF CallsInv
        <4>2. DOMAIN pending = Threads /\ DOMAIN matching = Threads
            BY DEF TypeOK
        <4> QED
            BY <3>2, <4>1, <4>2
      <3> QED
          BY <1>3, <3>1, <3>2
    <2> QED
        BY <1>1, <1>3, <2>1, <2>2 DEF CallsInv
<1>4. ASSUME NEW t \in Threads, Invoke(t)
      PROVE  CallsInv'
    <2>1. PICK s \in pending[t], ok \in BOOLEAN, n \in Nat :
              /\ s \in SubIds
              /\ pending'[t] = pending[t] \ {s}
              /\ \A u \in Threads : u # t => pending'[u] = pending[u] /\ pc'[u] = pc[u]
              /\ pc'[t] = IF ok THEN "dispatch" ELSE "record"
              /\ \A r \in SubIds : r # s => received'[r] = received[r]
              /\ DOMAIN received[s] = 1..n
              /\ DOMAIN received'[s] = 1..(n + 1)
              /\ \A i \in 1..n : received'[s][i] = received[s][i]
              /\ received'[s][n + 1].by = t
              /\ received'[s][n + 1].call = made[t]
              /\ received'[s][n + 1].ok <=> ok
              /\ UNCHANGED <<busVars, matching, failed, outcome, made, cleared>>
        BY <1>4, InvokeReceipts
    <2>2. made[t] <= made[t]
        BY DEF TypeOK
    <2>3. \A i \in 1..(n + 1) : i \in 1..n \/ i = n + 1
        OBVIOUS
    <2>4. \A r \in SubIds : \A i \in DOMAIN received'[r] :
             received'[r][i].call <= made[received'[r][i].by]
        BY <2>1, <2>2, <2>3, SMTT(30) DEF CallsInv
    <2> QED
        BY <2>1, <2>4 DEF CallsInv
<1>5. ASSUME NEW t \in Threads, publish(t)
      PROVE  CallsInv'
    <2>1. ASSUME NEW event \in Events, Refuse(t, event)
          PROVE  CallsInv'
        BY <1>3, <2>1 DEF Refuse
    <2>2. ASSUME NEW event \in Events, Accept(t, event)
          PROVE  CallsInv'
        BY <1>3, <2>2 DEF Accept
    <2>3. CASE RecordError(t) \/ Return(t)
        BY <1>2, <2>3 DEF RecordError, Return
    <2> QED
        BY <1>4, <1>5, <2>1, <2>2, <2>3 DEF publish
<1>6. CASE UNCHANGED vars
    BY <1>2, <1>6 DEF vars, callVars
<1>7. CASE subscribe \/ unsubscribe \/ clear \/ close
    BY <1>2, <1>7 DEF subscribe, unsubscribe, clear, close, callVars
<1> QED
    BY <1>5, <1>6, <1>7 DEF Next

\* The handler of s raised in the thread's current call.
Missed(t, s) ==
    \E i \in DOMAIN received[s] :
        received[s][i].by = t /\ received[s][i].call = made[t] /\ ~received[s][i].ok

\* A handler call changes what one thread knows of one subscription.
LEMMA InvokeHeard ==
    ASSUME TypeOK, NEW t \in Threads, Invoke(t)
    PROVE  \E s \in pending[t] : \E ok \in BOOLEAN :
              /\ s \in SubIds
              /\ pending'[t] = pending[t] \ {s}
              /\ \A u \in Threads : u # t => pending'[u] = pending[u] /\ pc'[u] = pc[u]
              /\ pc'[t] = IF ok THEN "dispatch" ELSE "record"
              /\ \A u \in Threads : \A r \in SubIds :
                    /\ Heard(u, r)' <=> Heard(u, r) \/ (u = t /\ r = s)
                    /\ Missed(u, r)' <=> Missed(u, r) \/ (u = t /\ r = s /\ ~ok)
<1>1. PICK s \in pending[t], ok \in BOOLEAN, n \in Nat :
          /\ s \in SubIds
          /\ pending'[t] = pending[t] \ {s}
          /\ \A u \in Threads : u # t => pending'[u] = pending[u] /\ pc'[u] = pc[u]
          /\ pc'[t] = IF ok THEN "dispatch" ELSE "record"
          /\ \A r \in SubIds : r # s => received'[r] = received[r]
          /\ DOMAIN received[s] = 1..n
          /\ DOMAIN received'[s] = 1..(n + 1)
          /\ \A i \in 1..n : received'[s][i] = received[s][i]
          /\ received'[s][n + 1].by = t
          /\ received'[s][n + 1].call = made[t]
          /\ received'[s][n + 1].ok <=> ok
          /\ UNCHANGED <<busVars, matching, failed, outcome, made, cleared>>
    BY InvokeReceipts
<1>2. n + 1 \in 1..(n + 1) /\ \A i \in 1..(n + 1) : i \in 1..n \/ i = n + 1
    OBVIOUS
<1>3. 1..n \subseteq 1..(n + 1)
    OBVIOUS
<1>4. ASSUME NEW u \in Threads, NEW r \in SubIds
      PROVE  /\ Heard(u, r)' <=> Heard(u, r) \/ (u = t /\ r = s)
             /\ Missed(u, r)' <=> Missed(u, r) \/ (u = t /\ r = s /\ ~ok)
    <2>1. CASE r # s
        BY <1>1, <2>1 DEF Heard, Missed
    <2>2. CASE r = s /\ u # t
        BY <1>1, <1>2, <1>3, <2>2, SMTT(30) DEF Heard, Missed
    <2>3. CASE r = s /\ u = t
        <3>1. Heard(t, s)'
            BY <1>1, <1>2 DEF Heard
        <3>2. Missed(t, s)' <=> Missed(t, s) \/ ~ok
            BY <1>1, <1>2, <1>3 DEF Missed
        <3> QED
            BY <2>3, <3>1, <3>2
    <2> QED
        BY <2>1, <2>2, <2>3
<1> QED
    BY <1>1, <1>4

\* A new call has heard nothing and missed nothing yet.
LEMMA CallsHeard ==
    ASSUME TypeOK, CallsInv, NEW t \in Threads, Calls(t), UNCHANGED received
    PROVE  /\ \A r \in SubIds : ~Heard(t, r)' /\ ~Missed(t, r)'
           /\ \A u \in Threads : u # t =>
                 \A r \in SubIds : (Heard(u, r)' <=> Heard(u, r)) /\ (Missed(u, r)' <=> Missed(u, r))
<1>1. /\ made[t] \in Nat /\ made'[t] = made[t] + 1
      /\ \A u \in Threads : u # t => made'[u] = made[u]
    BY DEF Calls, TypeOK
<1>2. ASSUME NEW r \in SubIds, NEW i \in DOMAIN received[r], received[r][i].by = t
      PROVE  received[r][i].call # made[t] + 1
    BY <1>1, <1>2 DEF CallsInv
<1> QED
    BY <1>1, <1>2 DEF Heard, Missed

LEMMA NextAudience == TypeOK /\ CallsInv /\ WholeAudience /\ [Next]_vars => WholeAudience'
<1> SUFFICES ASSUME TypeOK, CallsInv, WholeAudience, [Next]_vars PROVE WholeAudience'
    OBVIOUS
<1>1. CASE UNCHANGED <<pc, outcome, matching, pending, received, made>>
    BY <1>1 DEF WholeAudience, Heard
<1>2. ASSUME NEW t \in Threads, NEW event \in Events, Refuse(t, event)
      PROVE  WholeAudience'
    <2>1. /\ outcome'[t] \notin {"delivered", "delivery_error"} /\ pc'[t] = "idle"
          /\ \A u \in Threads : u # t => outcome'[u] = outcome[u]
          /\ Calls(t) /\ UNCHANGED <<pc, matching, pending, received>>
        BY <1>2 DEF Refuse, Calls, TypeOK
    <2> QED
        BY <2>1, CallsHeard DEF WholeAudience
<1>3. ASSUME NEW t \in Threads, NEW event \in Events, Accept(t, event)
      PROVE  WholeAudience'
    <2>1. /\ pc'[t] = "dispatch" /\ matching'[t] = pending'[t]
          /\ \A u \in Threads : u # t =>
                pc'[u] = pc[u] /\ matching'[u] = matching[u] /\ pending'[u] = pending[u]
          /\ Calls(t) /\ UNCHANGED <<outcome, received>>
        BY <1>3 DEF Accept, TypeOK
    <2> QED
        BY <2>1, CallsHeard DEF WholeAudience
<1>4. ASSUME NEW t \in Threads, Invoke(t)
      PROVE  WholeAudience'
    <2>1. PICK s \in pending[t], ok \in BOOLEAN :
              /\ s \in SubIds
              /\ pending'[t] = pending[t] \ {s}
              /\ \A u \in Threads : u # t => pending'[u] = pending[u] /\ pc'[u] = pc[u]
              /\ pc'[t] = IF ok THEN "dispatch" ELSE "record"
              /\ \A u \in Threads : \A r \in SubIds :
                    /\ Heard(u, r)' <=> Heard(u, r) \/ (u = t /\ r = s)
                    /\ Missed(u, r)' <=> Missed(u, r) \/ (u = t /\ r = s /\ ~ok)
        BY <1>4, InvokeHeard
    <2>2. pc[t] # "idle" /\ s \in matching[t] /\ UNCHANGED <<outcome, matching>>
        BY <1>4, <2>1 DEF Invoke, CallsInv
    <2>3. pc'[t] # "idle"
        BY <2>1
    <2> QED
        BY <2>1, <2>2, <2>3 DEF WholeAudience
<1>5. ASSUME NEW t \in Threads, RecordError(t)
      PROVE  WholeAudience'
    <2>1. /\ pc[t] # "idle" /\ pc'[t] # "idle"
          /\ \A u \in Threads : u # t => pc'[u] = pc[u]
          /\ UNCHANGED <<outcome, matching, pending, received, made>>
        BY <1>5 DEF RecordError, TypeOK
    <2> QED
        BY <2>1 DEF WholeAudience, Heard
<1>6. ASSUME NEW t \in Threads, Return(t)
      PROVE  WholeAudience'
    <2>1. /\ pc[t] # "idle" /\ pending[t] = {}
          /\ \A u \in Threads : u # t => pc'[u] = pc[u] /\ outcome'[u] = outcome[u]
          /\ UNCHANGED <<matching, pending, received, made>>
        BY <1>6 DEF Return, TypeOK
    <2> QED
        BY <2>1 DEF WholeAudience, Heard
<1>7. CASE UNCHANGED vars
    BY <1>1, <1>7 DEF vars, callVars
<1>8. CASE subscribe \/ unsubscribe \/ clear \/ close
    BY <1>1, <1>8 DEF subscribe, unsubscribe, clear, close, callVars
<1> QED
    BY <1>2, <1>3, <1>4, <1>5, <1>6, <1>7, <1>8 DEF Next, publish

LEMMA InitCalls == Init => CallsInv /\ WholeAudience
<1> SUFFICES ASSUME Init PROVE CallsInv /\ WholeAudience
    OBVIOUS
<1>1. \A s \in SubIds : received[s] = <<>> /\ DOMAIN received[s] = {}
    BY EmptySeq DEF Init
<1> QED
    BY <1>1 DEF Init, CallsInv, WholeAudience

\* A publish calls every handler that matched when it was accepted, and no
\* other, whatever is raised, unsubscribed, cleared or closed meanwhile.
THEOREM WholeAudienceCalled == Spec => []WholeAudience
BY InitType, NextType, InitCalls, NextCalls, NextAudience, PTL DEF Spec

-----------------------------------------------------------------------------
\* Some matching handler raised in the thread's current call.
Raised(t) == \E s \in matching[t] : Missed(t, s)

\* While a dispatch goes on, failed says whether it will raise; a failure not
\* yet recorded is that of the call the thread is in.
FailInv ==
    /\ \A t \in Threads :
          /\ pc[t] = "dispatch" => (failed[t] <=> ~isolate /\ Raised(t))
          /\ pc[t] = "record" => Raised(t) /\ (failed[t] => ~isolate)
          /\ pc[t] = "idle" /\ outcome[t] \in {"delivered", "delivery_error"} =>
                (outcome[t] = "delivery_error" <=> ~isolate /\ Raised(t))
    /\ cleared = 0 /\ ~closed =>
          \A s \in SubIds : \A i \in DOMAIN received[s] :
              \/ received[s][i].ok
              \/ /\ pc[received[s][i].by] = "record"
                 /\ received[s][i].call = made[received[s][i].by]
              \/ [by |-> received[s][i].by, call |-> received[s][i].call] \in handler_errors

LEMMA FailuresFollow == FailInv => FailuresSurface
BY DEF FailInv, FailuresSurface, Raised, Missed

\* Receipts have their types.
LEMMA ReceiptType ==
    ASSUME TypeOK, NEW s \in SubIds, NEW i \in DOMAIN received[s]
    PROVE  received[s][i].by \in Threads /\ received[s][i].call \in Nat
<1>1. received[s] \in Seq(Receipt)
    BY DEF TypeOK
<1>2. received[s][i] \in Receipt
    BY <1>1, ElementOfSeq, LenProperties
<1> QED
    BY <1>2 DEF Receipt

LEMMA RefuseFail ==
    ASSUME TypeOK, CallsInv, FailInv, NEW t \in Threads, NEW event \in Events, Refuse(t, event)
    PROVE  FailInv'
<1>1. /\ outcome'[t] \notin {"delivered", "delivery_error"} /\ pc[t] = "idle"
      /\ \A u \in Threads : u # t => outcome'[u] = outcome[u] /\ made'[u] = made[u]
      /\ Calls(t)
      /\ UNCHANGED <<busVars, pc, matching, failed, cleared, received>>
    BY DEF Refuse, Calls, TypeOK
<1>2. \A u \in Threads : u # t => (Raised(u)' <=> Raised(u))
    BY <1>1, CallsHeard DEF Raised, TypeOK
<1>3. \A s \in SubIds : \A i \in DOMAIN received[s] :
         pc[received[s][i].by] = "record" => made'[received[s][i].by] = made[received[s][i].by]
    BY <1>1, ReceiptType
<1> QED
    BY <1>1, <1>2, <1>3 DEF FailInv, busVars

LEMMA AcceptFail ==
    ASSUME TypeOK, CallsInv, FailInv, NEW t \in Threads, NEW event \in Events, Accept(t, event)
    PROVE  FailInv'
<1>1. /\ pc[t] = "idle" /\ pc'[t] = "dispatch" /\ ~failed'[t] /\ matching'[t] \subseteq SubIds
      /\ \A u \in Threads : u # t => /\ pc'[u] = pc[u] /\ matching'[u] = matching[u]
                                     /\ failed'[u] = failed[u] /\ made'[u] = made[u]
      /\ Calls(t)
      /\ UNCHANGED <<isolate, handler_errors, closed, outcome, cleared, received>>
    BY DEF Accept, Calls, TypeOK
<1>2. ~Raised(t)' /\ \A u \in Threads : u # t => (Raised(u)' <=> Raised(u))
    BY <1>1, CallsHeard DEF Raised, TypeOK
<1>3. \A s \in SubIds : \A i \in DOMAIN received[s] :
         pc[received[s][i].by] = "record" =>
             /\ pc'[received[s][i].by] = "record"
             /\ made'[received[s][i].by] = made[received[s][i].by]
    BY <1>1, ReceiptType
<1> QED
    BY <1>1, <1>2, <1>3 DEF FailInv

LEMMA InvokeFail ==
    ASSUME TypeOK, CallsInv, FailInv, NEW t \in Threads, Invoke(t)
    PROVE  FailInv'
<1>1. pc[t] = "dispatch" /\ UNCHANGED <<busVars, matching, failed, outcome, made, cleared>>
    BY DEF Invoke
<1>2. ASSUME NEW u \in Threads
      PROVE  /\ pc'[u] = "dispatch" => (failed'[u] <=> ~isolate' /\ Raised(u)')
             /\ pc'[u] = "record" => Raised(u)' /\ (failed'[u] => ~isolate')
             /\ pc'[u] = "idle" /\ outcome'[u] \in {"delivered", "delivery_error"} =>
                   (outcome'[u] = "delivery_error" <=> ~isolate' /\ Raised(u)')
    <2>1. PICK s \in pending[t], ok \in BOOLEAN :
              /\ s \in SubIds
              /\ pending'[t] = pending[t] \ {s}
              /\ \A v \in Threads : v # t => pending'[v] = pending[v] /\ pc'[v] = pc[v]
              /\ pc'[t] = IF ok THEN "dispatch" ELSE "record"
              /\ \A v \in Threads : \A r \in SubIds :
                    /\ Heard(v, r)' <=> Heard(v, r) \/ (v = t /\ r = s)
                    /\ Missed(v, r)' <=> Missed(v, r) \/ (v = t /\ r = s /\ ~ok)
        BY InvokeHeard
    <2>2. s \in matching[t] /\ matching[u] \subseteq SubIds
        BY DEF CallsInv, TypeOK
    <2>3. Raised(u)' <=> Raised(u) \/ (u = t /\ ~ok)
        BY <1>1, <2>1, <2>2 DEF Raised
    <2> QED
        BY <1>1, <2>1, <2>3 DEF FailInv, busVars
<1>3. ASSUME cleared = 0, ~closed, NEW r \in SubIds, NEW i \in DOMAIN received'[r]
      PROVE  \/ received'[r][i].ok
             \/ /\ pc'[received'[r][i].by] = "record"
                /\ received'[r][i].call = made[received'[r][i].by]
             \/ [by |-> received'[r][i].by, call |-> received'[r][i].call] \in handler_errors
    <2>1. PICK s \in pending[t], ok \in BOOLEAN, n \in Nat :
              /\ s \in SubIds
              /\ pending'[t] = pending[t] \ {s}
              /\ \A u \in Threads : u # t => pending'[u] = pending[u] /\ pc'[u] = pc[u]
              /\ pc'[t] = IF ok THEN "dispatch" ELSE "record"
              /\ \A q \in SubIds : q # s => received'[q] = received[q]
              /\ DOMAIN received[s] = 1..n
              /\ DOMAIN received'[s] = 1..(n + 1)
              /\ \A j \in 1..n : received'[s][j] = received[s][j]
              /\ received'[s][n + 1].by = t
              /\ received'[s][n + 1].call = made[t]
              /\ received'[s][n + 1].ok <=> ok
              /\ UNCHANGED <<busVars, matching, failed, outcome, made, cleared>>
        BY InvokeReceipts
    <2>2. CASE i \in DOMAIN received[r] /\ received'[r][i] = received[r][i]
        <3>1. received[r][i].by \in Threads
            BY <2>2, ReceiptType
        <3> QED
            BY <1>1, <1>3, <2>1, <2>2, <3>1, SMTT(30) DEF FailInv
    <2>3. CASE r = s /\ i = n + 1
        BY <2>1, <2>3
    <2>4. (i \in DOMAIN received[r] /\ received'[r][i] = received[r][i]) \/ (r = s /\ i = n + 1)
        BY <2>1
    <2> QED
        BY <2>2, <2>3, <2>4
<1> QED
    BY <1>1, <1>2, <1>3 DEF FailInv, busVars

LEMMA RecordFail ==
    ASSUME TypeOK, CallsInv, FailInv, NEW t \in Threads, RecordError(t)
    PROVE  FailInv'
<1>1. /\ pc[t] = "record" /\ pc'[t] = "dispatch" /\ (failed'[t] <=> failed[t] \/ ~isolate)
      /\ \A u \in Threads : u # t => pc'[u] = pc[u] /\ failed'[u] = failed[u]
      /\ UNCHANGED <<isolate, closed, matching, outcome, made, cleared, received>>
    <2>1. failed'[t] <=> failed[t] \/ ~isolate
        BY Zenon DEF RecordError, TypeOK
    <2> QED
        BY <2>1 DEF RecordError, TypeOK
<1>2. handler_errors' = handler_errors \cup {[by |-> t, call |-> made[t]]}
    BY DEF RecordError
<1>3. \A u \in Threads : Raised(u)' <=> Raised(u)
    BY <1>1 DEF Raised, Missed
<1>4. \A u \in Threads :
         /\ pc'[u] = "dispatch" => (failed'[u] <=> ~isolate /\ Raised(u)')
         /\ pc'[u] = "record" => Raised(u)' /\ (failed'[u] => ~isolate)
         /\ pc'[u] = "idle" /\ outcome[u] \in {"delivered", "delivery_error"} =>
               (outcome[u] = "delivery_error" <=> ~isolate /\ Raised(u)')
    BY <1>1, <1>3 DEF FailInv
<1>5. ASSUME cleared = 0, ~closed, NEW s \in SubIds, NEW i \in DOMAIN received[s]
      PROVE  \/ received[s][i].ok
             \/ /\ pc'[received[s][i].by] = "record"
                /\ received[s][i].call = made[received[s][i].by]
             \/ [by |-> received[s][i].by, call |-> received[s][i].call] \in handler_errors'
    BY <1>1, <1>2, <1>5, ReceiptType DEF FailInv
<1> QED
    BY <1>1, <1>4, <1>5 DEF FailInv

LEMMA ReturnFail ==
    ASSUME TypeOK, CallsInv, FailInv, NEW t \in Threads, Return(t)
    PROVE  FailInv'
<1>1. /\ pc[t] = "dispatch" /\ pc'[t] = "idle"
      /\ outcome'[t] = IF failed[t] THEN "delivery_error" ELSE "delivered"
      /\ \A u \in Threads : u # t => pc'[u] = pc[u] /\ outcome'[u] = outcome[u]
      /\ UNCHANGED <<busVars, matching, failed, made, cleared, received>>
    BY DEF Return, TypeOK
<1>2. \A u \in Threads : Raised(u)' <=> Raised(u)
    BY <1>1 DEF Raised, Missed
<1>3. ASSUME NEW s \in SubIds, NEW i \in DOMAIN received[s], pc[received[s][i].by] = "record"
      PROVE  pc'[received[s][i].by] = "record"
    BY <1>1, <1>3, ReceiptType
<1> QED
    BY <1>1, <1>2, <1>3 DEF FailInv, busVars

LEMMA OthersFail ==
    ASSUME TypeOK, FailInv, subscribe \/ unsubscribe \/ clear \/ close
    PROVE  FailInv'
<1>1. UNCHANGED <<isolate, callVars, received>>
    BY DEF subscribe, unsubscribe, clear, close
<1>2. \A u \in Threads : Raised(u)' <=> Raised(u)
    BY <1>1 DEF Raised, Missed, callVars
<1>3. \/ UNCHANGED <<handler_errors, cleared, closed>>
      \/ cleared' # 0
      \/ closed'
    BY DEF subscribe, unsubscribe, clear, close, TypeOK
<1> QED
    BY <1>1, <1>2, <1>3 DEF FailInv, callVars

LEMMA NextFail == TypeOK /\ CallsInv /\ FailInv /\ [Next]_vars => FailInv'
<1> SUFFICES ASSUME TypeOK, CallsInv, FailInv, [Next]_vars PROVE FailInv'
    OBVIOUS
<1>1. CASE UNCHANGED vars
    BY <1>1 DEF vars, busVars, callVars, FailInv, Raised, Missed
<1>2. CASE Next
    BY <1>2, RefuseFail, AcceptFail, InvokeFail, RecordFail, ReturnFail, OthersFail
    DEF Next, publish
<1> QED
    BY <1>1, <1>2

\* No handler failure is lost: it is recorded until the bus is cleared or
\* closed, and the publish raises exactly when errors are not isolated.
THEOREM NoFailureLost == Spec => []FailuresSurface
<1>1. Init => FailInv
    <2> SUFFICES ASSUME Init PROVE FailInv
        OBVIOUS
    <2>1. \A s \in SubIds : received[s] = <<>> /\ DOMAIN received[s] = {}
        BY EmptySeq DEF Init
    <2> QED
        BY <2>1 DEF Init, FailInv
<1> QED
    BY <1>1, InitType, NextType, InitCalls, NextCalls, NextFail, FailuresFollow, PTL DEF Spec
=============================================================================
