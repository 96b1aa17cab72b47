---------------------------- MODULE WebObserver -----------------------------
(***************************************************************************)
(* The web activity observer (infuse/web/observer.py): one record per web  *)
(* request of an execution, correlated from WEB_REQUEST and WEB_RESPONSE   *)
(* events by request id or, without one, by URL.  The outcome is told by   *)
(* an error, a success flag or a status code, in that order.  The method   *)
(* of a request is merged as its URL is and is left out.  WebTaken is the  *)
(* handler on the activity of one execution.                               *)
(***************************************************************************)
EXTENDS Integers, Sequences, FiniteSets, SequencesExt

CONSTANTS
    BadNumber, \* a number that does not parse
    WebExecutions, \* execution ids
    WebEvents,     \* the events that may arrive
    NoWeb,         \* an absent value
    MaxWebLinks,   \* bound: attach_to_bus calls
    MaxWebClears   \* bound: clear calls

NoTarget == <<"unknown_target">>

\* An event id names one event of an execution, and a request id one request
\* and one response.
ASSUME WebAssumption ==
    /\ NoWeb \notin BOOLEAN
    /\ \A e \in WebEvents :
         /\ e.execution_id \in WebExecutions /\ e.type \in {"WEB_REQUEST", "WEB_RESPONSE"}
         /\ e.event_id # NoWeb /\ e.error \in BOOLEAN /\ e.success \in BOOLEAN \cup {NoWeb}
    /\ \A e, f \in WebEvents : e.execution_id = f.execution_id =>
         /\ e.event_id = f.event_id => e = f
         /\ e.request_id = f.request_id /\ e.request_id # NoWeb /\ e.type = f.type => e = f

VARIABLES
    web,        \* _summaries, _activities and _seen_event_ids by execution
    web_subs,   \* _subscription_ids
    web_links,  \* the observer's subscriptions on the bus
    web_made,   \* how many subscriptions were ever made
    web_clears  \* how many times the observer was cleared

web_vars == <<web, web_subs, web_links, web_made, web_clears>>

-----------------------------------------------------------------------------
(***************************************************************************)
(* One event, on the activity of its execution.                            *)
(***************************************************************************)
\* Numbers are kept when they are not negative; BadNumber is one that does not parse.
WebNumber(n) == IF n # BadNumber /\ n >= 0 THEN n ELSE NoWeb

WebElapsed(from, to) == IF to >= from THEN to - from ELSE NoWeb

NewActivity(e, key, status) ==
    [key |-> key, url |-> e.url, status |-> status, status_code |-> NoWeb,
     bytes |-> NoWeb, success |-> NoWeb, duration |-> NoWeb,
     requested |-> NoWeb, responded |-> NoWeb,
     request_event |-> NoWeb, response_event |-> NoWeb]

RequestKey(e) ==
    IF e.request_id # NoWeb THEN <<"id", e.request_id>> ELSE <<"req", e.event_id>>

FirstRequest(e) ==
    [NewActivity(e, RequestKey(e), "REQUESTED") EXCEPT
        !.requested = e.time, !.request_event = e.event_id]

\* The request of an activity that is already recorded: only what is missing.
LateRequest(a, e) ==
    LET requested == IF a.requested = NoWeb THEN e.time ELSE a.requested
    IN [a EXCEPT
          !.requested = requested,
          !.request_event = IF @ = NoWeb THEN e.event_id ELSE @,
          !.url = IF @ = NoTarget THEN e.url ELSE @,
          !.duration = IF @ = NoWeb /\ a.responded # NoWeb
                       THEN WebElapsed(requested, a.responded) ELSE @]

Code(a, e) ==
    IF e.status_code = NoWeb THEN a.status_code
    ELSE IF e.status_code = BadNumber THEN NoWeb ELSE e.status_code

\* The status code is the record's: an earlier response may have left it.
Outcome(e, code) ==
    /\ ~e.error
    /\ IF e.success # NoWeb THEN e.success ELSE code # NoWeb => code \in 200..399

Responded(a, e) ==
    LET code == Code(a, e)
        ok == Outcome(e, code)
    IN [a EXCEPT
          !.response_event = e.event_id, !.responded = e.time,
          !.url = IF e.url # NoTarget THEN e.url ELSE @,
          !.status_code = code,
          !.bytes = IF e.bytes # NoWeb THEN WebNumber(e.bytes) ELSE @,
          !.status = IF ok THEN "COMPLETED" ELSE "FAILED",
          !.success = ok,
          !.duration = IF e.duration # NoWeb THEN WebNumber(e.duration)
                       ELSE IF a.requested # NoWeb THEN WebElapsed(a.requested, e.time)
                       ELSE @]

IndexOfRequest(acts, key) == SelectInSeq(acts, LAMBDA a : a.key = key)

OpenRequest(acts, e) ==
    SelectInSeq(acts, LAMBDA a : a.status = "REQUESTED" /\ e.url \in {a.url, NoTarget})

Request(acts, e) ==
    LET i == IndexOfRequest(acts, RequestKey(e))
    IN IF i # 0 THEN ReplaceAt(acts, i, LateRequest(acts[i], e))
       ELSE Append(acts, FirstRequest(e))

\* Mutant: a response without an open request is dropped.
Mut_Response(acts, e) ==
    LET i == IF e.request_id # NoWeb THEN IndexOfRequest(acts, <<"id", e.request_id>>)
             ELSE OpenRequest(acts, e)
    IN IF i # 0 THEN ReplaceAt(acts, i, Responded(acts[i], e)) ELSE acts

Response(acts, e) ==
    LET i == IF e.request_id # NoWeb THEN IndexOfRequest(acts, <<"id", e.request_id>>)
             ELSE OpenRequest(acts, e)
        key == IF e.request_id # NoWeb THEN <<"id", e.request_id>>
               ELSE <<"resp", e.event_id>>
    IN IF i # 0 THEN ReplaceAt(acts, i, Responded(acts[i], e))
       ELSE Append(acts, Responded(NewActivity(e, key, "COMPLETED"), e))

WebSummary(acts) ==
    LET open == {i \in DOMAIN acts : acts[i].status = "REQUESTED"}
        timed == SelectSeq(acts, LAMBDA a : a.duration # NoWeb)
        sized == SelectSeq(acts, LAMBDA a : a.bytes # NoWeb)
    IN [total |-> Len(acts),
        completed |-> Cardinality({i \in DOMAIN acts :
                                     acts[i].status \in {"COMPLETED", "FAILED"}}),
        successful |-> Cardinality({i \in DOMAIN acts : acts[i].success = TRUE}),
        failed |-> Cardinality({i \in DOMAIN acts :
                                  acts[i].status = "FAILED" \/ acts[i].success = FALSE}),
        incomplete |-> Cardinality(open),
        targets |-> {acts[i].url : i \in DOMAIN acts},
        total_duration |-> FoldLeft(LAMBDA sum, a : sum + a.duration, 0, timed),
        timed |-> Len(timed),
        total_bytes |-> FoldLeft(LAMBDA sum, a : sum + a.bytes, 0, sized),
        completeness |-> IF acts = <<>> THEN "UNKNOWN"
                         ELSE IF open = {} THEN "COMPLETE" ELSE "PARTIAL"]

NoRequests == [seen |-> {}, last_sequence |-> 0, activities |-> <<>>,
               summary |-> WebSummary(<<>>)]

WebTaken(w, e) ==
    IF e.event_id \in w.seen THEN w
    ELSE LET acts == IF e.type = "WEB_REQUEST" THEN Request(w.activities, e)
                     ELSE Response(w.activities, e)
         IN [seen |-> w.seen \cup {e.event_id},
             last_sequence |-> IF e.sequence > w.last_sequence THEN e.sequence
                               ELSE w.last_sequence,
             activities |-> acts,
             summary |-> WebSummary(acts)]

-----------------------------------------------------------------------------
(***************************************************************************)
(* The observer and its subscriptions.                                     *)
(***************************************************************************)
WebInit ==
    /\ web = [x \in WebExecutions |-> NoRequests]
    /\ web_subs = {} /\ web_links = {} /\ web_made = 0
    /\ web_clears = 0

web_handle_event(e) ==
    /\ web' = [web EXCEPT ![e.execution_id] = WebTaken(@, e)]
    /\ UNCHANGED <<web_subs, web_links, web_made, web_clears>>

web_attach_to_bus ==
    /\ web_made < MaxWebLinks
    /\ web_made' = web_made + 1
    /\ web_subs' = web_subs \cup {web_made'}
    /\ web_links' = web_links \cup {web_made'}
    /\ UNCHANGED <<web, web_clears>>

web_detach_from_bus ==
    /\ web_subs # {}
    /\ web_links' = web_links \ web_subs
    /\ web_subs' = {}
    /\ UNCHANGED <<web, web_made, web_clears>>

\* clear forgets the subscriptions and leaves them on the bus.
web_clear ==
    /\ web_clears < MaxWebClears
    /\ web_clears' = web_clears + 1
    /\ web' = [x \in WebExecutions |-> NoRequests]
    /\ web_subs' = {}
    /\ UNCHANGED <<web_links, web_made>>

WebNext ==
    \/ \E e \in WebEvents : web_handle_event(e)
    \/ web_attach_to_bus \/ web_detach_from_bus \/ web_clear

WebSpec == WebInit /\ [][WebNext]_web_vars

-----------------------------------------------------------------------------
(***************************************************************************)
(* Properties.                                                             *)
(***************************************************************************)
Activities(x) == web[x].activities

WebTakenOf(x, type) ==
    {e \in WebEvents : e.execution_id = x /\ e.event_id \in web[x].seen /\ e.type = type}

\* What a response says of its request: a failing code is one that parses.
Fails(code) == code \notin {NoWeb, BadNumber} /\ code \notin 200..399

Verdict(p) ==
    ~p.error /\ IF p.success # NoWeb THEN p.success ELSE ~Fails(p.status_code)

\* A response p that says nothing is told as a failure when one without an id
\* that was given to its request left a failing code there.
Misled(x, q, p) ==
    /\ ~p.error /\ p.success = NoWeb /\ p.status_code = NoWeb
    /\ \E r \in WebTakenOf(x, "WEB_RESPONSE") :
         r.request_id = NoWeb /\ r.url \in {q.url, NoTarget} /\ Fails(r.status_code)

\* The record tells request q and its own response p, with p's outcome
\* whatever was told there before.
TellsBoth(x, q, p, a) ==
    /\ a.key = <<"id", q.request_id>>
    /\ a.request_event = q.event_id /\ a.response_event = p.event_id
    /\ a.url = (IF p.url # NoTarget THEN p.url ELSE q.url)
    /\ a.success = Verdict(p) \/ (a.success = FALSE /\ Misled(x, q, p))

RequestsAreTold(x) ==
    \A q \in WebTakenOf(x, "WEB_REQUEST"), p \in WebTakenOf(x, "WEB_RESPONSE") :
        q.request_id = p.request_id /\ q.request_id # NoWeb =>
            \E i \in DOMAIN Activities(x) :
                /\ TellsBoth(x, q, p, Activities(x)[i])
                /\ \A j \in DOMAIN Activities(x) :
                     Activities(x)[j].key = Activities(x)[i].key => j = i

\* A response that was given to a request with an id is replaced by the
\* response that has this id.
Replaced(x, p) ==
    \E r \in WebTakenOf(x, "WEB_RESPONSE"), q \in WebTakenOf(x, "WEB_REQUEST") :
        r.request_id = q.request_id /\ q.request_id # NoWeb /\ p.url \in {q.url, NoTarget}

\* Every response that was taken without a request id is told by exactly one
\* record, that of a request to its target or one of its own, unless it was
\* replaced.
ResponsesAreTold(x) ==
    \A p \in WebTakenOf(x, "WEB_RESPONSE") : p.request_id = NoWeb =>
        \/ Replaced(x, p)
        \/ \E i \in DOMAIN Activities(x) :
             LET a == Activities(x)[i]
             IN /\ a.response_event = p.event_id
                /\ \A j \in DOMAIN Activities(x) :
                     Activities(x)[j].response_event = p.event_id => j = i
                /\ p.url # NoTarget => a.url = p.url

\* The summary accounts for every request exactly once, whichever of the three
\* signs told the outcome, and is COMPLETE just when every one was answered.
WebTally(x) ==
    LET s == web[x].summary
    IN /\ s.total = s.successful + s.failed + s.incomplete
       /\ s.completed = s.successful + s.failed
       /\ s.completeness = "COMPLETE" <=> s.total > 0 /\ s.incomplete = 0

\* In whatever order requests and responses arrive: the two events of a
\* request id are told by one record, with the outcome that its own response
\* gives by error, flag or code (one that gives none inherits the failing code
\* of an earlier response, see Misled), a response without an id is told once,
\* by a record of its own target, unless the response that has the id replaced
\* it, and the summary counts each once.
WebCorrelated ==
    \A x \in WebExecutions : RequestsAreTold(x) /\ ResponsesAreTold(x) /\ WebTally(x)
=============================================================================
