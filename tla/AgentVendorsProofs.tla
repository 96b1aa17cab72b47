------------------------ MODULE AgentVendorsProofs -------------------------
(***************************************************************************)
(* Theorems about an agent adapter of any vendor: for any threads,         *)
(* executions, transports and outputs of processes.                        *)
(*                                                                         *)
(* An output of any shape makes a plan of the right shape (PlanShape): an  *)
(* event for the step, or pairs of a call and its reply, each with an id   *)
(* of its own.  On it rest four invariants, one above the other:           *)
(*   - SessionInv: session objects count the runs that began with them,    *)
(*     and each control is held by one of them;                            *)
(*   - ProcessInv: the processes registered are those of runs that wait    *)
(*     for one, and a run whose process was killed answers nothing;        *)
(*   - TellInv: what the bus was told by a run are events of its plan, in  *)
(*     order, what the run is past was told by it or by a run of the same  *)
(*     step, and one that stops before the end has a reason to (LostTo);   *)
(*     SequenceInv: between its own number and its session's count;        *)
(*   - PairInv: while no steps overlap, no handler raises on a call and    *)
(*     the bus is not closed, a record an observer has open is the call    *)
(*     whose reply the one live run of its execution publishes next, and   *)
(*     the bus cannot refuse that reply (ReplyIsNew).  The bus, closed,    *)
(*     keeps the records as they are (ClosedKeeps).                        *)
(***************************************************************************)
EXTENDS AgentVendors, WellFoundedInduction, FiniteSetTheorems, TLAPS

-----------------------------------------------------------------------------
(***************************************************************************)
(* Sequences.                                                              *)
(***************************************************************************)
IsSeq(s) == s \in Seq(ToSet(s))

LEMMA SeqIs ==
    ASSUME NEW s, IsSeq(s)
    PROVE  Len(s) \in Nat /\ DOMAIN s = 1 .. Len(s)
BY DEF IsSeq

LEMMA CountedIsSeq ==
    ASSUME NEW n \in Nat, NEW s, DOMAIN s = 1 .. n, s = [i \in 1 .. n |-> s[i]]
    PROVE  IsSeq(s) /\ Len(s) = n
<1> DEFINE S == ToSet(s)
<1>1. \A i \in 1 .. n : s[i] \in S
    BY DEF ToSet
<1>2. s \in Seq(S)
  <2> HIDE DEF S
  <2> QED
      BY <1>1
<1>3. Len(s) = n
    BY <1>2
<1> QED
    BY <1>2, <1>3 DEF IsSeq

LEMMA MemberIsSeq ==
    ASSUME NEW S, NEW s \in Seq(S)
    PROVE  IsSeq(s)
<1>1. Len(s) \in Nat /\ DOMAIN s = 1 .. Len(s) /\ s = [i \in 1 .. Len(s) |-> s[i]]
    OBVIOUS
<1> QED
    BY <1>1, CountedIsSeq

LEMMA EmptyIs == IsSeq(<<>>) /\ Len(<<>>) = 0
BY DEF IsSeq

LEMMA AppendIs ==
    ASSUME NEW s, IsSeq(s), NEW e
    PROVE  /\ IsSeq(Append(s, e)) /\ Len(Append(s, e)) = Len(s) + 1
           /\ DOMAIN Append(s, e) = 1 .. (Len(s) + 1)
           /\ \A i \in 1 .. Len(s) : Append(s, e)[i] = s[i]
           /\ Append(s, e)[Len(s) + 1] = e
<1> DEFINE t == Append(s, e)
           S == ToSet(s) \cup {e}
<1>1. s \in Seq(S) /\ e \in S
  <2>1. s \in Seq(ToSet(s))
      BY DEF IsSeq
  <2> QED
      BY <2>1
<1>2. t \in Seq(S) /\ Len(t) = Len(s) + 1 /\ Len(s) \in Nat
    BY <1>1
<1>3. /\ \A i \in 1 .. Len(s) : t[i] = s[i]
      /\ t[Len(s) + 1] = e
    BY <1>1
<1>4. IsSeq(t)
    BY <1>2, MemberIsSeq
<1>5. DOMAIN t = 1 .. (Len(s) + 1)
  <2> HIDE DEF t
  <2> QED
      BY <1>2, <1>4, SeqIs
<1> QED
    BY <1>2, <1>3, <1>4, <1>5

LEMMA ExceptIs ==
    ASSUME NEW s, IsSeq(s), NEW t, DOMAIN t = DOMAIN s, t = [i \in DOMAIN s |-> t[i]]
    PROVE  IsSeq(t) /\ Len(t) = Len(s)
BY SeqIs, CountedIsSeq

LEMMA JoinIs ==
    ASSUME NEW s, IsSeq(s), NEW t, IsSeq(t), NEW u, u = s \o t
    PROVE  /\ IsSeq(u) /\ Len(u) = Len(s) + Len(t)
           /\ \A i \in 1 .. Len(s) : u[i] = s[i]
           /\ \A i \in 1 .. Len(t) : u[Len(s) + i] = t[i]
<1> DEFINE S == ToSet(s) \cup ToSet(t)
<1>1. s \in Seq(S) /\ t \in Seq(S)
  <2>1. s \in Seq(ToSet(s)) /\ t \in Seq(ToSet(t))
      BY DEF IsSeq
  <2> QED
      BY <2>1
<1>2. u \in Seq(S) /\ Len(u) = Len(s) + Len(t) /\ Len(s) \in Nat /\ Len(t) \in Nat
    BY <1>1
<1>3. /\ \A i \in 1 .. Len(s) : u[i] = s[i]
      /\ \A i \in 1 .. Len(t) : u[Len(s) + i] = t[i]
    BY <1>1, <1>2
<1>4. IsSeq(u)
    BY <1>2, MemberIsSeq
<1> QED
    BY <1>2, <1>3, <1>4

-----------------------------------------------------------------------------
(***************************************************************************)
(* The vendors: what they have in common is done by each of them.          *)
(***************************************************************************)
Vendors == CliVendors \cup {"lovable", "reference"}

LEMMA VendorIs ==
    ASSUME setup \in AgentSetups
    PROVE  /\ setup.vendor \in Vendors
           /\ setup.transport \in {"cli", "http", "reference"}
           /\ setup.transport = "cli" => setup.vendor \in CliVendors
           /\ setup.transport = "http" => setup.vendor = "lovable"
           /\ setup.custom = NoAgent \/ IsOutput(setup.custom)
BY AgentAssumption DEF Vendors

LEMMA SessionsAreKept ==
    ASSUME setup \in AgentSetups, NEW a, NEW x, NEW k, NEW op
    PROVE  /\ begin_step(a, x, k) = StepCounted(a, x, k)
           /\ attach_execution(a, x) = SessionAttached(a, x)
           /\ detach_execution(a, x) = SessionDetached(a, x)
           /\ receive_control(a, op) = ControlReceived(a, op)
<1>1. setup.vendor \in Vendors
    BY VendorIs
<1>2. begin_step(a, x, k) = StepCounted(a, x, k)
    BY <1>1 DEF Vendors, CliVendors, Is, begin_step, codex_begin_step, opencode_begin_step,
             hermes_begin_step, openclaw_begin_step, lovable_begin_step, claude_begin_step,
             reference_begin_step
<1>3. attach_execution(a, x) = SessionAttached(a, x)
    BY <1>1 DEF Vendors, CliVendors, Is, attach_execution, codex_attach_execution,
             opencode_attach_execution, hermes_attach_execution, openclaw_attach_execution,
             lovable_attach_execution, claude_attach_execution, reference_attach_execution
<1>4. detach_execution(a, x) = SessionDetached(a, x)
    BY <1>1 DEF Vendors, CliVendors, Is, detach_execution, codex_detach_execution,
             opencode_detach_execution, hermes_detach_execution, openclaw_detach_execution,
             lovable_detach_execution, claude_detach_execution, reference_detach_execution
<1>5. receive_control(a, op) = ControlReceived(a, op)
    BY <1>1 DEF Vendors, CliVendors, Is, receive_control, codex_receive_control,
             opencode_receive_control, hermes_receive_control, openclaw_receive_control,
             lovable_receive_control, claude_receive_control, reference_receive_control
<1> QED
    BY <1>2, <1>3, <1>4, <1>5

LEMMA ProcessesAreKept ==
    ASSUME setup \in AgentSetups, NEW p, NEW x, NEW run
    PROVE  /\ setup.transport = "cli" =>
                /\ launch(p, x, run) = ProcessRegistered(p, x, run)
                /\ forget(p, x) = ProcessForgotten(p, x)
           /\ setup.transport # "reference" =>
                /\ cancel_execution(p, x) \in {ProcessTerminated(p, x), ProcessForgotten(p, x)}
                /\ terminate_session(p, x) \in {ProcessKilled(p, x), ProcessForgotten(p, x)}
<1>1. CASE setup.vendor \in CliVendors
  <2>1. launch(p, x, run) = ProcessRegistered(p, x, run)
      BY <1>1 DEF CliVendors, Is, launch, codex_launch, opencode_launch, hermes_launch,
               openclaw_launch, claude_launch
  <2>2. forget(p, x) = ProcessForgotten(p, x)
      BY <1>1 DEF CliVendors, Is, forget, codex_forget, opencode_forget, hermes_forget,
               openclaw_forget, claude_forget
  <2>3. cancel_execution(p, x) = ProcessTerminated(p, x)
      BY <1>1 DEF CliVendors, Is, cancel_execution, codex_cancel_execution,
               opencode_cancel_execution, hermes_cancel_execution,
               openclaw_cancel_execution, claude_cancel_execution
  <2>4. terminate_session(p, x) = ProcessKilled(p, x)
      BY <1>1 DEF CliVendors, Is, terminate_session, codex_terminate_session,
               opencode_terminate_session, hermes_terminate_session,
               openclaw_terminate_session, claude_terminate_session
  <2> QED
      BY <2>1, <2>2, <2>3, <2>4
<1>2. CASE setup.vendor = "lovable"
  <2>1. cancel_execution(p, x) = ProcessForgotten(p, x)
      BY <1>2 DEF Is, cancel_execution, lovable_cancel_execution
  <2>2. terminate_session(p, x) = ProcessForgotten(p, x)
      BY <1>2 DEF Is, terminate_session, lovable_terminate_session
  <2> QED
      BY <1>2, <2>1, <2>2, VendorIs DEF CliVendors
<1> QED
    BY <1>1, <1>2, VendorIs

\* The reference adapter signals nothing, for it has no transport.
LEMMA ReferenceSignalsNothing ==
    ASSUME setup.vendor = "reference", NEW op
    PROVE  execute_control(op).signal = FALSE
<1> DEFINE answer == ControlAnswer(reference_supports_action(op.action), op)
<1>1. execute_control(op) = reference_execute_control(setup.flags, op)
    BY DEF Is, execute_control
<1>2. "signal" \in DOMAIN answer
    BY DEF ControlAnswer
<1> HIDE DEF answer
<1>3. [answer EXCEPT !.signal = FALSE].signal = FALSE
    BY <1>2
<1>4. reference_execute_control(setup.flags, op).signal = FALSE
    BY <1>3 DEF reference_execute_control, answer
<1> QED
    BY <1>1, <1>4

\* What a transport returns is an error or an output that is well formed.
IsResult(result) == result.error = NoAgent => IsOutput(result.out)

LEMMA ObjectIs == IsObject(JsonObject)
BY DEF IsObject, IsList, JsonObject

LEMMA WholeIs ==
    ASSUME NEW out \in Stdouts
    PROVE  IsResult(WholeOutput(out))
<1>1. CASE out.whole = JsonArray
  <2>1. "unexpected" # NoAgent
      BY AgentAssumption DEF TransportErrors
  <2>2. WholeOutput(out).error = "unexpected"
      BY <1>1 DEF WholeOutput
  <2> QED
      BY <2>1, <2>2 DEF IsResult
<1>2. CASE out.whole # JsonArray
  <2>1. out.whole = NoAgent \/ IsObject(out.whole)
      BY <1>2, AgentAssumption
  <2> QED
      BY <1>2, <2>1, EmptyIs DEF WholeOutput, IsResult, IsOutput, IsSeq
<1> QED
    BY <1>1, <1>2

LEMMA ParsedIs ==
    ASSUME setup \in AgentSetups, setup.transport = "cli", NEW out \in Stdouts
    PROVE  IsResult(parse(out))
<1>1. IsResult(codex_parse(out))
  <2>1. CASE out.lines = <<>>
      BY <2>1, WholeIs DEF codex_parse
  <2>2. CASE out.lines # <<>>
    <3>1. IsSeq(out.lines) /\ \A o \in ToSet(out.lines) : IsObject(o)
        BY AgentAssumption DEF IsSeq
    <3>2. Len(out.lines) \in DOMAIN out.lines
        BY <2>2, <3>1 DEF IsSeq
    <3>3. IsObject(Last(out.lines))
        BY <3>1, <3>2 DEF Last, ToSet
    <3> QED
        BY <2>2, <3>1, <3>3 DEF codex_parse, IsResult, IsOutput, IsSeq
  <2> QED
      BY <2>1, <2>2
<1>2. parse(out) \in {codex_parse(out), WholeOutput(out)}
    BY VendorIs DEF CliVendors, Is, parse, opencode_parse, hermes_parse, openclaw_parse,
             claude_parse
<1> QED
    BY <1>1, <1>2, WholeIs

LEMMA ReferenceOutputIs ==
    ASSUME NEW r, r.custom = NoAgent \/ IsOutput(r.custom), NEW default, IsOutput(default)
    PROVE  IsResult(ReferenceOutput(r, default))
BY DEF IsResult, ReferenceOutput

LEMMA ReferenceResultIs ==
    ASSUME setup \in AgentSetups, setup.vendor # "reference",
           NEW r, r.custom = NoAgent \/ IsOutput(r.custom)
    PROVE  IsResult(reference_execute(r))
<1> DEFINE plain == [parsed |-> JsonObject, events |-> <<>>]
           line  == [parsed |-> JsonObject, events |-> <<JsonObject>>]
<1>1. IsOutput(plain)
    BY ObjectIs, EmptyIs DEF IsOutput, IsSeq
<1>2. IsOutput(line)
  <2>1. IsSeq(<<JsonObject>>)
    <3>1. \A o : IsSeq(<<o>>)
      <4> SUFFICES ASSUME NEW o PROVE IsSeq(<<o>>)
          OBVIOUS
      <4> DEFINE t == <<o>>
      <4>1. DOMAIN t = 1 .. 1 /\ t = [i \in 1 .. 1 |-> t[i]]
          OBVIOUS
      <4> HIDE DEF t
      <4>2. IsSeq(t)
          BY <4>1, CountedIsSeq
      <4> QED
          BY <4>2 DEF t
    <3> QED
        BY <3>1
  <2> QED
      BY <2>1, ObjectIs DEF IsOutput, IsSeq
<1>3. reference_execute(r) \in {ReferenceOutput(r, plain), ReferenceOutput(r, line)}
    BY VendorIs DEF Vendors, CliVendors, Is, reference_execute, codex_reference_execute,
             opencode_reference_execute, hermes_reference_execute,
             openclaw_reference_execute, lovable_reference_execute,
             claude_reference_execute
<1> HIDE DEF plain, line
<1>4. IsResult(ReferenceOutput(r, plain)) /\ IsResult(ReferenceOutput(r, line))
    BY <1>1, <1>2, ReferenceOutputIs
<1> QED
    BY <1>3, <1>4

LEMMA FailureIs ==
    ASSUME NEW error \in TransportErrors
    PROVE  IsResult([error |-> error])
BY AgentAssumption DEF IsResult

-----------------------------------------------------------------------------
(***************************************************************************)
(* The events of a step: one for the step itself, then pairs.              *)
(***************************************************************************)
IsStep(e, x, k) ==
    /\ DOMAIN e = {"event_id", "type", "execution_id", "time"}
    /\ e.type = "EXECUTION_COMPLETED" /\ e.execution_id = x
    /\ \E time : e.event_id = <<"step_ev", x, k, time>>

ToolFields == {"event_id", "type", "execution_id", "time", "tool", "call_id", "success",
               "error", "duration"}

IsToolPair(c, d, x, k) ==
    /\ DOMAIN c = ToolFields /\ DOMAIN d = ToolFields
    /\ c.type = "TOOL_CALLED" /\ d.type = "TOOL_COMPLETED"
    /\ c.execution_id = x /\ d.execution_id = x
    /\ c.tool = d.tool /\ c.call_id = NoTool /\ d.call_id = NoTool
    /\ \E n \in Nat : /\ c.event_id = <<"tool_called", x, k, n>>
                      /\ d.event_id = <<"tool_comp", x, k, n>>

WebFields == {"event_id", "type", "execution_id", "time", "url", "request_id",
              "status_code", "bytes", "success", "error", "duration"}

IsWebPair(c, d, x, k) ==
    /\ DOMAIN c = WebFields /\ DOMAIN d = WebFields
    /\ c.type = "WEB_REQUEST" /\ d.type = "WEB_RESPONSE"
    /\ c.execution_id = x /\ d.execution_id = x
    /\ c.url = d.url /\ c.request_id = NoWeb /\ d.request_id = NoWeb
    /\ \E n \in Nat : /\ c.event_id = <<"web_req", x, k, n>>
                      /\ d.event_id = <<"web_resp", x, k, n>>

IsPair(c, d, x, k) == IsToolPair(c, d, x, k) \/ IsWebPair(c, d, x, k)

PlanShape(plan, x, k) ==
    /\ IsSeq(plan)
    /\ \A i, j \in DOMAIN plan : plan[i].event_id = plan[j].event_id => i = j
    /\ \A i \in DOMAIN plan :
         \/ IsStep(plan[i], x, k)
         \/ i + 1 \in DOMAIN plan /\ IsPair(plan[i], plan[i + 1], x, k)
         \/ i - 1 \in DOMAIN plan /\ IsPair(plan[i - 1], plan[i], x, k)

LEMMA StepIs ==
    ASSUME NEW x, NEW k, NEW t
    PROVE  LET e == StepCompleted(x, k, t)
           IN IsStep(e, x, k) /\ e.event_id = <<"step_ev", x, k, t>>
BY DEF StepCompleted, IsStep

LEMMA ToolPairIs ==
    ASSUME NEW x, NEW k, NEW t, NEW n \in Nat, NEW item
    PROVE  LET p == ToolPair(x, k, t, n, item)
           IN /\ IsToolPair(p[1], p[2], x, k)
              /\ p[1].event_id = <<"tool_called", x, k, n>>
              /\ p[2].event_id = <<"tool_comp", x, k, n>>
<1> DEFINE tool == IF item.name # NoAgent THEN item.name ELSE <<"tool", n>>
           c == [event_id |-> <<"tool_called", x, k, n>>, type |-> "TOOL_CALLED",
                 execution_id |-> x, time |-> t, tool |-> tool,
                 call_id |-> NoTool, success |-> NoTool, error |-> FALSE, duration |-> NoTool]
           ok == ToolSuccess(item)
           d == [c EXCEPT !.event_id = <<"tool_comp", x, k, n>>, !.type = "TOOL_COMPLETED",
                          !.success = ok, !.duration = item.duration]
<1>1. ToolPair(x, k, t, n, item) = <<c, d>>
    BY DEF ToolPair
<1> HIDE DEF tool, ok
<1>2. /\ DOMAIN c = ToolFields /\ c.type = "TOOL_CALLED" /\ c.execution_id = x
      /\ c.tool = tool /\ c.call_id = NoTool /\ c.event_id = <<"tool_called", x, k, n>>
    BY DEF ToolFields
<1> HIDE DEF c
<1>3. /\ DOMAIN d = ToolFields /\ d.type = "TOOL_COMPLETED" /\ d.execution_id = x
      /\ d.tool = tool /\ d.call_id = NoTool /\ d.event_id = <<"tool_comp", x, k, n>>
    BY <1>2 DEF ToolFields
<1> HIDE DEF d
<1>4. IsToolPair(c, d, x, k)
    BY <1>2, <1>3 DEF IsToolPair
<1> QED
    BY <1>1, <1>2, <1>3, <1>4

LEMMA WebPairIs ==
    ASSUME NEW x, NEW k, NEW t, NEW n \in Nat, NEW item
    PROVE  LET p == WebPair(x, k, t, n, item)
           IN /\ IsWebPair(p[1], p[2], x, k)
              /\ p[1].event_id = <<"web_req", x, k, n>>
              /\ p[2].event_id = <<"web_resp", x, k, n>>
<1> DEFINE url == IF item.url # NoAgent THEN item.url ELSE <<"internal", n>>
           c == [event_id |-> <<"web_req", x, k, n>>, type |-> "WEB_REQUEST",
                 execution_id |-> x, time |-> t, url |-> url,
                 request_id |-> NoWeb, status_code |-> NoWeb, bytes |-> NoWeb,
                 success |-> NoWeb, error |-> FALSE, duration |-> NoWeb]
           code == IF item.status_code # NoAgent THEN item.status_code ELSE 200
           d == [c EXCEPT !.event_id = <<"web_resp", x, k, n>>, !.type = "WEB_RESPONSE",
                          !.status_code = code, !.duration = item.duration]
<1>1. WebPair(x, k, t, n, item) = <<c, d>>
    BY DEF WebPair
<1> HIDE DEF url, code
<1>2. /\ DOMAIN c = WebFields /\ c.type = "WEB_REQUEST" /\ c.execution_id = x
      /\ c.url = url /\ c.request_id = NoWeb /\ c.event_id = <<"web_req", x, k, n>>
    BY DEF WebFields
<1> HIDE DEF c
<1>3. /\ DOMAIN d = WebFields /\ d.type = "WEB_RESPONSE" /\ d.execution_id = x
      /\ d.url = url /\ d.request_id = NoWeb /\ d.event_id = <<"web_resp", x, k, n>>
    BY <1>2 DEF WebFields
<1> HIDE DEF d
<1>4. IsWebPair(c, d, x, k)
    BY <1>2, <1>3 DEF IsWebPair
<1> QED
    BY <1>1, <1>2, <1>3, <1>4

\* Pairs in turn: the i-th takes the places 2 * i - 1 and 2 * i.
LEMMA InTurnIs ==
    ASSUME NEW n \in Nat, NEW pairs, IsSeq(pairs), Len(pairs) = n
    PROVE  LET t == InTurn(pairs)
           IN /\ IsSeq(t) /\ Len(t) = 2 * n
              /\ \A i \in 1 .. n : t[2 * i - 1] = pairs[i][1] /\ t[2 * i] = pairs[i][2]
<1> DEFINE t == InTurn(pairs)
<1>1. t = [m \in 1 .. (2 * n) |-> pairs[(m + 1) \div 2][2 - (m % 2)]]
    BY DEF InTurn
<1>2. DOMAIN t = 1 .. (2 * n) /\ t = [i \in 1 .. (2 * n) |-> t[i]] /\ 2 * n \in Nat
    BY <1>1
<1>3. IsSeq(t) /\ Len(t) = 2 * n
  <2> HIDE DEF t
  <2> QED
      BY <1>2, CountedIsSeq
<1>4. ASSUME NEW i \in 1 .. n
      PROVE  t[2 * i - 1] = pairs[i][1] /\ t[2 * i] = pairs[i][2]
  <2>1. /\ 2 * i - 1 \in 1 .. (2 * n) /\ 2 * i \in 1 .. (2 * n)
        /\ (2 * i - 1 + 1) \div 2 = i /\ (2 * i - 1) % 2 = 1
        /\ (2 * i + 1) \div 2 = i /\ (2 * i) % 2 = 0
      OBVIOUS
  <2>2. /\ t[2 * i - 1] = pairs[(2 * i - 1 + 1) \div 2][2 - ((2 * i - 1) % 2)]
        /\ t[2 * i] = pairs[(2 * i + 1) \div 2][2 - ((2 * i) % 2)]
    <3> HIDE DEF t
    <3> QED
        BY <1>1, <2>1
  <2>3. 2 - 1 = 1 /\ 2 - 0 = 2
      OBVIOUS
  <2> QED
      BY <2>1, <2>2, <2>3
<1> QED
    BY <1>3, <1>4

LEMMA StepAloneIs ==
    ASSUME NEW x, NEW k, NEW t
    PROVE  PlanShape(<<StepCompleted(x, k, t)>>, x, k)
<1> DEFINE e == StepCompleted(x, k, t)
           plan == <<e>>
<1>1. IsStep(e, x, k)
    BY StepIs
<1> HIDE DEF e
<1>2. /\ DOMAIN plan = 1 .. 1 /\ plan = [i \in 1 .. 1 |-> plan[i]]
      /\ \A i \in DOMAIN plan : i = 1 /\ plan[i] = e
    OBVIOUS
<1> HIDE DEF plan
<1>3. IsSeq(plan)
    BY <1>2, CountedIsSeq
<1>4. PlanShape(plan, x, k)
    BY <1>1, <1>2, <1>3 DEF PlanShape
<1> QED
    BY <1>4 DEF plan, e

LEMMA ActivityIs ==
    ASSUME NEW x, NEW k, NEW t, NEW tool_list, IsSeq(tool_list), NEW web_list, IsSeq(web_list)
    PROVE  PlanShape(ActivityOf(x, k, t, tool_list, web_list), x, k)
<1> DEFINE n == Len(tool_list)
           m == Len(web_list)
           e == StepCompleted(x, k, t)
           step == <<e>>
           toolpairs == [i \in 1 .. n |-> ToolPair(x, k, t, i - 1, tool_list[i])]
           webpairs == [i \in 1 .. m |-> WebPair(x, k, t, i - 1, web_list[i])]
           A == InTurn(toolpairs)
           B == InTurn(webpairs)
           sA == step \o A
           plan == sA \o B
<1>1. n \in Nat /\ m \in Nat
    BY SeqIs
<1>2. /\ IsSeq(step) /\ Len(step) = 1 /\ step[1] = e
      /\ IsStep(e, x, k) /\ e.event_id = <<"step_ev", x, k, t>>
  <2>1. IsStep(e, x, k) /\ e.event_id = <<"step_ev", x, k, t>>
      BY StepIs
  <2> HIDE DEF e
  <2>2. DOMAIN step = 1 .. 1 /\ step = [i \in 1 .. 1 |-> step[i]] /\ step[1] = e
      OBVIOUS
  <2> HIDE DEF step
  <2>3. IsSeq(step) /\ Len(step) = 1
      BY <2>2, CountedIsSeq
  <2> QED
      BY <2>1, <2>2, <2>3
<1> HIDE DEF n, m, e, step
<1>3. /\ IsSeq(A) /\ Len(A) = 2 * n
      /\ \A i \in 1 .. n : LET c == A[2 * i - 1]
                               d == A[2 * i]
                           IN /\ IsToolPair(c, d, x, k)
                              /\ c.event_id = <<"tool_called", x, k, i - 1>>
                              /\ d.event_id = <<"tool_comp", x, k, i - 1>>
  <2>1. /\ DOMAIN toolpairs = 1 .. n /\ toolpairs = [i \in 1 .. n |-> toolpairs[i]]
        /\ \A i \in 1 .. n : toolpairs[i] = ToolPair(x, k, t, i - 1, tool_list[i])
      OBVIOUS
  <2> HIDE DEF toolpairs
  <2>2. IsSeq(toolpairs) /\ Len(toolpairs) = n
      BY <1>1, <2>1, CountedIsSeq
  <2>3. /\ IsSeq(A) /\ Len(A) = 2 * n
        /\ \A i \in 1 .. n : A[2 * i - 1] = toolpairs[i][1] /\ A[2 * i] = toolpairs[i][2]
      BY <1>1, <2>2, InTurnIs
  <2>4. ASSUME NEW i \in 1 .. n
        PROVE  LET p == toolpairs[i]
               IN /\ IsToolPair(p[1], p[2], x, k)
                  /\ p[1].event_id = <<"tool_called", x, k, i - 1>>
                  /\ p[2].event_id = <<"tool_comp", x, k, i - 1>>
    <3>1. i - 1 \in Nat
        BY <1>1
    <3> DEFINE item == tool_list[i]
               p == ToolPair(x, k, t, i - 1, item)
    <3>2. toolpairs[i] = p
        BY <2>1
    <3>3. /\ IsToolPair(p[1], p[2], x, k)
          /\ p[1].event_id = <<"tool_called", x, k, i - 1>>
          /\ p[2].event_id = <<"tool_comp", x, k, i - 1>>
      <4> HIDE DEF item
      <4> QED
          BY <3>1, ToolPairIs
    <3> HIDE DEF p
    <3> QED
        BY <3>2, <3>3
  <2> HIDE DEF A
  <2> QED
      BY <2>3, <2>4
<1>4. /\ IsSeq(B) /\ Len(B) = 2 * m
      /\ \A i \in 1 .. m : LET c == B[2 * i - 1]
                               d == B[2 * i]
                           IN /\ IsWebPair(c, d, x, k)
                              /\ c.event_id = <<"web_req", x, k, i - 1>>
                              /\ d.event_id = <<"web_resp", x, k, i - 1>>
  <2>1. /\ DOMAIN webpairs = 1 .. m /\ webpairs = [i \in 1 .. m |-> webpairs[i]]
        /\ \A i \in 1 .. m : webpairs[i] = WebPair(x, k, t, i - 1, web_list[i])
      OBVIOUS
  <2> HIDE DEF webpairs
  <2>2. IsSeq(webpairs) /\ Len(webpairs) = m
      BY <1>1, <2>1, CountedIsSeq
  <2>3. /\ IsSeq(B) /\ Len(B) = 2 * m
        /\ \A i \in 1 .. m : B[2 * i - 1] = webpairs[i][1] /\ B[2 * i] = webpairs[i][2]
      BY <1>1, <2>2, InTurnIs
  <2>4. ASSUME NEW i \in 1 .. m
        PROVE  LET p == webpairs[i]
               IN /\ IsWebPair(p[1], p[2], x, k)
                  /\ p[1].event_id = <<"web_req", x, k, i - 1>>
                  /\ p[2].event_id = <<"web_resp", x, k, i - 1>>
    <3>1. i - 1 \in Nat
        BY <1>1
    <3> DEFINE item == web_list[i]
               p == WebPair(x, k, t, i - 1, item)
    <3>2. webpairs[i] = p
        BY <2>1
    <3>3. /\ IsWebPair(p[1], p[2], x, k)
          /\ p[1].event_id = <<"web_req", x, k, i - 1>>
          /\ p[2].event_id = <<"web_resp", x, k, i - 1>>
      <4> HIDE DEF item
      <4> QED
          BY <3>1, WebPairIs
    <3> HIDE DEF p
    <3> QED
        BY <3>2, <3>3
  <2> HIDE DEF B
  <2> QED
      BY <2>3, <2>4
<1> HIDE DEF A, B
<1>5. /\ IsSeq(sA) /\ Len(sA) = 1 + 2 * n /\ sA[1] = e
      /\ \A i \in 1 .. (2 * n) : sA[1 + i] = A[i]
  <2>0. sA = step \o A
      OBVIOUS
  <2> HIDE DEF sA
  <2>1. IsSeq(step) /\ IsSeq(A)
      BY <1>2, <1>3
  <2>2. IsSeq(sA)
      BY <2>0, <2>1, JoinIs
  <2>3. Len(sA) = Len(step) + Len(A)
      BY <2>0, <2>1, JoinIs
  <2>4. \A i \in 1 .. Len(step) : sA[i] = step[i]
      BY <2>0, <2>1, JoinIs
  <2>5. \A i \in 1 .. Len(A) : sA[Len(step) + i] = A[i]
      BY <2>0, <2>1, JoinIs
  <2> QED
      BY <1>1, <1>2, <1>3, <2>2, <2>3, <2>4, <2>5
<1> HIDE DEF sA
<1>6. /\ IsSeq(plan) /\ Len(plan) = 1 + 2 * n + 2 * m /\ plan[1] = e
      /\ \A i \in 1 .. (2 * n) : plan[1 + i] = A[i]
      /\ \A i \in 1 .. (2 * m) : plan[1 + 2 * n + i] = B[i]
  <2>0. plan = sA \o B
      OBVIOUS
  <2> HIDE DEF plan
  <2>1. IsSeq(sA) /\ IsSeq(B)
      BY <1>4, <1>5
  <2>2. IsSeq(plan)
      BY <2>0, <2>1, JoinIs
  <2>3. Len(plan) = Len(sA) + Len(B)
      BY <2>0, <2>1, JoinIs
  <2>4. \A i \in 1 .. Len(sA) : plan[i] = sA[i]
      BY <2>0, <2>1, JoinIs
  <2>5. \A i \in 1 .. Len(B) : plan[Len(sA) + i] = B[i]
      BY <2>0, <2>1, JoinIs
  <2> QED
      BY <1>1, <1>4, <1>5, <2>2, <2>3, <2>4, <2>5
<1>7. ActivityOf(x, k, t, tool_list, web_list) = plan
    BY DEF ActivityOf, plan, sA, A, B, step, e, n, m
<1> HIDE DEF plan
<1>8. \A i \in 1 .. n : LET c == plan[2 * i]
                            d == plan[2 * i + 1]
                        IN /\ 2 * i \in 1 .. Len(plan) /\ 2 * i + 1 \in 1 .. Len(plan)
                           /\ IsToolPair(c, d, x, k)
                           /\ c.event_id = <<"tool_called", x, k, i - 1>>
                           /\ d.event_id = <<"tool_comp", x, k, i - 1>>
  <2> SUFFICES ASSUME NEW i \in 1 .. n
               PROVE  /\ plan[2 * i] = A[2 * i - 1] /\ plan[2 * i + 1] = A[2 * i]
                      /\ 2 * i \in 1 .. Len(plan) /\ 2 * i + 1 \in 1 .. Len(plan)
      BY <1>3
  <2>1. /\ 2 * i - 1 \in 1 .. (2 * n) /\ 2 * i \in 1 .. (2 * n)
        /\ 1 + (2 * i - 1) = 2 * i /\ 1 + 2 * i = 2 * i + 1
      BY <1>1
  <2>2. plan[1 + (2 * i - 1)] = A[2 * i - 1] /\ plan[1 + 2 * i] = A[2 * i]
      BY <1>6, <2>1
  <2> QED
      BY <1>1, <1>6, <2>1, <2>2
<1>9. \A i \in 1 .. m : LET c == plan[2 * n + 2 * i]
                            d == plan[2 * n + 2 * i + 1]
                        IN /\ 2 * n + 2 * i \in 1 .. Len(plan)
                           /\ 2 * n + 2 * i + 1 \in 1 .. Len(plan)
                           /\ IsWebPair(c, d, x, k)
                           /\ c.event_id = <<"web_req", x, k, i - 1>>
                           /\ d.event_id = <<"web_resp", x, k, i - 1>>
  <2> SUFFICES ASSUME NEW i \in 1 .. m
               PROVE  /\ plan[2 * n + 2 * i] = B[2 * i - 1]
                      /\ plan[2 * n + 2 * i + 1] = B[2 * i]
                      /\ 2 * n + 2 * i \in 1 .. Len(plan)
                      /\ 2 * n + 2 * i + 1 \in 1 .. Len(plan)
      BY <1>4
  <2>1. /\ 2 * i - 1 \in 1 .. (2 * m) /\ 2 * i \in 1 .. (2 * m)
        /\ 1 + 2 * n + (2 * i - 1) = 2 * n + 2 * i
        /\ 1 + 2 * n + 2 * i = 2 * n + 2 * i + 1
      BY <1>1
  <2>2. /\ plan[1 + 2 * n + (2 * i - 1)] = B[2 * i - 1]
        /\ plan[1 + 2 * n + 2 * i] = B[2 * i]
      BY <1>6, <2>1
  <2> QED
      BY <1>1, <1>6, <2>1, <2>2
<1>10. ASSUME NEW p \in 1 .. Len(plan)
       PROVE  \/ p = 1
              \/ \E i \in 1 .. n : p = 2 * i \/ p = 2 * i + 1
              \/ \E i \in 1 .. m : p = 2 * n + 2 * i \/ p = 2 * n + 2 * i + 1
  <2> DEFINE h == p \div 2
  <2>1. h \in Int /\ (p = 2 * h \/ p = 2 * h + 1)
      BY <1>1, <1>6
  <2> HIDE DEF h
  <2>2. CASE h = 0
      BY <1>1, <1>6, <2>1, <2>2
  <2>3. CASE h \in 1 .. n
      BY <2>1, <2>3
  <2>4. CASE h > n
    <3>1. h - n \in 1 .. m /\ 2 * n + 2 * (h - n) = 2 * h
        BY <1>1, <1>6, <2>1, <2>4
    <3> QED
        BY <2>1, <3>1
  <2> QED
      BY <1>1, <1>6, <2>1, <2>2, <2>3, <2>4
<1>11. DOMAIN plan = 1 .. Len(plan) /\ Len(plan) \in Nat
    BY <1>6, SeqIs
<1>12. ASSUME NEW p \in DOMAIN plan
       PROVE  \/ IsStep(plan[p], x, k)
              \/ p + 1 \in DOMAIN plan /\ IsPair(plan[p], plan[p + 1], x, k)
              \/ p - 1 \in DOMAIN plan /\ IsPair(plan[p - 1], plan[p], x, k)
  <2>1. CASE p = 1
      BY <1>2, <1>6, <2>1
  <2>2. ASSUME NEW i \in 1 .. n, p = 2 * i \/ p = 2 * i + 1
        PROVE  \/ p + 1 \in DOMAIN plan /\ IsPair(plan[p], plan[p + 1], x, k)
               \/ p - 1 \in DOMAIN plan /\ IsPair(plan[p - 1], plan[p], x, k)
    <3>1. 2 * i \in Int /\ (2 * i + 1) - 1 = 2 * i
        BY <1>1
    <3> QED
        BY <1>8, <1>11, <2>2, <3>1 DEF IsPair
  <2>3. ASSUME NEW i \in 1 .. m, p = 2 * n + 2 * i \/ p = 2 * n + 2 * i + 1
        PROVE  \/ p + 1 \in DOMAIN plan /\ IsPair(plan[p], plan[p + 1], x, k)
               \/ p - 1 \in DOMAIN plan /\ IsPair(plan[p - 1], plan[p], x, k)
    <3>1. 2 * n + 2 * i \in Int /\ (2 * n + 2 * i + 1) - 1 = 2 * n + 2 * i
        BY <1>1
    <3> QED
        BY <1>9, <1>11, <2>3, <3>1 DEF IsPair
  <2> QED
      BY <1>10, <1>11, <2>1, <2>2, <2>3
<1>13. ASSUME NEW p \in DOMAIN plan
       PROVE  \/ p = 1 /\ plan[p].event_id = <<"step_ev", x, k, t>>
              \/ \E i \in 1 .. n : \/ /\ p = 2 * i
                                      /\ plan[p].event_id = <<"tool_called", x, k, i - 1>>
                                   \/ /\ p = 2 * i + 1
                                      /\ plan[p].event_id = <<"tool_comp", x, k, i - 1>>
              \/ \E i \in 1 .. m : \/ /\ p = 2 * n + 2 * i
                                      /\ plan[p].event_id = <<"web_req", x, k, i - 1>>
                                   \/ /\ p = 2 * n + 2 * i + 1
                                      /\ plan[p].event_id = <<"web_resp", x, k, i - 1>>
  <2>1. CASE p = 1
      BY <1>2, <1>6, <2>1
  <2>2. ASSUME NEW i \in 1 .. n, p = 2 * i \/ p = 2 * i + 1
        PROVE  \/ p = 2 * i /\ plan[p].event_id = <<"tool_called", x, k, i - 1>>
               \/ p = 2 * i + 1 /\ plan[p].event_id = <<"tool_comp", x, k, i - 1>>
      BY <1>8, <2>2
  <2>3. ASSUME NEW i \in 1 .. m, p = 2 * n + 2 * i \/ p = 2 * n + 2 * i + 1
        PROVE  \/ p = 2 * n + 2 * i /\ plan[p].event_id = <<"web_req", x, k, i - 1>>
               \/ p = 2 * n + 2 * i + 1 /\ plan[p].event_id = <<"web_resp", x, k, i - 1>>
      BY <1>9, <2>3
  <2>4. \/ p = 1
        \/ \E i \in 1 .. n : p = 2 * i \/ p = 2 * i + 1
        \/ \E i \in 1 .. m : p = 2 * n + 2 * i \/ p = 2 * n + 2 * i + 1
      BY <1>10, <1>11
  <2>5. CASE \E i \in 1 .. n : p = 2 * i \/ p = 2 * i + 1
    <3>1. PICK i \in 1 .. n : p = 2 * i \/ p = 2 * i + 1
        BY <2>5
    <3>2. \E j \in 1 .. n : \/ p = 2 * j /\ plan[p].event_id = <<"tool_called", x, k, j - 1>>
                            \/ p = 2 * j + 1 /\ plan[p].event_id = <<"tool_comp", x, k, j - 1>>
        BY <2>2, <3>1
    <3> QED
        BY <3>2
  <2>6. CASE \E i \in 1 .. m : p = 2 * n + 2 * i \/ p = 2 * n + 2 * i + 1
    <3>1. PICK i \in 1 .. m : p = 2 * n + 2 * i \/ p = 2 * n + 2 * i + 1
        BY <2>6
    <3>2. \E j \in 1 .. m :
             \/ p = 2 * n + 2 * j /\ plan[p].event_id = <<"web_req", x, k, j - 1>>
             \/ p = 2 * n + 2 * j + 1 /\ plan[p].event_id = <<"web_resp", x, k, j - 1>>
        BY <2>3, <3>1
    <3> QED
        BY <3>2
  <2> QED
      BY <2>1, <2>4, <2>5, <2>6
<1>14. ASSUME NEW p \in DOMAIN plan, NEW q \in DOMAIN plan,
              plan[p].event_id = plan[q].event_id
       PROVE  p = q
  <2>1. /\ 1 .. n \subseteq Int /\ 1 .. m \subseteq Int
      BY <1>1
  <2>2. CASE p = 1 /\ plan[p].event_id = <<"step_ev", x, k, t>>
      BY <1>13, <1>14, <2>2
  <2>3. ASSUME NEW i \in 1 .. n, p = 2 * i,
               plan[p].event_id = <<"tool_called", x, k, i - 1>>
        PROVE  p = q
      BY <1>13, <1>14, <2>1, <2>3
  <2>4. ASSUME NEW i \in 1 .. n, p = 2 * i + 1,
               plan[p].event_id = <<"tool_comp", x, k, i - 1>>
        PROVE  p = q
      BY <1>13, <1>14, <2>1, <2>4
  <2>5. ASSUME NEW i \in 1 .. m, p = 2 * n + 2 * i,
               plan[p].event_id = <<"web_req", x, k, i - 1>>
        PROVE  p = q
      BY <1>13, <1>14, <2>1, <2>5
  <2>6. ASSUME NEW i \in 1 .. m, p = 2 * n + 2 * i + 1,
               plan[p].event_id = <<"web_resp", x, k, i - 1>>
        PROVE  p = q
      BY <1>13, <1>14, <2>1, <2>6
  <2> QED
      BY <1>13, <2>2, <2>3, <2>4, <2>5, <2>6
<1>15. PlanShape(plan, x, k)
    BY <1>6, <1>12, <1>14 DEF PlanShape
<1> QED
    BY <1>7, <1>15

LEMMA ListedIs ==
    ASSUME NEW list, IsList(list)
    PROVE  IsSeq(Listed(list))
BY EmptyIs DEF IsList, Listed, IsSeq

LEMMA CodexListsAre ==
    ASSUME NEW out, IsOutput(out)
    PROVE  IsSeq(codex_tool_list(out)) /\ IsSeq(codex_web_list(out))
<1>1. IsSeq(out.events) /\ (out.parsed = NoAgent \/ IsObject(out.parsed))
    BY DEF IsOutput, IsSeq
<1>2. ASSUME NEW I \in SUBSET (DOMAIN out.events)
      PROVE  Cardinality(I) \in Nat /\ DOMAIN InOrder(I) = 1 .. Cardinality(I)
  <2>1. Len(out.events) \in Nat /\ DOMAIN out.events = 1 .. Len(out.events)
      BY <1>1, SeqIs
  <2>2. IsFiniteSet(I)
    <3>1. IsFiniteSet(1 .. Len(out.events))
        BY <2>1, FS_Interval
    <3>2. I \in SUBSET (1 .. Len(out.events))
        BY <2>1
    <3> QED
        BY <3>1, <3>2, FS_Subset
  <2>3. Cardinality(I) \in Nat
      BY <2>2, FS_CardinalityType
  <2> QED
      BY <2>3 DEF InOrder
<1>3. IsSeq(codex_tool_list(out))
  <2> DEFINE I == {i \in DOMAIN out.events : out.events[i].tool # NoAgent}
             lines == InOrder(I)
             items == [n \in DOMAIN lines |-> out.events[lines[n]].tool]
             list == Listed(codex_listed_tools(out))
             u == list \o items
  <2>1. IsList(codex_listed_tools(out))
      BY <1>1 DEF codex_listed_tools, IsObject, IsList
  <2>2. IsSeq(list)
      BY <2>1, ListedIs
  <2>3. Cardinality(I) \in Nat /\ DOMAIN lines = 1 .. Cardinality(I)
      BY <1>2
  <2> HIDE DEF I, lines
  <2>4. DOMAIN items = 1 .. Cardinality(I) /\ items = [n \in 1 .. Cardinality(I) |-> items[n]]
      BY <2>3
  <2> HIDE DEF items, list
  <2>5. IsSeq(items)
      BY <2>3, <2>4, CountedIsSeq
  <2>6. u = list \o items
      OBVIOUS
  <2> HIDE DEF u
  <2>7. IsSeq(u)
      BY <2>2, <2>5, <2>6, JoinIs
  <2> QED
    <3>1. codex_tool_list(out) = list \o items
        BY DEF items, list, lines, I, codex_tool_list
    <3> QED
        BY <2>7, <3>1 DEF u
<1>4. IsSeq(codex_web_list(out))
  <2> DEFINE I == {i \in DOMAIN out.events : out.events[i].web # NoAgent}
             lines == InOrder(I)
             items == [n \in DOMAIN lines |-> out.events[lines[n]].web]
             web_requests == IF out.parsed = NoAgent THEN NoAgent ELSE out.parsed.web_requests
             list == Listed(web_requests)
             u == list \o items
  <2>1. IsList(web_requests)
      BY <1>1 DEF IsObject, IsList
  <2>2. IsSeq(list)
    <3> HIDE DEF web_requests
    <3> QED
        BY <2>1, ListedIs
  <2>3. Cardinality(I) \in Nat /\ DOMAIN lines = 1 .. Cardinality(I)
      BY <1>2
  <2> HIDE DEF I, lines
  <2>4. DOMAIN items = 1 .. Cardinality(I) /\ items = [n \in 1 .. Cardinality(I) |-> items[n]]
      BY <2>3
  <2> HIDE DEF items, list
  <2>5. IsSeq(items)
      BY <2>3, <2>4, CountedIsSeq
  <2>6. u = list \o items
      OBVIOUS
  <2> HIDE DEF u
  <2>7. IsSeq(u)
      BY <2>2, <2>5, <2>6, JoinIs
  <2> QED
    <3>1. codex_web_list(out) = Listed(web_requests) \o items
        BY DEF items, lines, I, codex_web_list
    <3> QED
        BY <2>7, <3>1 DEF u, list
<1> QED
    BY <1>3, <1>4

LEMMA EventsAre ==
    ASSUME setup \in AgentSetups, setup.vendor # "reference", NEW x, NEW k, NEW t,
           NEW out, IsOutput(out)
    PROVE  PlanShape(events(x, k, t, out), x, k)
<1> DEFINE alone == <<StepCompleted(x, k, t)>>
           codex == ActivityOf(x, k, t, codex_tool_list(out), codex_web_list(out))
           others == ActivityOf(x, k, t, Listed(out.parsed.tools), Listed(out.parsed.web_requests))
<1>1. PlanShape(alone, x, k)
    BY StepAloneIs
<1>2. PlanShape(codex, x, k)
    BY CodexListsAre, ActivityIs
<1>3. out.parsed # NoAgent => PlanShape(others, x, k)
  <2>1. SUFFICES ASSUME out.parsed # NoAgent PROVE PlanShape(others, x, k)
      OBVIOUS
  <2>2. IsList(out.parsed.tools) /\ IsList(out.parsed.web_requests)
      BY <2>1 DEF IsOutput, IsObject
  <2>3. IsSeq(Listed(out.parsed.tools)) /\ IsSeq(Listed(out.parsed.web_requests))
      BY <2>2, ListedIs
  <2> QED
      BY <2>3, ActivityIs
<1> HIDE DEF alone, codex, others
<1>4. events(x, k, t, out) \in {alone, codex} \cup (IF out.parsed = NoAgent THEN {} ELSE {others})
    BY VendorIs DEF Vendors, CliVendors, Is, events, codex_events, opencode_events,
             hermes_events, openclaw_events, lovable_events, claude_events, alone, codex,
             others
<1> QED
    BY <1>1, <1>2, <1>3, <1>4

-----------------------------------------------------------------------------
(***************************************************************************)
(* Sessions: what a call does to them.                                     *)
(***************************************************************************)
SessionFields == {"execution_id", "step_count", "is_active", "control_history"}

SessionType(s) ==
    DOMAIN s = SessionFields /\ s.step_count \in Nat /\ IsSeq(s.control_history)

AdapterType(a) ==
    /\ DOMAIN a = {"current", "objects", "steps", "controls"}
    /\ IsSeq(a.objects) /\ IsSeq(a.controls)
    /\ DOMAIN a.current = AgentExecutions
    /\ \A x \in AgentExecutions : a.current[x] \in 0 .. Len(a.objects)
    /\ \A x \in AgentExecutions :
         a.current[x] # 0 => a.objects[a.current[x]].execution_id = x
    /\ \A o \in 1 .. Len(a.objects) : SessionType(a.objects[o])

\* The sessions are still there, with what they were given.
Kept(a, b) ==
    /\ b.controls = a.controls /\ Len(a.objects) <= Len(b.objects)
    /\ \A o \in 1 .. Len(b.objects) :
         IF o \in 1 .. Len(a.objects)
         THEN /\ b.objects[o].execution_id = a.objects[o].execution_id
              /\ b.objects[o].control_history = a.objects[o].control_history
         ELSE b.objects[o].control_history = <<>>

\* The steps a session has counted, one that is not there none.
CountIn(a, o) == IF o \in 1 .. Len(a.objects) THEN a.objects[o].step_count ELSE 0

LEMMA NewSessionIs ==
    ASSUME NEW x
    PROVE  LET s == NewSession(x)
           IN /\ SessionType(s) /\ s.execution_id = x /\ s.step_count = 0
              /\ s.control_history = <<>>
BY EmptyIs DEF NewSession, SessionType, SessionFields

LEMMA NoSessionsAre == AdapterType(NoSessions) /\ Len(NoSessions.objects) = 0
BY EmptyIs DEF NoSessions, AdapterType

LEMMA AttachedIs ==
    ASSUME NEW a, AdapterType(a), NEW x \in AgentExecutions
    PROVE  LET b == SessionAttached(a, x)
           IN /\ AdapterType(b) /\ Kept(a, b) /\ Len(b.objects) = Len(a.objects) + 1
              /\ b.current[x] = Len(a.objects) + 1
              /\ b.objects[Len(a.objects) + 1].step_count = 0
              /\ \A o \in 1 .. Len(a.objects) : b.objects[o] = a.objects[o]
<1> DEFINE n == Len(a.objects)
           s == NewSession(x)
           objects == Append(a.objects, s)
           current == [a.current EXCEPT ![x] = n + 1]
           b == SessionAttached(a, x)
<1>1. /\ SessionType(s) /\ s.execution_id = x /\ s.step_count = 0 /\ s.control_history = <<>>
    BY NewSessionIs
<1> HIDE DEF s
<1>2. IsSeq(a.objects) /\ n \in Nat
    BY SeqIs DEF AdapterType
<1>3. /\ IsSeq(objects) /\ Len(objects) = n + 1 /\ objects[n + 1] = s
      /\ \A o \in 1 .. n : objects[o] = a.objects[o]
    BY <1>2, AppendIs
<1>4. /\ DOMAIN b = DOMAIN a /\ b.objects = objects /\ b.current = current
      /\ b.controls = a.controls
  <2>1. b = [a EXCEPT !.objects = objects, !.current[x] = n + 1]
      BY DEF SessionAttached, s
  <2> HIDE DEF b, objects, n
  <2> QED
      BY <2>1 DEF AdapterType
<1> HIDE DEF b, objects, n
<1>5. /\ DOMAIN current = AgentExecutions /\ current[x] = n + 1
      /\ \A y \in AgentExecutions \ {x} : current[y] = a.current[y]
    BY DEF AdapterType
<1> HIDE DEF current
<1>6. /\ \A y \in AgentExecutions : a.current[y] \in 0 .. n
      /\ \A y \in AgentExecutions : a.current[y] # 0 => a.objects[a.current[y]].execution_id = y
      /\ \A o \in 1 .. n : SessionType(a.objects[o])
      /\ DOMAIN a = {"current", "objects", "steps", "controls"} /\ IsSeq(a.controls)
    BY DEF AdapterType, n
<1>7. \A o \in 1 .. (n + 1) : o \in 1 .. n \/ o = n + 1
    BY <1>2
<1>8. \A o \in 1 .. (n + 1) : SessionType(objects[o])
    BY <1>1, <1>3, <1>6, <1>7
<1>9. \A y \in AgentExecutions : current[y] \in 0 .. (n + 1)
    BY <1>2, <1>5, <1>6
<1>10. \A y \in AgentExecutions : current[y] # 0 => objects[current[y]].execution_id = y
  <2> SUFFICES ASSUME NEW y \in AgentExecutions, current[y] # 0
               PROVE  objects[current[y]].execution_id = y
      OBVIOUS
  <2>1. CASE y = x
      BY <1>1, <1>3, <1>5, <2>1
  <2>2. CASE y # x
    <3>1. current[y] = a.current[y] /\ a.current[y] \in 1 .. n
        BY <1>2, <1>5, <1>6, <2>2
    <3> QED
        BY <1>3, <1>6, <3>1
  <2> QED
      BY <2>1, <2>2
<1>11. AdapterType(b)
    BY <1>3, <1>4, <1>5, <1>6, <1>8, <1>9, <1>10 DEF AdapterType
<1>12. Kept(a, b)
    BY <1>1, <1>2, <1>3, <1>4, <1>7 DEF Kept, n
<1> QED
    BY <1>1, <1>2, <1>3, <1>4, <1>5, <1>11, <1>12 DEF n, b

LEMMA DetachedIs ==
    ASSUME NEW a, AdapterType(a), NEW x \in AgentExecutions
    PROVE  LET b == SessionDetached(a, x)
           IN /\ AdapterType(b) /\ Kept(a, b) /\ Len(b.objects) = Len(a.objects)
              /\ \A o \in 1 .. Len(a.objects) : b.objects[o].step_count = a.objects[o].step_count
<1> DEFINE n == Len(a.objects)
           c == a.current[x]
           b == SessionDetached(a, x)
<1>1. IsSeq(a.objects) /\ n \in Nat /\ DOMAIN a.objects = 1 .. n
    BY SeqIs DEF AdapterType
<1>2. c \in 0 .. n
    BY DEF AdapterType
<1>3. CASE c = 0
  <2>1. b = a
      BY <1>3 DEF SessionDetached
  <2> HIDE DEF b
  <2> QED
      BY <1>1, <2>1 DEF Kept, b
<1>4. CASE c # 0
  <2> DEFINE objects == [a.objects EXCEPT ![c].is_active = FALSE]
  <2>1. c \in 1 .. n
      BY <1>1, <1>2, <1>4
  <2>2. /\ DOMAIN b = DOMAIN a /\ b.objects = objects /\ b.current = a.current
        /\ b.controls = a.controls
    <3>1. b = [a EXCEPT !.objects[c].is_active = FALSE]
        BY <1>4 DEF SessionDetached
    <3> HIDE DEF b, c
    <3> QED
        BY <3>1 DEF AdapterType
  <2> HIDE DEF b, c
  <2>3. /\ DOMAIN objects = 1 .. n /\ objects = [i \in 1 .. n |-> objects[i]]
        /\ \A o \in 1 .. n \ {c} : objects[o] = a.objects[o]
        /\ objects[c] = [a.objects[c] EXCEPT !.is_active = FALSE]
      BY <1>1, <2>1
  <2> HIDE DEF objects, n
  <2>4. IsSeq(objects) /\ Len(objects) = n
      BY <1>1, <2>3, CountedIsSeq
  <2>5. \A o \in 1 .. n : SessionType(a.objects[o])
      BY DEF AdapterType, n
  <2>6. \A o \in 1 .. n : /\ SessionType(objects[o])
                          /\ objects[o].execution_id = a.objects[o].execution_id
                          /\ objects[o].step_count = a.objects[o].step_count
                          /\ objects[o].control_history = a.objects[o].control_history
    <3> SUFFICES ASSUME NEW o \in 1 .. n
                 PROVE  /\ SessionType(objects[o])
                        /\ objects[o].execution_id = a.objects[o].execution_id
                        /\ objects[o].step_count = a.objects[o].step_count
                        /\ objects[o].control_history = a.objects[o].control_history
        OBVIOUS
    <3>1. CASE o # c
        BY <2>3, <2>5, <3>1
    <3>2. CASE o = c
        BY <2>1, <2>3, <2>5, <3>2 DEF SessionType, SessionFields
    <3> QED
        BY <3>1, <3>2
  <2>7. /\ \A y \in AgentExecutions : a.current[y] \in 0 .. n
        /\ \A y \in AgentExecutions :
              a.current[y] # 0 => a.objects[a.current[y]].execution_id = y
        /\ DOMAIN a = {"current", "objects", "steps", "controls"} /\ IsSeq(a.controls)
        /\ DOMAIN a.current = AgentExecutions
      BY DEF AdapterType, n
  <2>8. \A y \in AgentExecutions : a.current[y] # 0 => objects[a.current[y]].execution_id = y
    <3> SUFFICES ASSUME NEW y \in AgentExecutions, a.current[y] # 0
                 PROVE  objects[a.current[y]].execution_id = y
        OBVIOUS
    <3>1. a.current[y] \in 1 .. n
        BY <1>1, <2>7
    <3> QED
        BY <2>6, <2>7, <3>1
  <2>9. AdapterType(b)
      BY <2>2, <2>4, <2>6, <2>7, <2>8 DEF AdapterType
  <2>10. Kept(a, b)
      BY <1>1, <2>2, <2>4, <2>6 DEF Kept, n
  <2> QED
      BY <2>2, <2>4, <2>6, <2>9, <2>10 DEF n, b
<1> QED
    BY <1>2, <1>3, <1>4

\* b after a step of x whose session is there.
Raised(b, x, step) ==
    [b EXCEPT !.objects[b.current[x]].step_count = @ + 1, !.steps = Append(@, step)]

LEMMA RaisedIs ==
    ASSUME NEW b, AdapterType(b), NEW x \in AgentExecutions, b.current[x] # 0, NEW step,
           NEW c, c = Raised(b, x, step)
    PROVE  /\ AdapterType(c) /\ Kept(b, c) /\ Len(c.objects) = Len(b.objects)
           /\ c.current = b.current
           /\ \A o \in 1 .. Len(b.objects) :
                c.objects[o].step_count
                  = b.objects[o].step_count + (IF o = b.current[x] THEN 1 ELSE 0)
<1> DEFINE n == Len(b.objects)
           o == b.current[x]
           objects == [b.objects EXCEPT ![o].step_count = @ + 1]
<1>1. IsSeq(b.objects) /\ n \in Nat /\ DOMAIN b.objects = 1 .. n
    BY SeqIs DEF AdapterType
<1>2. o \in 1 .. n
    BY <1>1 DEF AdapterType
<1>3. /\ DOMAIN c = DOMAIN b /\ c.objects = objects /\ c.current = b.current
      /\ c.controls = b.controls
    BY DEF AdapterType, Raised
<1> HIDE DEF o
<1>4. /\ DOMAIN objects = 1 .. n /\ objects = [i \in 1 .. n |-> objects[i]]
      /\ \A p \in 1 .. n \ {o} : objects[p] = b.objects[p]
      /\ objects[o] = [b.objects[o] EXCEPT !.step_count = @ + 1]
    BY <1>1, <1>2
<1> HIDE DEF objects, n
<1>5. IsSeq(objects) /\ Len(objects) = n
    BY <1>1, <1>4, CountedIsSeq
<1>6. \A p \in 1 .. n : SessionType(b.objects[p])
    BY DEF AdapterType, n
<1>7. ASSUME NEW p \in 1 .. n
      PROVE  /\ SessionType(objects[p])
             /\ objects[p].execution_id = b.objects[p].execution_id
             /\ objects[p].step_count = b.objects[p].step_count + (IF p = o THEN 1 ELSE 0)
             /\ objects[p].control_history = b.objects[p].control_history
  <2>1. CASE p # o
      BY <1>4, <1>6, <2>1 DEF SessionType
  <2>2. CASE p = o
      BY <1>2, <1>4, <1>6, <2>2 DEF SessionType, SessionFields
  <2> QED
      BY <2>1, <2>2
<1>8. /\ \A y \in AgentExecutions : b.current[y] \in 0 .. n
      /\ \A y \in AgentExecutions :
            b.current[y] # 0 => b.objects[b.current[y]].execution_id = y
      /\ DOMAIN b = {"current", "objects", "steps", "controls"} /\ IsSeq(b.controls)
      /\ DOMAIN b.current = AgentExecutions
    BY DEF AdapterType, n
<1>9. \A y \in AgentExecutions : b.current[y] # 0 => objects[b.current[y]].execution_id = y
  <2> SUFFICES ASSUME NEW y \in AgentExecutions, b.current[y] # 0
               PROVE  objects[b.current[y]].execution_id = y
      OBVIOUS
  <2>1. b.current[y] \in 1 .. n
      BY <1>1, <1>8
  <2> QED
      BY <1>7, <1>8, <2>1
<1>10. AdapterType(c)
    BY <1>3, <1>5, <1>7, <1>8, <1>9 DEF AdapterType
<1>11. Kept(b, c)
    BY <1>1, <1>3, <1>5, <1>7 DEF Kept, n
<1> QED
    BY <1>3, <1>5, <1>7, <1>10, <1>11 DEF n, o

LEMMA KeptTwice ==
    ASSUME NEW a, NEW b, NEW c, AdapterType(a), AdapterType(b), Kept(a, b), Kept(b, c),
           Len(c.objects) = Len(b.objects)
    PROVE  Kept(a, c)
<1>1. Len(a.objects) \in Nat /\ Len(b.objects) \in Nat
    BY SeqIs DEF AdapterType
<1> QED
    BY <1>1 DEF Kept

\* A step raises the count of one session of its execution, a new one if there
\* was none.
LEMMA CountedIs ==
    ASSUME NEW a, AdapterType(a), NEW x \in AgentExecutions, NEW k,
           NEW c, c = StepCounted(a, x, k)
    PROVE  /\ AdapterType(c) /\ Kept(a, c)
           /\ c.current[x] \in 1 .. Len(c.objects) /\ c.objects[c.current[x]].execution_id = x
           /\ \A o \in 1 .. Len(c.objects) :
                c.objects[o].step_count = CountIn(a, o) + (IF o = c.current[x] THEN 1 ELSE 0)
<1> DEFINE b == IF a.current[x] = 0 THEN SessionAttached(a, x) ELSE a
<1>1. c = Raised(b, x, <<x, k>>)
    BY DEF StepCounted, Raised
<1>2. Len(a.objects) \in Nat
    BY SeqIs DEF AdapterType
<1>3. /\ AdapterType(b) /\ Kept(a, b) /\ b.current[x] # 0
      /\ \A o \in 1 .. Len(b.objects) : b.objects[o].step_count = CountIn(a, o)
  <2>1. CASE a.current[x] = 0
    <3>1. b = SessionAttached(a, x)
        BY <2>1
    <3> HIDE DEF b
    <3>2. /\ AdapterType(b) /\ Kept(a, b) /\ Len(b.objects) = Len(a.objects) + 1
          /\ b.current[x] = Len(a.objects) + 1
          /\ b.objects[Len(a.objects) + 1].step_count = 0
          /\ \A o \in 1 .. Len(a.objects) : b.objects[o] = a.objects[o]
        BY <3>1, AttachedIs
    <3> QED
        BY <1>2, <3>2 DEF CountIn
  <2>2. CASE a.current[x] # 0
    <3>1. b = a
        BY <2>2
    <3> HIDE DEF b
    <3>2. Kept(a, b)
        BY <1>2, <3>1 DEF Kept
    <3> QED
        BY <1>2, <2>2, <3>1, <3>2 DEF CountIn
  <2> QED
      BY <2>1, <2>2
<1> HIDE DEF b
<1>4. /\ AdapterType(c) /\ Kept(b, c) /\ Len(c.objects) = Len(b.objects)
      /\ c.current = b.current
      /\ \A o \in 1 .. Len(b.objects) :
           c.objects[o].step_count
             = b.objects[o].step_count + (IF o = b.current[x] THEN 1 ELSE 0)
  <2>1. AdapterType(b) /\ b.current[x] # 0
      BY <1>3
  <2> QED
      BY <1>1, <2>1, RaisedIs
<1>5. Kept(a, c)
    BY <1>3, <1>4, KeptTwice
<1>6. c.current[x] \in 1 .. Len(c.objects) /\ c.objects[c.current[x]].execution_id = x
  <2>1. /\ c.current[x] # 0 /\ c.current[x] \in 0 .. Len(c.objects)
        /\ c.current[x] # 0 => c.objects[c.current[x]].execution_id = x
      BY <1>3, <1>4 DEF AdapterType
  <2>2. Len(c.objects) \in Nat
      BY <1>4, SeqIs DEF AdapterType
  <2> QED
      BY <2>1, <2>2
<1> QED
    BY <1>3, <1>4, <1>5, <1>6

-----------------------------------------------------------------------------
(***************************************************************************)
(* Which session was given which control.                                  *)
(***************************************************************************)
GivenIn(a, o, I) ==
    LET given == a.objects[o].control_history
    IN /\ Len(given) = Cardinality(I)
       /\ \A i \in I :
            /\ a.controls[i].execution_id = a.objects[o].execution_id
            /\ given[Cardinality({j \in I : j <= i})] = a.controls[i]

Owns(owner, o) == {i \in DOMAIN owner : owner[i] = o}

AllGiven(a) ==
    \E owner \in [DOMAIN a.controls -> 0 .. Len(a.objects)] :
        \A o \in 1 .. Len(a.objects) : GivenIn(a, o, Owns(owner, o))

LEMMA KeptIsGiven ==
    ASSUME NEW a, AdapterType(a), AllGiven(a), NEW b, AdapterType(b), Kept(a, b)
    PROVE  AllGiven(b)
<1>1. Len(a.objects) \in Nat /\ Len(b.objects) \in Nat
    BY SeqIs DEF AdapterType
<1>2. PICK owner \in [DOMAIN a.controls -> 0 .. Len(a.objects)] :
         \A o \in 1 .. Len(a.objects) : GivenIn(a, o, Owns(owner, o))
    BY DEF AllGiven
<1>3. owner \in [DOMAIN b.controls -> 0 .. Len(b.objects)]
  <2>1. b.controls = a.controls /\ Len(a.objects) <= Len(b.objects)
      BY DEF Kept
  <2>2. 0 .. Len(a.objects) \subseteq 0 .. Len(b.objects)
      BY <1>1, <2>1
  <2> QED
      BY <2>1, <2>2
<1>4. ASSUME NEW o \in 1 .. Len(b.objects)
      PROVE  GivenIn(b, o, Owns(owner, o))
  <2>1. CASE o \in 1 .. Len(a.objects)
      BY <1>2, <2>1, ZenonT(40) DEF GivenIn, Kept
  <2>2. CASE o \notin 1 .. Len(a.objects)
    <3>1. Owns(owner, o) = {}
        BY <1>1, <2>2 DEF Owns
    <3>2. b.objects[o].control_history = <<>>
        BY <2>2 DEF Kept
    <3> QED
        BY <3>1, <3>2, FS_EmptySet DEF GivenIn
  <2> QED
      BY <2>1, <2>2
<1> QED
    BY <1>3, <1>4 DEF AllGiven

LEMMA NothingGiven ==
    ASSUME NEW a, a.objects = <<>>, a.controls = <<>>
    PROVE  AllGiven(a)
<1>1. Len(a.objects) = 0 /\ DOMAIN a.controls = {}
    OBVIOUS
<1>2. [i \in {} |-> 0] \in [DOMAIN a.controls -> 0 .. Len(a.objects)]
    BY <1>1
<1>3. \A o \in 1 .. Len(a.objects) : FALSE
    BY <1>1
<1> QED
    BY <1>2, <1>3 DEF AllGiven

\* One more number of a set of numbers up to n.
LEMMA OneMore ==
    ASSUME NEW n \in Nat, NEW I \in SUBSET (1 .. n)
    PROVE  /\ Cardinality(I \cup {n + 1}) = Cardinality(I) + 1 /\ Cardinality(I) \in Nat
           /\ IsFiniteSet(I)
           /\ \A i \in I : /\ {j \in I \cup {n + 1} : j <= i} = {j \in I : j <= i}
                           /\ Cardinality({j \in I : j <= i}) \in 1 .. Cardinality(I)
           /\ {j \in I \cup {n + 1} : j <= n + 1} = I \cup {n + 1}
<1>1. IsFiniteSet(1 .. n)
    BY FS_Interval
<1>2. IsFiniteSet(I)
    BY <1>1, FS_Subset
<1>3. Cardinality(I) \in Nat /\ n + 1 \notin I
    BY <1>2, FS_CardinalityType
<1>4. Cardinality(I \cup {n + 1}) = Cardinality(I) + 1
    BY <1>2, <1>3, FS_AddElement
<1>5. ASSUME NEW i \in I
      PROVE  Cardinality({j \in I : j <= i}) \in 1 .. Cardinality(I)
  <2> DEFINE J == {j \in I : j <= i}
  <2>1. J \subseteq I /\ i \in J
      OBVIOUS
  <2> HIDE DEF J
  <2>2. IsFiniteSet(J) /\ Cardinality(J) <= Cardinality(I)
      BY <1>2, <2>1, FS_Subset
  <2>3. Cardinality(J) \in Nat /\ Cardinality(J) # 0
      BY <2>1, <2>2, FS_CardinalityType, FS_EmptySet
  <2> QED
      BY <1>3, <2>2, <2>3 DEF J
<1>6. ASSUME NEW i \in I
      PROVE  {j \in I \cup {n + 1} : j <= i} = {j \in I : j <= i}
  <2>1. i \in 1 .. n /\ ~ (n + 1 <= i)
      OBVIOUS
  <2> QED
      BY <2>1
<1>7. {j \in I \cup {n + 1} : j <= n + 1} = I \cup {n + 1}
  <2>1. \A j \in I : j \in 1 .. n
      OBVIOUS
  <2>2. \A j \in I \cup {n + 1} : j <= n + 1
      BY <2>1
  <2> QED
      BY <2>2
<1> QED
    BY <1>2, <1>3, <1>4, <1>5, <1>6, <1>7

-----------------------------------------------------------------------------
\* A control is given to the session its execution has now, if any.
LEMMA ControlIs ==
    ASSUME NEW a, AdapterType(a), AllGiven(a), NEW op, op.execution_id \in AgentExecutions,
           NEW c, c = ControlReceived(a, op)
    PROVE  /\ AdapterType(c) /\ AllGiven(c)
           /\ Len(c.objects) = Len(a.objects)
           /\ \A o \in 1 .. Len(a.objects) : c.objects[o].step_count = a.objects[o].step_count
<1> DEFINE n == Len(a.objects)
           m == Len(a.controls)
           s == a.current[op.execution_id]
           controls == Append(a.controls, op)
           objects == IF s = 0 THEN a.objects
                      ELSE [a.objects EXCEPT ![s].control_history = Append(@, op)]
<1>1. /\ IsSeq(a.objects) /\ n \in Nat /\ DOMAIN a.objects = 1 .. n
      /\ IsSeq(a.controls) /\ m \in Nat /\ DOMAIN a.controls = 1 .. m
    BY SeqIs DEF AdapterType
<1>2. /\ s \in 0 .. n
      /\ s # 0 => a.objects[s].execution_id = op.execution_id
      /\ \A y \in AgentExecutions : a.current[y] \in 0 .. n
      /\ \A y \in AgentExecutions :
            a.current[y] # 0 => a.objects[a.current[y]].execution_id = y
      /\ DOMAIN a = {"current", "objects", "steps", "controls"}
      /\ DOMAIN a.current = AgentExecutions
      /\ \A o \in 1 .. n : SessionType(a.objects[o])
    BY DEF AdapterType
<1>3. /\ DOMAIN c = DOMAIN a /\ c.objects = objects /\ c.current = a.current
      /\ c.controls = controls
  <2> HIDE DEF s
  <2>1. CASE s = 0
    <3>1. c = [a EXCEPT !.controls = controls]
        BY <2>1 DEF ControlReceived, s
    <3> HIDE DEF controls
    <3> QED
        BY <1>2, <2>1, <3>1
  <2>2. CASE s # 0
    <3> DEFINE b == [a EXCEPT !.controls = controls]
    <3>1. c = [b EXCEPT !.objects[s].control_history = Append(@, op)]
        BY <2>2 DEF ControlReceived, s
    <3> HIDE DEF controls
    <3>2. /\ DOMAIN b = DOMAIN a /\ b.controls = controls /\ b.objects = a.objects
          /\ b.current = a.current
        BY <1>2
    <3> HIDE DEF b
    <3> QED
        BY <1>2, <2>2, <3>1, <3>2
  <2> QED
      BY <2>1, <2>2
<1> HIDE DEF s
<1>4. /\ DOMAIN objects = 1 .. n /\ objects = [i \in 1 .. n |-> objects[i]]
      /\ \A o \in 1 .. n \ {s} : objects[o] = a.objects[o]
      /\ s # 0 => objects[s] = [a.objects[s] EXCEPT !.control_history = Append(@, op)]
  <2>1. CASE s = 0
    <3>1. objects = a.objects
        BY <2>1
    <3>2. a.objects = [i \in 1 .. n |-> a.objects[i]]
        BY <1>1 DEF IsSeq
    <3> HIDE DEF objects
    <3> QED
        BY <1>1, <2>1, <3>1, <3>2
  <2>2. CASE s # 0
    <3> DEFINE more == [a.objects EXCEPT ![s].control_history = Append(@, op)]
    <3>1. s \in 1 .. n
        BY <1>1, <1>2, <2>2
    <3>2. objects = more
        BY <2>2
    <3>3. /\ DOMAIN more = 1 .. n /\ more = [i \in 1 .. n |-> more[i]]
          /\ \A o \in 1 .. n \ {s} : more[o] = a.objects[o]
          /\ more[s] = [a.objects[s] EXCEPT !.control_history = Append(@, op)]
        BY <1>1, <3>1
    <3> HIDE DEF more, objects
    <3> QED
        BY <3>2, <3>3
  <2> QED
      BY <2>1, <2>2
<1>5. /\ IsSeq(controls) /\ Len(controls) = m + 1 /\ DOMAIN controls = 1 .. (m + 1)
      /\ controls[m + 1] = op
      /\ \A i \in 1 .. m : controls[i] = a.controls[i]
    BY <1>1, AppendIs
<1> HIDE DEF objects, controls, n, m
<1>6. IsSeq(objects) /\ Len(objects) = n
    BY <1>1, <1>4, CountedIsSeq
<1>7. ASSUME NEW o \in 1 .. n
      PROVE  /\ SessionType(objects[o])
             /\ objects[o].execution_id = a.objects[o].execution_id
             /\ objects[o].step_count = a.objects[o].step_count
             /\ o # s => objects[o].control_history = a.objects[o].control_history
             /\ o = s => objects[o].control_history = Append(a.objects[o].control_history, op)
  <2>1. CASE o # s
      BY <1>2, <1>4, <2>1
  <2>2. CASE o = s
    <3> DEFINE u == a.objects[s]
               h == Append(u.control_history, op)
    <3>1. /\ DOMAIN u = SessionFields /\ u.step_count \in Nat /\ IsSeq(u.control_history)
        BY <1>2, <2>2 DEF SessionType
    <3>2. IsSeq(h)
        BY <3>1, AppendIs
    <3>3. objects[s] = [u EXCEPT !.control_history = h]
        BY <1>1, <1>4, <2>2
    <3> HIDE DEF u, h
    <3>4. /\ DOMAIN objects[s] = SessionFields /\ objects[s].step_count = u.step_count
          /\ objects[s].execution_id = u.execution_id
          /\ objects[s].control_history = h
        BY <3>1, <3>3 DEF SessionFields
    <3>5. SessionType(objects[s])
        BY <3>1, <3>2, <3>4 DEF SessionType
    <3> QED
        BY <2>2, <3>4, <3>5 DEF u, h
  <2> QED
      BY <2>1, <2>2
<1>8. \A y \in AgentExecutions : a.current[y] # 0 => objects[a.current[y]].execution_id = y
  <2> SUFFICES ASSUME NEW y \in AgentExecutions, a.current[y] # 0
               PROVE  objects[a.current[y]].execution_id = y
      OBVIOUS
  <2>1. a.current[y] \in 1 .. n
      BY <1>1, <1>2
  <2> QED
      BY <1>2, <1>7, <2>1
<1>9. AdapterType(c)
    BY <1>2, <1>3, <1>5, <1>6, <1>7, <1>8 DEF AdapterType
<1>10. PICK owner \in [1 .. m -> 0 .. n] :
          \A o \in 1 .. n : GivenIn(a, o, Owns(owner, o))
    BY <1>1 DEF AllGiven, n
<1> DEFINE next == [i \in 1 .. (m + 1) |-> IF i = m + 1 THEN s ELSE owner[i]]
<1>11. /\ next \in [1 .. (m + 1) -> 0 .. n] /\ next[m + 1] = s
       /\ \A i \in 1 .. m : next[i] = owner[i]
  <2>1. \A i \in 1 .. (m + 1) : i # m + 1 => i \in 1 .. m
      BY <1>1
  <2>2. m + 1 \in 1 .. (m + 1) /\ \A i \in 1 .. m : i \in 1 .. (m + 1) /\ i # m + 1
      BY <1>1
  <2>3. \A i \in 1 .. m : next[i] = owner[i] /\ owner[i] \in 0 .. n
      BY <2>2
  <2>4. next[m + 1] = s
      BY <2>2
  <2>5. \A i \in 1 .. (m + 1) : next[i] \in 0 .. n
    <3> HIDE DEF next
    <3> QED
        BY <1>2, <2>1, <2>3, <2>4
  <2>6. DOMAIN next = 1 .. (m + 1) /\ next = [i \in 1 .. (m + 1) |-> next[i]]
      OBVIOUS
  <2> HIDE DEF next
  <2> QED
      BY <2>3, <2>4, <2>5, <2>6
<1>12. ASSUME NEW o \in 1 .. n
       PROVE  GivenIn(c, o, Owns(next, o))
  <2> DEFINE I == Owns(owner, o)
             J == Owns(next, o)
  <2>1. I \in SUBSET (1 .. m)
      BY DEF Owns
  <2>2. J = IF o = s THEN I \cup {m + 1} ELSE I
    <3> HIDE DEF next
    <3>1. \A i \in 1 .. (m + 1) : i \in 1 .. m \/ i = m + 1
        BY <1>1
    <3>2. DOMAIN next = 1 .. (m + 1) /\ DOMAIN owner = 1 .. m /\ m + 1 \notin 1 .. m
        BY <1>1, <1>11
    <3>3. \A i \in 1 .. m : i \in 1 .. (m + 1)
        BY <1>1
    <3>4. m + 1 \in 1 .. (m + 1)
        BY <1>1
    <3> QED
        BY <1>11, <3>1, <3>2, <3>3, <3>4 DEF Owns
  <2>3. GivenIn(a, o, I)
      BY <1>10
  <2> HIDE DEF I, J, next
  <2> DEFINE given == a.objects[o].control_history
  <2>4. /\ Len(given) = Cardinality(I)
        /\ \A i \in I : /\ a.controls[i].execution_id = a.objects[o].execution_id
                        /\ given[Cardinality({j \in I : j <= i})] = a.controls[i]
      BY <2>3 DEF GivenIn
  <2>5. IsSeq(given)
      BY <1>2 DEF SessionType
  <2>6. \A i \in I : c.controls[i] = a.controls[i]
      BY <1>3, <1>5, <2>1
  <2>7. CASE o # s
    <3>1. J = I
        BY <2>2, <2>7
    <3>2. /\ c.objects[o].control_history = given
          /\ c.objects[o].execution_id = a.objects[o].execution_id
        BY <1>3, <1>7, <2>7
    <3> HIDE DEF given
    <3> QED
        BY <2>4, <2>6, <3>1, <3>2 DEF GivenIn, J
  <2>8. CASE o = s
    <3> DEFINE h == Append(given, op)
    <3>1. c.objects[o].control_history = h /\ c.objects[o].execution_id = op.execution_id
        BY <1>1, <1>2, <1>3, <1>7, <2>8
    <3>2. /\ Len(h) = Len(given) + 1 /\ \A i \in 1 .. Len(given) : h[i] = given[i]
          /\ h[Len(given) + 1] = op
        BY <2>5, AppendIs
    <3> HIDE DEF given, h
    <3>3. /\ Cardinality(J) = Cardinality(I) + 1
          /\ \A i \in I : /\ {j \in J : j <= i} = {j \in I : j <= i}
                          /\ Cardinality({j \in I : j <= i}) \in 1 .. Cardinality(I)
          /\ {j \in J : j <= m + 1} = J
        BY <1>1, <2>1, <2>2, <2>8, OneMore, ZenonT(40)
    <3>4. \A i \in I : h[Cardinality({j \in J : j <= i})] = c.controls[i]
        BY <2>4, <2>6, <3>2, <3>3
    <3>5. h[Cardinality({j \in J : j <= m + 1})] = c.controls[m + 1]
        BY <1>3, <1>5, <2>4, <3>2, <3>3
    <3>6. \A i \in I : c.controls[i].execution_id = c.objects[o].execution_id
        BY <1>3, <1>7, <2>4, <2>6
    <3>7. c.controls[m + 1].execution_id = c.objects[o].execution_id
        BY <1>3, <1>5, <3>1
    <3>8. \A i \in J : i \in I \/ i = m + 1
        BY <2>2, <2>8
    <3>9. Len(h) = Cardinality(J)
        BY <2>4, <3>2, <3>3
    <3>10. \A i \in J : /\ c.controls[i].execution_id = c.objects[o].execution_id
                        /\ h[Cardinality({j \in J : j <= i})] = c.controls[i]
        BY <3>4, <3>5, <3>6, <3>7, <3>8
    <3> QED
        BY <3>1, <3>9, <3>10 DEF GivenIn, J
  <2> QED
      BY <2>7, <2>8 DEF J
<1>13. AllGiven(c)
  <2>1. DOMAIN c.controls = 1 .. (m + 1) /\ Len(c.objects) = n
      BY <1>3, <1>5, <1>6
  <2> HIDE DEF next
  <2> QED
      BY <1>11, <1>12, <2>1 DEF AllGiven
<1> QED
    BY <1>3, <1>6, <1>7, <1>9, <1>13 DEF n

-----------------------------------------------------------------------------
(***************************************************************************)
(* Runs: what becomes of one that was begun.                               *)
(***************************************************************************)
RunFields ==
    {"thread", "execution_id", "step_index", "object", "number", "time", "pc", "plan",
     "next", "tools", "offered", "overlapped"}

RunType(run, n) ==
    /\ DOMAIN run = RunFields
    /\ run.execution_id \in AgentExecutions /\ run.step_index \in StepIndices
    /\ run.object \in 0 .. n /\ run.number \in Nat /\ run.next \in Nat
    /\ run.pc \in {"running", "publishing", "done", "failed"}

RunsType(runs, n) == IsSeq(runs) /\ \A r \in DOMAIN runs : RunType(runs[r], n)

\* What a run keeps from its beginning.
SameRun(u, v) ==
    /\ DOMAIN v = RunFields
    /\ v.execution_id = u.execution_id /\ v.step_index = u.step_index
    /\ v.object = u.object /\ v.number = u.number /\ v.overlapped = u.overlapped

\* Only the run r goes on, from runs to s.
OneMoves(runs, s, r) ==
    /\ IsSeq(s) /\ DOMAIN s = DOMAIN runs
    /\ \A q \in DOMAIN runs \ {r} : s[q] = runs[q]
    /\ SameRun(runs[r], s[r])

Returned(runs, r, pc, plan, tools_) ==
    [runs EXCEPT ![r].pc = pc, ![r].plan = plan, ![r].tools = tools_]

Refused(runs, r) == [runs EXCEPT ![r].pc = "done"]

Advanced(runs, r, pc) == [runs EXCEPT ![r].next = @ + 1, ![r].pc = pc]

LEMMA ReturnedIs ==
    ASSUME NEW runs, IsSeq(runs), NEW r \in DOMAIN runs, DOMAIN runs[r] = RunFields,
           NEW pc, NEW plan, NEW tools_, NEW s, s = Returned(runs, r, pc, plan, tools_)
    PROVE  /\ OneMoves(runs, s, r)
           /\ s[r].pc = pc /\ s[r].plan = plan /\ s[r].next = runs[r].next
<1> DEFINE u == runs[r]
           v == [u EXCEPT !.pc = pc, !.plan = plan, !.tools = tools_]
<1>1. /\ DOMAIN s = DOMAIN runs /\ s = [i \in DOMAIN runs |-> s[i]]
      /\ \A q \in DOMAIN runs \ {r} : s[q] = runs[q]
    BY DEF Returned
<1>2. s[r] = v
    BY DEF Returned
<1>3. IsSeq(s)
    BY <1>1, ExceptIs
<1> HIDE DEF u
<1>4. DOMAIN u = RunFields
    BY DEF u
<1>5. /\ DOMAIN v = RunFields /\ v.pc = pc /\ v.plan = plan /\ v.next = u.next
      /\ v.execution_id = u.execution_id /\ v.step_index = u.step_index
      /\ v.object = u.object /\ v.number = u.number /\ v.overlapped = u.overlapped
    BY <1>4 DEF RunFields
<1> HIDE DEF v
<1> QED
    BY <1>1, <1>2, <1>3, <1>5 DEF OneMoves, SameRun, u

LEMMA RefusedIs ==
    ASSUME NEW runs, IsSeq(runs), NEW r \in DOMAIN runs, DOMAIN runs[r] = RunFields,
           NEW s, s = Refused(runs, r)
    PROVE  /\ OneMoves(runs, s, r)
           /\ s[r].pc = "done" /\ s[r].plan = runs[r].plan /\ s[r].next = runs[r].next
<1> DEFINE u == runs[r]
           v == [u EXCEPT !.pc = "done"]
<1>1. /\ DOMAIN s = DOMAIN runs /\ s = [i \in DOMAIN runs |-> s[i]]
      /\ \A q \in DOMAIN runs \ {r} : s[q] = runs[q]
    BY DEF Refused
<1>2. s[r] = v
    BY DEF Refused
<1>3. IsSeq(s)
    BY <1>1, ExceptIs
<1> HIDE DEF u
<1>4. DOMAIN u = RunFields
    BY DEF u
<1>5. /\ DOMAIN v = RunFields /\ v.pc = "done" /\ v.plan = u.plan /\ v.next = u.next
      /\ v.execution_id = u.execution_id /\ v.step_index = u.step_index
      /\ v.object = u.object /\ v.number = u.number /\ v.overlapped = u.overlapped
    BY <1>4 DEF RunFields
<1> HIDE DEF v
<1> QED
    BY <1>1, <1>2, <1>3, <1>5 DEF OneMoves, SameRun, u

LEMMA AdvancedIs ==
    ASSUME NEW runs, IsSeq(runs), NEW r \in DOMAIN runs, DOMAIN runs[r] = RunFields,
           NEW pc, NEW s, s = Advanced(runs, r, pc)
    PROVE  /\ OneMoves(runs, s, r)
           /\ s[r].pc = pc /\ s[r].plan = runs[r].plan /\ s[r].next = runs[r].next + 1
<1> DEFINE u == runs[r]
           v == [u EXCEPT !.next = @ + 1, !.pc = pc]
<1>1. /\ DOMAIN s = DOMAIN runs /\ s = [i \in DOMAIN runs |-> s[i]]
      /\ \A q \in DOMAIN runs \ {r} : s[q] = runs[q]
    BY DEF Advanced
<1>2. s[r] = v
    BY DEF Advanced
<1>3. IsSeq(s)
    BY <1>1, ExceptIs
<1> HIDE DEF u
<1>4. DOMAIN u = RunFields
    BY DEF u
<1>5. /\ DOMAIN v = RunFields /\ v.pc = pc /\ v.plan = u.plan /\ v.next = u.next + 1
      /\ v.execution_id = u.execution_id /\ v.step_index = u.step_index
      /\ v.object = u.object /\ v.number = u.number /\ v.overlapped = u.overlapped
    BY <1>4 DEF RunFields
<1> HIDE DEF v
<1> QED
    BY <1>1, <1>2, <1>3, <1>5 DEF OneMoves, SameRun, u

RunsWith(runs, o) == {r \in DOMAIN runs : runs[r].object = o}

CountsAdd(runs, a) ==
    \A o \in 1 .. Len(a.objects) :
        /\ a.objects[o].step_count = Cardinality(RunsWith(runs, o))
        /\ {runs[r].number : r \in RunsWith(runs, o)} = 1 .. Cardinality(RunsWith(runs, o))

\* Whatever a run does, its session counts it as before.
LEMMA CountsStay ==
    ASSUME NEW runs, NEW s, DOMAIN s = DOMAIN runs,
           \A r \in DOMAIN runs : s[r].object = runs[r].object /\ s[r].number = runs[r].number,
           NEW a, NEW b, Len(b.objects) = Len(a.objects),
           \A o \in 1 .. Len(a.objects) : b.objects[o].step_count = a.objects[o].step_count,
           CountsAdd(runs, a)
    PROVE  CountsAdd(s, b)
<1> SUFFICES ASSUME NEW o \in 1 .. Len(a.objects)
             PROVE  /\ b.objects[o].step_count = Cardinality(RunsWith(s, o))
                    /\ {s[r].number : r \in RunsWith(s, o)} = 1 .. Cardinality(RunsWith(s, o))
    BY DEF CountsAdd
<1>1. RunsWith(s, o) = RunsWith(runs, o)
    BY DEF RunsWith
<1>2. {s[r].number : r \in RunsWith(s, o)} = {runs[r].number : r \in RunsWith(runs, o)}
    BY <1>1 DEF RunsWith
<1> QED
    BY <1>1, <1>2 DEF CountsAdd

\* A step that begins is numbered next by its session.
LEMMA CountsGrow ==
    ASSUME NEW a, AdapterType(a), NEW runs, RunsType(runs, Len(a.objects)), CountsAdd(runs, a),
           NEW x \in AgentExecutions, NEW k, NEW c, c = StepCounted(a, x, k),
           NEW run, run.object = c.current[x], run.number = c.objects[c.current[x]].step_count
    PROVE  CountsAdd(Append(runs, run), c)
<1> DEFINE s == Append(runs, run)
           n == Len(runs)
<1>1. IsSeq(runs) /\ n \in Nat /\ DOMAIN runs = 1 .. n /\ Len(a.objects) \in Nat
    BY SeqIs DEF RunsType, AdapterType
<1>2. /\ DOMAIN s = 1 .. (n + 1) /\ s[n + 1] = run
      /\ \A i \in 1 .. n : s[i] = runs[i]
    BY <1>1, AppendIs
<1>3. /\ c.current[x] \in 1 .. Len(c.objects)
      /\ \A o \in 1 .. Len(c.objects) :
            c.objects[o].step_count = CountIn(a, o) + (IF o = c.current[x] THEN 1 ELSE 0)
    BY CountedIs
<1> HIDE DEF s, n
<1> SUFFICES ASSUME NEW o \in 1 .. Len(c.objects)
             PROVE  /\ c.objects[o].step_count = Cardinality(RunsWith(s, o))
                    /\ {s[r].number : r \in RunsWith(s, o)} = 1 .. Cardinality(RunsWith(s, o))
    BY DEF CountsAdd, s
<1> DEFINE I == RunsWith(runs, o)
           J == RunsWith(s, o)
           m == Cardinality(I)
<1>4. I \in SUBSET (1 .. n)
    BY <1>1 DEF RunsWith
<1>5. /\ Cardinality(I \cup {n + 1}) = m + 1 /\ m \in Nat
    BY <1>1, <1>4, OneMore
<1>6. CountIn(a, o) = m /\ {runs[r].number : r \in I} = 1 .. m
  <2>1. CASE o \in 1 .. Len(a.objects)
      BY <2>1 DEF CountIn, CountsAdd
  <2>2. CASE o \notin 1 .. Len(a.objects)
    <3>1. I = {}
      <4>1. \A r \in DOMAIN runs : runs[r].object \in 0 .. Len(a.objects)
          BY DEF RunsType, RunType
      <4>2. o # 0
          BY <1>3
      <4> QED
          BY <1>1, <2>2, <4>1, <4>2 DEF RunsWith
    <3>2. m = 0
        BY <3>1, FS_EmptySet
    <3> HIDE DEF I, m
    <3> QED
        BY <2>2, <3>1, <3>2 DEF CountIn
  <2> QED
      BY <2>1, <2>2
<1>7. J = IF o = run.object THEN I \cup {n + 1} ELSE I
    BY <1>1, <1>2 DEF RunsWith
<1>8. \A r \in I : s[r].number = runs[r].number
    BY <1>2, <1>4
<1> HIDE DEF I, J, m
<1>9. CASE o # run.object
  <2>1. J = I /\ c.objects[o].step_count = m
      BY <1>3, <1>5, <1>6, <1>7, <1>9
  <2>2. {s[r].number : r \in J} = {runs[r].number : r \in I}
      BY <1>8, <2>1
  <2> QED
      BY <1>6, <2>1, <2>2 DEF J, m
<1>10. CASE o = run.object
  <2>1. J = I \cup {n + 1} /\ c.objects[o].step_count = m + 1 /\ Cardinality(J) = m + 1
      BY <1>3, <1>5, <1>6, <1>7, <1>10
  <2>2. s[n + 1].number = m + 1
      BY <1>2, <1>10, <2>1
  <2>3. {s[r].number : r \in J} = {runs[r].number : r \in I} \cup {m + 1}
      BY <1>8, <2>1, <2>2
  <2>4. 1 .. m \cup {m + 1} = 1 .. (m + 1)
      BY <1>5
  <2> QED
      BY <1>6, <2>1, <2>3, <2>4 DEF J
<1> QED
    BY <1>9, <1>10

-----------------------------------------------------------------------------
(***************************************************************************)
(* What an action does to the runs.                                        *)
(***************************************************************************)
Ended == {"done", "failed"}

Overlaps(runs, x) == \E r \in DOMAIN runs : runs[r].execution_id = x /\ runs[r].pc \notin Ended

\* A run of step k of x that begins with the session x has in b.
Starts(run, x, k, b) ==
    /\ DOMAIN run = RunFields
    /\ run.execution_id = x /\ run.step_index = k
    /\ run.object = b.current[x] /\ run.number = b.objects[b.current[x]].step_count
    /\ run.next \in {1, 2}

LEMMA NewRunIs ==
    ASSUME NEW t, NEW x, NEW k, NEW b, NEW time
    PROVE  LET run == NewRun(t, x, k, b, time)
           IN /\ Starts(run, x, k, b) /\ run.pc = "running" /\ run.plan = <<>>
              /\ run.next = 1 /\ run.overlapped = Overlaps(agent_runs, x)
<1> DEFINE run == NewRun(t, x, k, b, time)
           overlapped == Overlaps(agent_runs, x)
<1>1. overlapped = \E r \in DOMAIN agent_runs :
                      /\ agent_runs[r].execution_id = x
                      /\ agent_runs[r].pc \notin {"done", "failed"}
    BY DEF Overlaps, Ended
<1>2. run = [thread |-> t, execution_id |-> x, step_index |-> k,
             object |-> b.current[x], number |-> b.objects[b.current[x]].step_count,
             time |-> time, pc |-> "running", plan |-> <<>>, next |-> 1, tools |-> NoAgent,
             offered |-> <<>>, overlapped |-> overlapped]
    BY <1>1, Zenon DEF NewRun
<1> HIDE DEF run, overlapped
<1>3. /\ DOMAIN run = RunFields
      /\ run.execution_id = x /\ run.step_index = k
      /\ run.object = b.current[x] /\ run.number = b.objects[b.current[x]].step_count
      /\ run.next = 1 /\ run.pc = "running" /\ run.plan = <<>>
    BY <1>2 DEF RunFields
<1>4. run.overlapped = overlapped
    BY <1>2
<1>5. Starts(run, x, k, b)
    BY <1>3 DEF Starts
<1> QED
    BY <1>3, <1>4, <1>5 DEF run, overlapped

LEMMA BeginStepIs ==
    ASSUME NEW t, NEW x, NEW k, NEW o, NEW time, BeginStep(t, x, k, o, time)
    PROVE  \E run : /\ Starts(run, x, k, adapter') /\ run.pc = "running" /\ run.plan = <<>>
                    /\ run.next = 1 /\ run.overlapped = Overlaps(agent_runs, x)
                    /\ agent_runs' = Append(agent_runs, run)
<1> DEFINE b == adapter'
           u == NewRun(t, x, k, b, time)
           v == [u EXCEPT !.offered = o]
<1>1. /\ Starts(u, x, k, b) /\ u.pc = "running" /\ u.plan = <<>>
      /\ u.next = 1 /\ u.overlapped = Overlaps(agent_runs, x)
    BY NewRunIs
<1>2. agent_runs' = Append(agent_runs, v)
    BY DEF BeginStep
<1> HIDE DEF u, b
<1>3. /\ Starts(v, x, k, b) /\ v.pc = "running" /\ v.plan = <<>>
      /\ v.next = 1 /\ v.overlapped = Overlaps(agent_runs, x)
    BY <1>1 DEF Starts, RunFields
<1> HIDE DEF v
<1> QED
    BY <1>2, <1>3 DEF b

\* What becomes of the one event a reference step publishes.
TellsOne(run, e, r) ==
    \/ (run.plan = <<>> \/ Refuses(e)) /\ run.next = 1 /\ told' = told
    \/ run.plan # <<>> /\ Repeats(e) /\ run.next = 2 /\ told' = told
    \/ /\ run.plan # <<>> /\ Accepts(e) /\ run.next = 2
       /\ \E raised \in Raises : told' = Accepted(e, r, raised)

LEMMA ReferenceStepIs ==
    ASSUME NEW t, NEW x, NEW k, NEW o, NEW time, ReferenceStep(t, x, k, o, time)
    PROVE  \E run : /\ Starts(run, x, k, adapter') /\ run.pc = "done"
                    /\ run.plan = IF agent_bus = "none" THEN <<>>
                                  ELSE <<StepCompleted(x, k, time)>>
                    /\ run.overlapped = Overlaps(agent_runs, x)
                    /\ agent_runs' = Append(agent_runs, run)
                    /\ TellsOne(run, Numbered(run.plan[1], run.object), Len(agent_runs) + 1)
<1> DEFINE b == adapter'
           u == NewRun(t, x, k, b, time)
           plan == IF agent_bus = "none" THEN <<>> ELSE <<StepCompleted(x, k, time)>>
           tools_ == reference_response(setup.presets, k, o)
           v == [u EXCEPT !.plan = plan, !.pc = "done", !.tools = tools_]
           w == [v EXCEPT !.next = 2]
           e == Numbered(v.plan[1], v.object)
           r == Len(agent_runs) + 1
<1>1. /\ Starts(u, x, k, b) /\ u.pc = "running" /\ u.plan = <<>>
      /\ u.next = 1 /\ u.overlapped = Overlaps(agent_runs, x)
    BY NewRunIs
<1>2. \/ /\ v.plan = <<>> \/ Refuses(e)
         /\ agent_runs' = Append(agent_runs, v) /\ told' = told
      \/ /\ v.plan # <<>> /\ Repeats(e)
         /\ agent_runs' = Append(agent_runs, w) /\ told' = told
      \/ /\ v.plan # <<>> /\ Accepts(e)
         /\ agent_runs' = Append(agent_runs, w)
         /\ \E raised \in Raises : told' = Accepted(e, r, raised)
    BY Zenon DEF ReferenceStep, reference_events
<1> HIDE DEF u, b, plan, tools_
<1>3. /\ Starts(v, x, k, b) /\ v.pc = "done" /\ v.plan = plan /\ v.next = 1
      /\ v.overlapped = Overlaps(agent_runs, x)
    BY <1>1 DEF Starts, RunFields
<1> HIDE DEF v
<1>4. /\ Starts(w, x, k, b) /\ w.pc = "done" /\ w.plan = plan /\ w.next = 2
      /\ w.overlapped = Overlaps(agent_runs, x) /\ w.object = v.object
    BY <1>3 DEF Starts, RunFields
<1> HIDE DEF w
<1>5. CASE (v.plan = <<>> \/ Refuses(e)) /\ agent_runs' = Append(agent_runs, v) /\ told' = told
  <2>1. TellsOne(v, e, r)
      BY <1>3, <1>5 DEF TellsOne
  <2> QED
      BY <1>3, <1>5, <2>1 DEF b, plan
<1>6. ASSUME v.plan # <<>>, agent_runs' = Append(agent_runs, w),
             \/ Repeats(e) /\ told' = told
             \/ Accepts(e) /\ \E raised \in Raises : told' = Accepted(e, r, raised)
      PROVE  \E run : /\ Starts(run, x, k, adapter') /\ run.pc = "done" /\ run.plan = plan
                      /\ run.overlapped = Overlaps(agent_runs, x)
                      /\ agent_runs' = Append(agent_runs, run)
                      /\ TellsOne(run, Numbered(run.plan[1], run.object), Len(agent_runs) + 1)
  <2>1. e = Numbered(w.plan[1], w.object) /\ w.plan # <<>>
      BY <1>3, <1>4, <1>6
  <2> HIDE DEF e
  <2>2. TellsOne(w, e, r)
      BY <1>4, <1>6, <2>1 DEF TellsOne
  <2> QED
      BY <1>4, <1>6, <2>1, <2>2 DEF b
<1> QED
    BY <1>2, <1>5, <1>6 DEF plan

\* The transport of r gave the result.
Plan(r, result) ==
    IF result.error # NoAgent \/ agent_bus = "none" THEN <<>>
    ELSE events(agent_runs[r].execution_id, agent_runs[r].step_index, agent_runs[r].time,
                result.out)

LEMMA TransportReturnedIs ==
    ASSUME NEW n, RunsType(agent_runs, n), NEW r \in DOMAIN agent_runs, NEW result,
           TransportReturned(r, result)
    PROVE  /\ OneMoves(agent_runs, agent_runs', r)
           /\ agent_runs'[r].next = agent_runs[r].next
           /\ agent_runs'[r].plan = Plan(r, result)
           /\ agent_runs'[r].pc = IF result.error # NoAgent THEN "failed"
                                  ELSE IF Plan(r, result) = <<>> THEN "done" ELSE "publishing"
<1> DEFINE run == agent_runs[r]
           plan == Plan(r, result)
           pc == IF result.error # NoAgent THEN "failed"
                 ELSE IF plan = <<>> THEN "done" ELSE "publishing"
           tools_ == IF result.error # NoAgent THEN NoAgent
                     ELSE response(result.out, run.offered)
<1>1. agent_runs' = Returned(agent_runs, r, pc, plan, tools_)
    BY Zenon DEF TransportReturned, Plan, Returned
<1>2. IsSeq(agent_runs) /\ DOMAIN agent_runs[r] = RunFields
    BY DEF RunsType, RunType
<1> HIDE DEF plan, pc, tools_
<1>3. /\ OneMoves(agent_runs, agent_runs', r)
      /\ agent_runs'[r].pc = pc /\ agent_runs'[r].plan = plan
      /\ agent_runs'[r].next = agent_runs[r].next
    BY <1>1, <1>2, ReturnedIs
<1> QED
    BY <1>3 DEF pc, plan

\* The event r publishes next.
Due(r) == Numbered(agent_runs[r].plan[agent_runs[r].next], agent_runs[r].object)

\* The run r is past the event that was due.
Passes(r, cut) ==
    /\ agent_runs'[r].next = agent_runs[r].next + 1
    /\ agent_runs'[r].pc = IF cut \/ agent_runs[r].next = Len(agent_runs[r].plan)
                           THEN "done" ELSE "publishing"

LEMMA PublishedIs ==
    ASSUME NEW n, RunsType(agent_runs, n), NEW r \in DOMAIN agent_runs, NEW cut \in BOOLEAN,
           agent_runs[r].pc = "publishing", Published(r, cut)
    PROVE  /\ OneMoves(agent_runs, agent_runs', r)
           /\ agent_runs'[r].plan = agent_runs[r].plan /\ Passes(r, cut)
<1> DEFINE run == agent_runs[r]
           ends == cut \/ run.next = Len(run.plan)
           pc == IF ends THEN "done" ELSE "publishing"
<1>1. IsSeq(agent_runs) /\ DOMAIN run = RunFields
    BY DEF RunsType, RunType
<1>2. agent_runs' = [agent_runs EXCEPT ![r].next = @ + 1,
                                       ![r].pc = IF ends THEN "done" ELSE @]
    BY DEF Published
<1> HIDE DEF ends
<1>3. agent_runs' = Advanced(agent_runs, r, pc)
  <2>1. CASE ends
      BY <1>2, <2>1 DEF Advanced
  <2>2. CASE ~ends
    <3>1. agent_runs' = [agent_runs EXCEPT ![r].next = @ + 1, ![r].pc = @]
        BY <1>2, <2>2
    <3>2. Advanced(agent_runs, r, pc) = [agent_runs EXCEPT ![r].next = @ + 1,
                                                          ![r].pc = "publishing"]
        BY <2>2 DEF Advanced
    <3> QED
        BY <1>1, <3>1, <3>2 DEF RunFields
  <2> QED
      BY <2>1, <2>2
<1> HIDE DEF pc
<1>4. /\ OneMoves(agent_runs, agent_runs', r)
      /\ agent_runs'[r].pc = pc /\ agent_runs'[r].plan = run.plan
      /\ agent_runs'[r].next = run.next + 1
    BY <1>1, <1>3, AdvancedIs
<1> QED
    BY <1>4 DEF pc, ends, Passes

LEMMA PublishNextIs ==
    ASSUME NEW n, RunsType(agent_runs, n), NEW r \in DOMAIN agent_runs, PublishNext(r)
    PROVE  /\ agent_runs[r].pc = "publishing"
           /\ OneMoves(agent_runs, agent_runs', r)
           /\ agent_runs'[r].plan = agent_runs[r].plan
           /\ agent_bus' = agent_bus
           /\ \/ /\ Refuses(Due(r)) /\ agent_runs'[r].pc = "done"
                 /\ agent_runs'[r].next = agent_runs[r].next
                 /\ UNCHANGED <<told, agent_observers>>
              \/ Repeats(Due(r)) /\ Passes(r, FALSE) /\ UNCHANGED <<told, agent_observers>>
              \/ \E raised \in Raises :
                    /\ Accepts(Due(r)) /\ told' = Accepted(Due(r), r, raised)
                    /\ Observed(Due(r)) /\ Passes(r, raised)
<1> DEFINE run == agent_runs[r]
<1>1. IsSeq(agent_runs) /\ DOMAIN run = RunFields
    BY DEF RunsType, RunType
<1>2. run.pc = "publishing" /\ agent_bus' = agent_bus
    BY DEF PublishNext
<1>3. CASE /\ Refuses(Due(r)) /\ UNCHANGED <<told, agent_observers>>
           /\ agent_runs' = Refused(agent_runs, r)
  <2>1. /\ OneMoves(agent_runs, agent_runs', r)
        /\ agent_runs'[r].pc = "done" /\ agent_runs'[r].plan = run.plan
        /\ agent_runs'[r].next = run.next
      BY <1>1, <1>3, RefusedIs
  <2> QED
      BY <1>2, <1>3, <2>1
<1>4. CASE Repeats(Due(r)) /\ Published(r, FALSE) /\ UNCHANGED <<told, agent_observers>>
  <2>1. /\ OneMoves(agent_runs, agent_runs', r)
        /\ agent_runs'[r].plan = run.plan /\ Passes(r, FALSE)
      BY <1>2, <1>4, PublishedIs
  <2> QED
      BY <1>2, <1>4, <2>1
<1>5. ASSUME NEW raised \in Raises, Accepts(Due(r)), told' = Accepted(Due(r), r, raised),
             Published(r, raised), Observed(Due(r))
      PROVE  /\ OneMoves(agent_runs, agent_runs', r)
             /\ agent_runs'[r].plan = run.plan /\ Passes(r, raised)
    BY <1>2, <1>5, PublishedIs DEF Raises
<1>6. \/ /\ Refuses(Due(r)) /\ UNCHANGED <<told, agent_observers>>
         /\ agent_runs' = Refused(agent_runs, r)
      \/ Repeats(Due(r)) /\ Published(r, FALSE) /\ UNCHANGED <<told, agent_observers>>
      \/ \E raised \in Raises : /\ Accepts(Due(r)) /\ told' = Accepted(Due(r), r, raised)
                                /\ Published(r, raised) /\ Observed(Due(r))
    BY Zenon DEF PublishNext, Due, Refused
<1>7. CASE \E raised \in Raises : /\ Accepts(Due(r)) /\ told' = Accepted(Due(r), r, raised)
                                 /\ Published(r, raised) /\ Observed(Due(r))
  <2>1. PICK raised \in Raises : /\ Accepts(Due(r)) /\ told' = Accepted(Due(r), r, raised)
                                 /\ Published(r, raised) /\ Observed(Due(r))
      BY <1>7
  <2>2. /\ OneMoves(agent_runs, agent_runs', r)
        /\ agent_runs'[r].plan = run.plan /\ Passes(r, raised)
      BY <1>5, <2>1
  <2> QED
      BY <1>2, <2>1, <2>2
<1> QED
    BY <1>3, <1>4, <1>6, <1>7

-----------------------------------------------------------------------------
(***************************************************************************)
(* The sessions count the runs and hold the controls.                      *)
(***************************************************************************)
SessionInv ==
    /\ setup \in AgentSetups
    /\ AdapterType(adapter)
    /\ RunsType(agent_runs, Len(adapter.objects))
    /\ CountsAdd(agent_runs, adapter)
    /\ AllGiven(adapter)

LEMMA SessionsBegin == AgentInit => SessionInv
<1> SUFFICES ASSUME AgentInit PROVE SessionInv
    OBVIOUS
<1>1. setup \in AgentSetups /\ adapter = NoSessions /\ agent_runs = <<>>
    BY DEF AgentInit
<1>2. AdapterType(adapter) /\ Len(adapter.objects) = 0
    BY <1>1, NoSessionsAre
<1>3. RunsType(agent_runs, Len(adapter.objects))
    BY <1>1, EmptyIs DEF RunsType
<1>4. CountsAdd(agent_runs, adapter)
    BY <1>2 DEF CountsAdd
<1>5. AllGiven(adapter)
    BY <1>1, NothingGiven DEF NoSessions
<1> QED
    BY <1>1, <1>2, <1>3, <1>4, <1>5 DEF SessionInv

LEMMA StartIsCounted ==
    ASSUME SessionInv, NEW x \in AgentExecutions, NEW k \in StepIndices, NEW run,
           setup' = setup, adapter' = StepCounted(adapter, x, k), Starts(run, x, k, adapter'),
           run.pc \in {"running", "done"}, agent_runs' = Append(agent_runs, run)
    PROVE  SessionInv'
<1> DEFINE a == adapter
           b == adapter'
           n == Len(agent_runs)
<1>1. /\ AdapterType(a) /\ RunsType(agent_runs, Len(a.objects)) /\ CountsAdd(agent_runs, a)
      /\ AllGiven(a) /\ setup \in AgentSetups /\ IsSeq(agent_runs)
    BY DEF SessionInv, RunsType
<1>2. /\ AdapterType(b) /\ Kept(a, b)
      /\ b.current[x] \in 1 .. Len(b.objects)
    BY <1>1, CountedIs
<1>3. /\ Len(a.objects) \in Nat /\ Len(b.objects) \in Nat /\ Len(a.objects) <= Len(b.objects)
      /\ n \in Nat /\ DOMAIN agent_runs = 1 .. n
    BY <1>1, <1>2, SeqIs DEF AdapterType, Kept
<1>4. AllGiven(b)
    BY <1>1, <1>2, KeptIsGiven
<1>5. CountsAdd(agent_runs', b)
  <2>1. run.object = b.current[x] /\ run.number = b.objects[b.current[x]].step_count
      BY DEF Starts
  <2> QED
      BY <1>1, <2>1, CountsGrow
<1>6. RunType(run, Len(b.objects))
  <2>1. b.objects[b.current[x]].step_count \in Nat
      BY <1>2 DEF AdapterType, SessionType
  <2>2. b.current[x] \in 0 .. Len(b.objects)
      BY <1>2, <1>3
  <2> QED
      BY <2>1, <2>2 DEF Starts, RunType
<1>7. RunsType(agent_runs', Len(b.objects))
  <2>1. /\ IsSeq(agent_runs') /\ DOMAIN agent_runs' = 1 .. (n + 1)
        /\ agent_runs'[n + 1] = run
        /\ \A i \in 1 .. n : agent_runs'[i] = agent_runs[i]
      BY <1>1, AppendIs
  <2>2. \A i \in 1 .. n : RunType(agent_runs[i], Len(b.objects))
    <3>1. \A i \in 1 .. n : RunType(agent_runs[i], Len(a.objects))
        BY <1>1, <1>3 DEF RunsType
    <3>2. 0 .. Len(a.objects) \subseteq 0 .. Len(b.objects)
        BY <1>3
    <3> QED
        BY <3>1, <3>2 DEF RunType
  <2>3. \A i \in 1 .. (n + 1) : i \in 1 .. n \/ i = n + 1
      BY <1>3
  <2> QED
      BY <1>6, <2>1, <2>2, <2>3 DEF RunsType
<1> QED
    BY <1>1, <1>2, <1>4, <1>5, <1>7 DEF SessionInv

LEMMA MoveIsCounted ==
    ASSUME SessionInv, NEW r \in DOMAIN agent_runs, setup' = setup, adapter' = adapter,
           OneMoves(agent_runs, agent_runs', r), agent_runs'[r].next \in Nat,
           agent_runs'[r].pc \in {"running", "publishing", "done", "failed"}
    PROVE  SessionInv'
<1>1. /\ AdapterType(adapter) /\ RunsType(agent_runs, Len(adapter.objects))
      /\ CountsAdd(agent_runs, adapter) /\ AllGiven(adapter) /\ setup \in AgentSetups
    BY DEF SessionInv
<1>2. \A q \in DOMAIN agent_runs : SameRun(agent_runs[q], agent_runs'[q])
  <2>1. \A q \in DOMAIN agent_runs : SameRun(agent_runs[q], agent_runs[q])
      BY <1>1 DEF RunsType, RunType, SameRun
  <2> QED
      BY <2>1 DEF OneMoves
<1>3. CountsAdd(agent_runs', adapter)
  <2>1. DOMAIN agent_runs' = DOMAIN agent_runs
      BY DEF OneMoves
  <2>2. \A q \in DOMAIN agent_runs : /\ agent_runs'[q].object = agent_runs[q].object
                                     /\ agent_runs'[q].number = agent_runs[q].number
      BY <1>2 DEF SameRun
  <2> QED
      BY <1>1, <2>1, <2>2, CountsStay
<1>4. RunsType(agent_runs', Len(adapter.objects))
  <2>1. \A q \in DOMAIN agent_runs \ {r} : RunType(agent_runs'[q], Len(adapter.objects))
      BY <1>1 DEF OneMoves, RunsType
  <2>2. RunType(agent_runs'[r], Len(adapter.objects))
      BY <1>1, <1>2 DEF RunsType, RunType, SameRun
  <2> QED
      BY <2>1, <2>2 DEF OneMoves, RunsType
<1> QED
    BY <1>1, <1>3, <1>4 DEF SessionInv

\* The session objects change and the runs do not.
LEMMA SessionsChange ==
    ASSUME SessionInv, setup' = setup, agent_runs' = agent_runs,
           AdapterType(adapter'), AllGiven(adapter'),
           Len(adapter.objects) <= Len(adapter'.objects),
           \A o \in 1 .. Len(adapter'.objects) :
              adapter'.objects[o].step_count = CountIn(adapter, o)
    PROVE  SessionInv'
<1> DEFINE a == adapter
           b == adapter'
<1>1. /\ AdapterType(a) /\ RunsType(agent_runs, Len(a.objects))
      /\ CountsAdd(agent_runs, a) /\ setup \in AgentSetups
    BY DEF SessionInv
<1>2. /\ Len(a.objects) \in Nat /\ Len(b.objects) \in Nat
    BY <1>1, SeqIs DEF AdapterType
<1>3. \A r \in DOMAIN agent_runs : agent_runs[r].object \in 0 .. Len(a.objects)
    BY <1>1 DEF RunsType, RunType
<1>4. RunsType(agent_runs, Len(b.objects))
  <2>1. 0 .. Len(a.objects) \subseteq 0 .. Len(b.objects)
      BY <1>2
  <2> QED
      BY <1>1, <2>1 DEF RunsType, RunType
<1>5. ASSUME NEW o \in 1 .. Len(b.objects)
      PROVE  /\ b.objects[o].step_count = Cardinality(RunsWith(agent_runs, o))
             /\ {agent_runs[r].number : r \in RunsWith(agent_runs, o)}
                  = 1 .. Cardinality(RunsWith(agent_runs, o))
  <2> DEFINE I == RunsWith(agent_runs, o)
  <2>1. CASE o \in 1 .. Len(a.objects)
      BY <1>1, <2>1 DEF CountsAdd, CountIn
  <2>2. CASE o \notin 1 .. Len(a.objects)
    <3>1. I = {}
      <4>1. o # 0
          BY <1>2
      <4> QED
          BY <1>2, <1>3, <2>2, <4>1 DEF RunsWith
    <3>2. Cardinality(I) = 0 /\ b.objects[o].step_count = 0
        BY <2>2, <3>1, FS_EmptySet DEF CountIn
    <3> HIDE DEF I
    <3> QED
        BY <3>1, <3>2 DEF I
  <2> QED
      BY <2>1, <2>2
<1>6. CountsAdd(agent_runs', b)
    BY <1>5 DEF CountsAdd
<1> QED
    BY <1>1, <1>4, <1>6 DEF SessionInv

LEMMA ClearIsCounted ==
    ASSUME SessionInv, setup' = setup, adapter' = NoSessions,
           agent_runs' = [r \in DOMAIN agent_runs |-> [agent_runs[r] EXCEPT !.object = 0]]
    PROVE  SessionInv'
<1>1. AdapterType(adapter') /\ Len(adapter'.objects) = 0
    BY NoSessionsAre
<1>2. AllGiven(adapter')
    BY NothingGiven DEF NoSessions
<1>3. CountsAdd(agent_runs', adapter')
    BY <1>1 DEF CountsAdd
<1>4. RunsType(agent_runs, Len(adapter.objects)) /\ setup \in AgentSetups
    BY DEF SessionInv
<1>5. DOMAIN agent_runs' = DOMAIN agent_runs
    OBVIOUS
<1>6. IsSeq(agent_runs')
    BY <1>4, ExceptIs DEF RunsType
<1>7. ASSUME NEW r \in DOMAIN agent_runs
      PROVE  RunType(agent_runs'[r], 0)
  <2> DEFINE u == agent_runs[r]
             v == [u EXCEPT !.object = 0]
  <2>1. RunType(u, Len(adapter.objects)) /\ agent_runs'[r] = v
      BY <1>4 DEF RunsType
  <2> HIDE DEF u
  <2>2. RunType(v, 0)
      BY <2>1 DEF RunType, RunFields
  <2> QED
      BY <2>1, <2>2
<1>8. RunsType(agent_runs', 0)
    BY <1>5, <1>6, <1>7 DEF RunsType
<1> QED
    BY <1>1, <1>2, <1>3, <1>4, <1>8 DEF SessionInv

LEMMA AttachIsCounted ==
    ASSUME SessionInv, NEW x \in AgentExecutions, setup' = setup, agent_runs' = agent_runs,
           adapter' = SessionAttached(adapter, x)
    PROVE  SessionInv'
<1> DEFINE a == adapter
           b == adapter'
<1>1. AdapterType(a) /\ AllGiven(a)
    BY DEF SessionInv
<1>2. /\ AdapterType(b) /\ Kept(a, b) /\ Len(b.objects) = Len(a.objects) + 1
      /\ b.objects[Len(a.objects) + 1].step_count = 0
      /\ \A o \in 1 .. Len(a.objects) : b.objects[o] = a.objects[o]
    BY <1>1, AttachedIs
<1>3. Len(a.objects) \in Nat
    BY <1>1, SeqIs DEF AdapterType
<1>4. AllGiven(b)
    BY <1>1, <1>2, KeptIsGiven
<1>5. \A o \in 1 .. Len(b.objects) : b.objects[o].step_count = CountIn(a, o)
    BY <1>2, <1>3 DEF CountIn
<1>6. Len(a.objects) <= Len(b.objects)
    BY <1>2, <1>3
<1> QED
    BY <1>2, <1>4, <1>5, <1>6, SessionsChange

LEMMA DetachIsCounted ==
    ASSUME SessionInv, NEW x \in AgentExecutions, setup' = setup, agent_runs' = agent_runs,
           adapter' = SessionDetached(adapter, x)
    PROVE  SessionInv'
<1> DEFINE a == adapter
           b == adapter'
<1>1. AdapterType(a) /\ AllGiven(a)
    BY DEF SessionInv
<1>2. /\ AdapterType(b) /\ Kept(a, b) /\ Len(b.objects) = Len(a.objects)
      /\ \A o \in 1 .. Len(a.objects) : b.objects[o].step_count = a.objects[o].step_count
    BY <1>1, DetachedIs
<1>3. Len(a.objects) \in Nat
    BY <1>1, SeqIs DEF AdapterType
<1>4. AllGiven(b)
    BY <1>1, <1>2, KeptIsGiven
<1>5. \A o \in 1 .. Len(b.objects) : b.objects[o].step_count = CountIn(a, o)
    BY <1>2, <1>3 DEF CountIn
<1>6. Len(a.objects) <= Len(b.objects)
    BY <1>2, <1>3
<1> QED
    BY <1>2, <1>4, <1>5, <1>6, SessionsChange

LEMMA ControlIsCounted ==
    ASSUME SessionInv, NEW op \in AgentControls, setup' = setup, agent_runs' = agent_runs,
           adapter' = ControlReceived(adapter, op)
    PROVE  SessionInv'
<1> DEFINE a == adapter
           b == adapter'
<1>1. AdapterType(a) /\ AllGiven(a) /\ op.execution_id \in AgentExecutions
    BY AgentAssumption DEF SessionInv
<1>2. /\ AdapterType(b) /\ AllGiven(b) /\ Len(b.objects) = Len(a.objects)
      /\ \A o \in 1 .. Len(a.objects) : b.objects[o].step_count = a.objects[o].step_count
    BY <1>1, ControlIs
<1>3. Len(a.objects) \in Nat
    BY <1>1, SeqIs DEF AdapterType
<1>5. \A o \in 1 .. Len(b.objects) : b.objects[o].step_count = CountIn(a, o)
    BY <1>2, <1>3 DEF CountIn
<1>6. Len(a.objects) <= Len(b.objects)
    BY <1>2, <1>3
<1> QED
    BY <1>2, <1>5, <1>6, SessionsChange

LEMMA ResultIsCounted ==
    ASSUME SessionInv, NEW r \in DOMAIN agent_runs, NEW result, TransportReturned(r, result),
           setup' = setup, adapter' = adapter
    PROVE  SessionInv'
<1>1. RunsType(agent_runs, Len(adapter.objects))
    BY DEF SessionInv
<1>2. /\ OneMoves(agent_runs, agent_runs', r)
      /\ agent_runs'[r].next = agent_runs[r].next
      /\ agent_runs'[r].pc = IF result.error # NoAgent THEN "failed"
                             ELSE IF Plan(r, result) = <<>> THEN "done" ELSE "publishing"
    BY <1>1, TransportReturnedIs
<1>3. agent_runs'[r].next \in Nat
    BY <1>1, <1>2 DEF RunsType, RunType
<1>4. agent_runs'[r].pc \in {"running", "publishing", "done", "failed"}
    BY <1>2
<1> QED
    BY <1>2, <1>3, <1>4, MoveIsCounted

LEMMA SessionsGoOn == SessionInv /\ [AgentNext]_<<agent_vars, agent_observers>> => SessionInv'
<1> SUFFICES ASSUME SessionInv, [AgentNext]_<<agent_vars, agent_observers>>
             PROVE  SessionInv'
    OBVIOUS
<1>0. setup \in AgentSetups /\ RunsType(agent_runs, Len(adapter.objects))
    BY DEF SessionInv
<1>1. ASSUME NEW t \in AgentThreads, NEW x \in AgentExecutions, NEW k \in StepIndices,
             NEW o \in Offers, NEW time \in Ticks, BeginStep(t, x, k, o, time)
      PROVE  SessionInv'
  <2>1. adapter' = StepCounted(adapter, x, k) /\ setup' = setup
      BY <1>0, <1>1, SessionsAreKept DEF BeginStep, Begun
  <2>2. PICK run : /\ Starts(run, x, k, adapter') /\ run.pc = "running"
                   /\ agent_runs' = Append(agent_runs, run)
      BY <1>1, BeginStepIs
  <2>3. run.pc \in {"running", "done"}
      BY <2>2
  <2> QED
      BY <2>1, <2>2, <2>3, StartIsCounted
<1>2. ASSUME NEW t \in AgentThreads, NEW x \in AgentExecutions, NEW k \in StepIndices,
             NEW o \in Offers, NEW time \in Ticks, ReferenceStep(t, x, k, o, time)
      PROVE  SessionInv'
  <2>1. adapter' = StepCounted(adapter, x, k) /\ setup' = setup
      BY <1>0, <1>2, SessionsAreKept DEF ReferenceStep, Begun
  <2>2. PICK run : /\ Starts(run, x, k, adapter') /\ run.pc = "done"
                   /\ agent_runs' = Append(agent_runs, run)
      BY <1>2, ReferenceStepIs
  <2>3. run.pc \in {"running", "done"}
      BY <2>2
  <2> QED
      BY <2>1, <2>2, <2>3, StartIsCounted
<1>3. ASSUME NEW r \in DOMAIN agent_runs, CliFails(r)
      PROVE  SessionInv'
  <2>1. PICK error : CliEnds(r, [error |-> error])
      BY <1>3 DEF CliFails
  <2>2. TransportReturned(r, [error |-> error]) /\ setup' = setup /\ adapter' = adapter
      BY <2>1 DEF CliEnds
  <2> QED
      BY <2>2, ResultIsCounted
<1>4. ASSUME NEW r \in DOMAIN agent_runs, NEW stdout \in Stdouts, CliAnswers(r, stdout)
      PROVE  SessionInv'
  <2>1. /\ TransportReturned(r, parse(stdout)) /\ setup' = setup /\ adapter' = adapter
      BY <1>4 DEF CliAnswers, CliEnds
  <2> QED
      BY <2>1, ResultIsCounted
<1>5. ASSUME NEW r \in DOMAIN agent_runs, HttpReturns(r)
      PROVE  SessionInv'
  <2>1. /\ TransportReturned(r, lovable_http_execute(setup.available))
        /\ setup' = setup /\ adapter' = adapter
      BY <1>5 DEF HttpReturns
  <2> QED
      BY <2>1, ResultIsCounted
<1>6. ASSUME NEW r \in DOMAIN agent_runs, ReferenceReturns(r)
      PROVE  SessionInv'
  <2>1. /\ TransportReturned(r, reference_execute(reference))
        /\ setup' = setup /\ adapter' = adapter
      BY <1>6 DEF ReferenceReturns
  <2> QED
      BY <2>1, ResultIsCounted
<1>7. ASSUME NEW r \in DOMAIN agent_runs, PublishNext(r)
      PROVE  SessionInv'
  <2>1. setup' = setup /\ adapter' = adapter
      BY <1>7 DEF PublishNext
  <2>2. /\ OneMoves(agent_runs, agent_runs', r)
        /\ agent_runs'[r].next \in {agent_runs[r].next, agent_runs[r].next + 1}
        /\ agent_runs'[r].pc \in {"done", "publishing"}
      BY <1>0, <1>7, PublishNextIs DEF Passes
  <2>3. agent_runs[r].next \in Nat
      BY <1>0 DEF RunsType, RunType
  <2> QED
      BY <2>1, <2>2, <2>3, MoveIsCounted
<1>8. ASSUME NEW x \in AgentExecutions, Attach(x)
      PROVE  SessionInv'
    BY <1>0, <1>8, SessionsAreKept, AttachIsCounted DEF Attach, Interferes
<1>9. ASSUME NEW x \in AgentExecutions, Detach(x)
      PROVE  SessionInv'
    BY <1>0, <1>9, SessionsAreKept, DetachIsCounted DEF Detach, Interferes
<1>10. ASSUME NEW op \in AgentControls, Control(op)
       PROVE  SessionInv'
  <2>1. setup' = setup /\ agent_runs' = agent_runs /\ adapter' = receive_control(adapter, op)
      BY <1>10 DEF Control, Interferes
  <2> QED
      BY <1>0, <2>1, SessionsAreKept, ControlIsCounted
<1>11. CASE attach_to_bus \/ CloseBus \/ ClearTransport \/ UNCHANGED <<agent_vars, agent_observers>>
  <2>1. setup' = setup /\ agent_runs' = agent_runs /\ adapter' = adapter
      BY <1>11 DEF attach_to_bus, CloseBus, ClearTransport, Interferes, agent_vars
  <2> QED
      BY <2>1 DEF SessionInv
<1>12. CASE ClearReference
    BY <1>12, ClearIsCounted DEF ClearReference, Interferes, reference_clear
<1> QED
    BY <1>1, <1>2, <1>3, <1>4, <1>5, <1>6, <1>7, <1>8, <1>9, <1>10, <1>11, <1>12
       DEF AgentNext

\* However threads interleave, a session object counts the steps that began with
\* it and numbers each of them once, and every control is held by one session of
\* its execution, in order.
THEOREM SessionsAreCounted == AgentSpec => []SessionsAdd
<1>1. SessionInv => SessionsAdd
  <2> SUFFICES ASSUME SessionInv PROVE SessionsAdd
      OBVIOUS
  <2>1. /\ CountsAdd(agent_runs, adapter) /\ AllGiven(adapter)
        /\ DOMAIN adapter.objects = 1 .. Len(adapter.objects)
      BY SeqIs DEF SessionInv, AdapterType
  <2>2. \A o \in DOMAIN adapter.objects :
          /\ adapter.objects[o].step_count = Cardinality(RunsOf(o))
          /\ {agent_runs[r].number : r \in RunsOf(o)} = 1 .. Cardinality(RunsOf(o))
      BY <2>1 DEF CountsAdd, RunsWith, RunsOf
  <2>3. \E owner \in [DOMAIN adapter.controls -> 0 .. Len(adapter.objects)] :
          \A o \in DOMAIN adapter.objects : Given(o, {i \in DOMAIN owner : owner[i] = o})
      BY <2>1, ZenonT(40) DEF AllGiven, GivenIn, Given, Owns
  <2> QED
      BY <2>2, <2>3 DEF SessionsAdd
<1> QED
    BY <1>1, SessionsBegin, SessionsGoOn, PTL DEF AgentSpec

-----------------------------------------------------------------------------
(***************************************************************************)
(* The processes are of runs that run, and one that was killed fails.      *)
(***************************************************************************)
UsesCli == setup.transport = "cli" /\ setup.available

ProcessesOf(p, runs, cli) ==
    /\ DOMAIN p = {"active", "terminated", "killed"} /\ DOMAIN p.active = AgentExecutions
    /\ \A x \in AgentExecutions : p.active[x] # NoAgent =>
         /\ cli /\ p.active[x] \in DOMAIN runs
         /\ runs[p.active[x]].pc = "running" /\ runs[p.active[x]].execution_id = x
    /\ \A r \in p.killed : /\ cli /\ r \in DOMAIN runs
                           /\ runs[r].pc \in {"running", "failed"}

LEMMA NoProcessesAre ==
    ASSUME NEW runs, NEW cli
    PROVE  ProcessesOf(NoProcesses, runs, cli)
BY DEF NoProcesses, ProcessesOf

\* No run of a process stops to run, and no run is taken away.
LEMMA ProcessesStay ==
    ASSUME NEW p, NEW runs, NEW cli, ProcessesOf(p, runs, cli), NEW s,
           DOMAIN runs \subseteq DOMAIN s,
           \A r \in DOMAIN runs : /\ s[r].execution_id = runs[r].execution_id
                                  /\ s[r].pc = runs[r].pc \/ runs[r].pc = "publishing"
    PROVE  ProcessesOf(p, s, cli)
<1>1. \A x \in AgentExecutions : p.active[x] # NoAgent =>
         /\ cli /\ p.active[x] \in DOMAIN s
         /\ s[p.active[x]].pc = "running" /\ s[p.active[x]].execution_id = x
    BY DEF ProcessesOf
<1>2. \A r \in p.killed : cli /\ r \in DOMAIN s /\ s[r].pc \in {"running", "failed"}
    BY DEF ProcessesOf
<1> QED
    BY <1>1, <1>2 DEF ProcessesOf

LEMMA RegisteredIs ==
    ASSUME NEW p, NEW runs, NEW cli, cli, ProcessesOf(p, runs, cli), NEW x \in AgentExecutions,
           NEW r \in DOMAIN runs, runs[r].pc = "running", runs[r].execution_id = x
    PROVE  ProcessesOf(ProcessRegistered(p, x, r), runs, cli)
<1> DEFINE q == ProcessRegistered(p, x, r)
           active == [p.active EXCEPT ![x] = r]
<1>1. DOMAIN p = {"active", "terminated", "killed"} /\ DOMAIN p.active = AgentExecutions
    BY DEF ProcessesOf
<1>2. /\ DOMAIN q = {"active", "terminated", "killed"} /\ q.active = active
      /\ q.killed = p.killed
  <2>1. q = [p EXCEPT !.active[x] = r]
      BY DEF ProcessRegistered
  <2> HIDE DEF q
  <2> QED
      BY <1>1, <2>1
<1>3. DOMAIN active = AgentExecutions /\ active[x] = r
    BY <1>1
<1>4. \A y \in AgentExecutions \ {x} : active[y] = p.active[y]
    BY <1>1
<1> HIDE DEF q, active
<1>5. \A y \in AgentExecutions : q.active[y] # NoAgent =>
         /\ cli /\ q.active[y] \in DOMAIN runs
         /\ runs[q.active[y]].pc = "running" /\ runs[q.active[y]].execution_id = y
    BY <1>2, <1>3, <1>4 DEF ProcessesOf
<1>6. ProcessesOf(q, runs, cli)
    BY <1>2, <1>3, <1>5 DEF ProcessesOf
<1> QED
    BY <1>6 DEF q

LEMMA ForgottenIs ==
    ASSUME NEW p, NEW runs, NEW cli, ProcessesOf(p, runs, cli), NEW x \in AgentExecutions
    PROVE  LET q == ProcessForgotten(p, x)
           IN ProcessesOf(q, runs, cli) /\ q.active[x] = NoAgent /\ q.killed = p.killed
<1> DEFINE q == ProcessForgotten(p, x)
           active == [p.active EXCEPT ![x] = NoAgent]
<1>1. DOMAIN p = {"active", "terminated", "killed"} /\ DOMAIN p.active = AgentExecutions
    BY DEF ProcessesOf
<1>2. /\ DOMAIN q = {"active", "terminated", "killed"} /\ q.active = active
      /\ q.killed = p.killed
  <2>1. q = [p EXCEPT !.active[x] = NoAgent]
      BY DEF ProcessForgotten
  <2> HIDE DEF q
  <2> QED
      BY <1>1, <2>1
<1>3. DOMAIN active = AgentExecutions /\ active[x] = NoAgent
    BY <1>1
<1>4. \A y \in AgentExecutions \ {x} : active[y] = p.active[y]
    BY <1>1
<1> HIDE DEF q, active
<1>5. \A y \in AgentExecutions : q.active[y] # NoAgent =>
         /\ cli /\ q.active[y] \in DOMAIN runs
         /\ runs[q.active[y]].pc = "running" /\ runs[q.active[y]].execution_id = y
    BY <1>2, <1>3, <1>4 DEF ProcessesOf
<1>6. ProcessesOf(q, runs, cli)
    BY <1>2, <1>3, <1>5 DEF ProcessesOf
<1> QED
    BY <1>2, <1>3, <1>6 DEF q

\* A signal reaches the process that is registered, and forgets none.
LEMMA SignalledIs ==
    ASSUME NEW p, NEW runs, NEW cli, ProcessesOf(p, runs, cli), NEW x \in AgentExecutions
    PROVE  /\ ProcessesOf(ProcessTerminated(p, x), runs, cli)
           /\ ProcessesOf(ProcessKilled(p, x), runs, cli)
<1> DEFINE q == ProcessTerminated(p, x)
           u == ProcessKilled(p, x)
<1>1. DOMAIN p = {"active", "terminated", "killed"} /\ DOMAIN p.active = AgentExecutions
    BY DEF ProcessesOf
<1>2. /\ DOMAIN q = {"active", "terminated", "killed"} /\ q.active = p.active
      /\ q.killed = p.killed
    BY <1>1 DEF ProcessTerminated
<1>3. ProcessesOf(q, runs, cli)
  <2> HIDE DEF q
  <2> QED
      BY <1>2 DEF ProcessesOf
<1>4. /\ DOMAIN u = {"active", "terminated", "killed"} /\ u.active = p.active
      /\ u.killed = p.killed \cup Registered(p, x)
    BY <1>1 DEF ProcessKilled
<1>5. \A r \in Registered(p, x) : /\ cli /\ r \in DOMAIN runs /\ runs[r].pc = "running"
    BY DEF ProcessesOf, Registered
<1>6. ProcessesOf(u, runs, cli)
  <2> HIDE DEF u
  <2> QED
      BY <1>4, <1>5 DEF ProcessesOf
<1> QED
    BY <1>3, <1>6

ProcessInv == ProcessesOf(processes, agent_runs, UsesCli)

LEMMA EndedIs ==
    ASSUME NEW p, NEW runs, NEW cli, ProcessesOf(p, runs, cli), NEW r \in DOMAIN runs, NEW s,
           OneMoves(runs, s, r),
           \A x \in AgentExecutions : p.active[x] # NoAgent => p.active[x] # r,
           r \in p.killed => s[r].pc \in {"running", "failed"}
    PROVE  ProcessesOf(p, s, cli)
<1>1. DOMAIN s = DOMAIN runs /\ \A q \in DOMAIN runs \ {r} : s[q] = runs[q]
    BY DEF OneMoves
<1>2. \A x \in AgentExecutions : p.active[x] # NoAgent =>
         /\ cli /\ p.active[x] \in DOMAIN s
         /\ s[p.active[x]].pc = "running" /\ s[p.active[x]].execution_id = x
    BY <1>1 DEF ProcessesOf
<1>3. \A q \in p.killed : cli /\ q \in DOMAIN s /\ s[q].pc \in {"running", "failed"}
    BY <1>1 DEF ProcessesOf
<1> QED
    BY <1>2, <1>3 DEF ProcessesOf

LEMMA CliEndIs ==
    ASSUME SessionInv, ProcessInv, NEW r \in DOMAIN agent_runs, NEW result, CliEnds(r, result),
           r \in processes.killed => result.error # NoAgent
    PROVE  ProcessInv'
<1> DEFINE x == agent_runs[r].execution_id
           p == processes'
<1>1. /\ RunsType(agent_runs, Len(adapter.objects)) /\ setup \in AgentSetups
      /\ x \in AgentExecutions /\ UsesCli' = UsesCli
      /\ TransportReturned(r, result) /\ setup.transport = "cli"
      /\ processes' = IF setup.available THEN forget(processes, x) ELSE processes
    BY DEF SessionInv, RunsType, RunType, CliEnds, UsesCli
<1>2. /\ OneMoves(agent_runs, agent_runs', r)
      /\ result.error # NoAgent => agent_runs'[r].pc = "failed"
    BY <1>1, TransportReturnedIs
<1>3. /\ ProcessesOf(p, agent_runs, UsesCli) /\ p.killed = processes.killed
      /\ \A y \in AgentExecutions : p.active[y] # NoAgent => p.active[y] # r
  <2>1. CASE setup.available
    <3>1. p = ProcessForgotten(processes, x)
        BY <1>1, <2>1, ProcessesAreKept
    <3> HIDE DEF p, x
    <3>2. /\ ProcessesOf(p, agent_runs, UsesCli) /\ p.active[x] = NoAgent
          /\ p.killed = processes.killed
        BY <1>1, <3>1, ForgottenIs DEF ProcessInv
    <3>3. \A y \in AgentExecutions :
            p.active[y] # NoAgent => agent_runs[p.active[y]].execution_id = y
        BY <3>2 DEF ProcessesOf
    <3> QED
        BY <3>2, <3>3 DEF x
  <2>2. CASE ~setup.available
    <3>1. p = processes /\ ~UsesCli
        BY <1>1, <2>2 DEF UsesCli
    <3> HIDE DEF p
    <3> QED
        BY <3>1 DEF ProcessInv, ProcessesOf
  <2> QED
      BY <2>1, <2>2
<1>4. r \in p.killed => agent_runs'[r].pc \in {"running", "failed"}
    BY <1>2, <1>3
<1> HIDE DEF p
<1>5. ProcessesOf(p, agent_runs', UsesCli)
    BY <1>2, <1>3, <1>4, EndedIs
<1> QED
    BY <1>1, <1>5 DEF ProcessInv, p

LEMMA OtherEndIs ==
    ASSUME SessionInv, ProcessInv, NEW r \in DOMAIN agent_runs, NEW result,
           TransportReturned(r, result), setup.transport # "cli", setup' = setup,
           processes' = processes
    PROVE  ProcessInv'
<1>1. RunsType(agent_runs, Len(adapter.objects)) /\ UsesCli' = UsesCli /\ ~UsesCli
    BY DEF SessionInv, UsesCli
<1>2. OneMoves(agent_runs, agent_runs', r)
    BY <1>1, TransportReturnedIs
<1>3. /\ \A x \in AgentExecutions : processes.active[x] = NoAgent
      /\ processes.killed = {}
    BY <1>1 DEF ProcessInv, ProcessesOf
<1>4. ProcessesOf(processes, agent_runs', UsesCli)
    BY <1>2, <1>3, EndedIs DEF ProcessInv
<1> QED
    BY <1>1, <1>4 DEF ProcessInv

LEMMA ProcessesBegin == AgentInit => ProcessInv
BY NoProcessesAre DEF AgentInit, ProcessInv

LEMMA AppendStays ==
    ASSUME NEW p, NEW runs, NEW cli, ProcessesOf(p, runs, cli), IsSeq(runs), NEW run
    PROVE  ProcessesOf(p, Append(runs, run), cli)
<1> DEFINE s == Append(runs, run)
<1>1. /\ DOMAIN runs = 1 .. Len(runs) /\ Len(runs) \in Nat
      /\ DOMAIN s = 1 .. (Len(runs) + 1) /\ \A i \in 1 .. Len(runs) : s[i] = runs[i]
    BY SeqIs, AppendIs
<1> HIDE DEF s
<1>2. DOMAIN runs \subseteq DOMAIN s
    BY <1>1
<1>3. \A r \in DOMAIN runs : s[r] = runs[r]
    BY <1>1
<1>4. ProcessesOf(p, s, cli)
    BY <1>2, <1>3, ProcessesStay
<1> QED
    BY <1>4 DEF s

LEMMA ProcessesGoOn ==
    SessionInv /\ ProcessInv /\ [AgentNext]_<<agent_vars, agent_observers>> => ProcessInv'
<1> SUFFICES ASSUME SessionInv, ProcessInv, [AgentNext]_<<agent_vars, agent_observers>>
             PROVE  ProcessInv'
    OBVIOUS
<1> USE DEF ProcessInv
<1>0. /\ setup \in AgentSetups /\ RunsType(agent_runs, Len(adapter.objects))
      /\ IsSeq(agent_runs)
    BY DEF SessionInv, RunsType
<1>1. ASSUME NEW t \in AgentThreads, NEW x \in AgentExecutions, NEW k \in StepIndices,
             NEW o \in Offers, NEW time \in Ticks, BeginStep(t, x, k, o, time)
      PROVE  ProcessInv'
  <2> DEFINE n == Len(agent_runs)
             p == processes'
  <2>1. PICK run : /\ Starts(run, x, k, adapter') /\ run.pc = "running"
                   /\ agent_runs' = Append(agent_runs, run)
      BY <1>1, BeginStepIs
  <2>2. /\ p = IF UsesCli THEN launch(processes, x, n + 1) ELSE processes
        /\ setup' = setup /\ UsesCli' = UsesCli
      BY <1>1 DEF BeginStep, UsesCli
  <2>3. ProcessesOf(processes, agent_runs', UsesCli)
      BY <1>0, <2>1, AppendStays
  <2>4. /\ n + 1 \in DOMAIN agent_runs' /\ agent_runs'[n + 1] = run
      BY <1>0, <2>1, SeqIs, AppendIs
  <2>5. ProcessesOf(p, agent_runs', UsesCli)
    <3>1. CASE UsesCli
      <4>1. p = ProcessRegistered(processes, x, n + 1)
          BY <1>0, <2>2, <3>1, ProcessesAreKept DEF UsesCli
      <4>2. run.execution_id = x
          BY <2>1 DEF Starts
      <4> HIDE DEF p, n
      <4> QED
          BY <2>1, <2>3, <2>4, <3>1, <4>1, <4>2, RegisteredIs
    <3>2. CASE ~UsesCli
        BY <2>2, <2>3, <3>2
    <3> QED
        BY <3>1, <3>2
  <2> QED
      BY <2>2, <2>5
<1>2. ASSUME NEW t \in AgentThreads, NEW x \in AgentExecutions, NEW k \in StepIndices,
             NEW o \in Offers, NEW time \in Ticks, ReferenceStep(t, x, k, o, time)
      PROVE  ProcessInv'
  <2>1. PICK run : agent_runs' = Append(agent_runs, run)
      BY <1>2, ReferenceStepIs
  <2>2. processes' = processes /\ UsesCli' = UsesCli
      BY <1>2 DEF ReferenceStep, UsesCli
  <2> QED
      BY <1>0, <2>1, <2>2, AppendStays
<1>3. ASSUME NEW r \in DOMAIN agent_runs, CliFails(r)
      PROVE  ProcessInv'
  <2>1. PICK error \in TransportErrors : CliEnds(r, [error |-> error])
      BY <1>3 DEF CliFails, TransportErrors
  <2>2. error # NoAgent
      BY AgentAssumption
  <2> QED
      BY <2>1, <2>2, CliEndIs
<1>4. ASSUME NEW r \in DOMAIN agent_runs, NEW stdout \in Stdouts, CliAnswers(r, stdout)
      PROVE  ProcessInv'
    BY <1>4, CliEndIs DEF CliAnswers
<1>5. ASSUME NEW r \in DOMAIN agent_runs, HttpReturns(r)
      PROVE  ProcessInv'
    BY <1>5, OtherEndIs DEF HttpReturns
<1>6. ASSUME NEW r \in DOMAIN agent_runs, ReferenceReturns(r)
      PROVE  ProcessInv'
    BY <1>6, OtherEndIs DEF ReferenceReturns
<1>7. ASSUME NEW r \in DOMAIN agent_runs, PublishNext(r)
      PROVE  ProcessInv'
  <2>1. processes' = processes /\ UsesCli' = UsesCli
      BY <1>7 DEF PublishNext, UsesCli
  <2>2. agent_runs[r].pc = "publishing" /\ OneMoves(agent_runs, agent_runs', r)
      BY <1>0, <1>7, PublishNextIs
  <2>3. \A q \in DOMAIN agent_runs :
           /\ agent_runs'[q].execution_id = agent_runs[q].execution_id
           /\ agent_runs'[q].pc = agent_runs[q].pc \/ agent_runs[q].pc = "publishing"
      BY <2>2 DEF OneMoves, SameRun
  <2>4. DOMAIN agent_runs \subseteq DOMAIN agent_runs'
      BY <2>2 DEF OneMoves
  <2> QED
      BY <2>1, <2>3, <2>4, ProcessesStay
<1>8. ASSUME NEW op \in AgentControls, Control(op)
      PROVE  ProcessInv'
  <2> DEFINE x == op.execution_id
  <2>1. x \in AgentExecutions
      BY AgentAssumption
  <2>2. /\ agent_runs' = agent_runs /\ UsesCli' = UsesCli
        /\ \/ processes' = processes
           \/ /\ setup.transport # "reference"
              /\ \/ processes' = terminate_session(processes, x)
                 \/ processes' = cancel_execution(processes, x)
      BY <1>8 DEF Control, Interferes, UsesCli
  <2>3. processes' \in {processes, ProcessTerminated(processes, x), ProcessKilled(processes, x),
                        ProcessForgotten(processes, x)}
      BY <1>0, <2>2, ProcessesAreKept
  <2>4. ProcessesOf(processes', agent_runs, UsesCli)
      BY <2>1, <2>3, SignalledIs, ForgottenIs
  <2> QED
      BY <2>2, <2>4
<1>9. CASE \/ \E x \in AgentExecutions : Attach(x) \/ Detach(x)
           \/ attach_to_bus \/ CloseBus \/ ClearTransport \/ UNCHANGED <<agent_vars, agent_observers>>
  <2>1. processes' = processes /\ agent_runs' = agent_runs /\ setup' = setup
      BY <1>9 DEF Attach, Detach, attach_to_bus, CloseBus, ClearTransport, Interferes, agent_vars
  <2> QED
      BY <2>1 DEF UsesCli
<1>10. CASE ClearReference
  <2>1. /\ processes' = processes /\ UsesCli' = UsesCli
        /\ agent_runs' = [r \in DOMAIN agent_runs |-> [agent_runs[r] EXCEPT !.object = 0]]
      BY <1>10 DEF ClearReference, Interferes, UsesCli
  <2>2. \A r \in DOMAIN agent_runs : /\ agent_runs'[r].execution_id = agent_runs[r].execution_id
                                     /\ agent_runs'[r].pc = agent_runs[r].pc
      BY <1>0, <2>1 DEF RunsType, RunType, RunFields
  <2>3. DOMAIN agent_runs \subseteq DOMAIN agent_runs'
      BY <2>1
  <2> QED
      BY <2>1, <2>2, <2>3, ProcessesStay
<1> QED
    BY <1>1, <1>2, <1>3, <1>4, <1>5, <1>6, <1>7, <1>8, <1>9, <1>10 DEF AgentNext

-----------------------------------------------------------------------------
(***************************************************************************)
(* What a run told, and how far it is past its plan.                       *)
(***************************************************************************)
ToldIn(tl, r) == {i \in DOMAIN tl : tl[i].run = r}

\* The i-th event told says what d says.
Holds(tl, i, d) == \A f \in DOMAIN d : tl[i].event[f] = d[f]

\* An event with the id was told.
Has(tl, id) == \E i \in DOMAIN tl : tl[i].event.event_id = id

\* What was told stays told.
Extends(tl, t) == \A i \in DOMAIN tl : i \in DOMAIN t /\ t[i] = tl[i]

Grown(tl, e) == Append(tl, e)

LEMMA GrownIs ==
    ASSUME NEW tl, IsSeq(tl), NEW e
    PROVE  /\ IsSeq(Grown(tl, e)) /\ DOMAIN Grown(tl, e) = 1 .. (Len(tl) + 1)
           /\ Grown(tl, e)[Len(tl) + 1] = e
           /\ \A i \in 1 .. Len(tl) : Grown(tl, e)[i] = tl[i]
BY AppendIs DEF Grown

LEMMA GrownExtends ==
    ASSUME NEW tl, IsSeq(tl), NEW e
    PROVE  /\ Extends(tl, Grown(tl, e)) /\ Len(tl) + 1 \in DOMAIN Grown(tl, e)
           /\ \A i \in DOMAIN Grown(tl, e) : i \in DOMAIN tl \/ i = Len(tl) + 1
           /\ \A i \in DOMAIN tl : i \in Nat /\ i < Len(tl) + 1
<1> DEFINE n == Len(tl)
           t == Grown(tl, e)
<1>1. /\ n \in Nat /\ DOMAIN tl = 1 .. n /\ DOMAIN t = 1 .. (n + 1)
      /\ \A i \in 1 .. n : t[i] = tl[i]
    BY SeqIs, GrownIs
<1> HIDE DEF n, t
<1>2. /\ \A i \in 1 .. n : i \in 1 .. (n + 1) /\ i \in Nat /\ i < n + 1
      /\ \A i \in 1 .. (n + 1) : i \in 1 .. n \/ i = n + 1
      /\ n + 1 \in 1 .. (n + 1)
    BY <1>1
<1> QED
    BY <1>1, <1>2 DEF Extends, n, t

\* What one more that is told changes of what each run told.
LEMMA OwnGrows ==
    ASSUME NEW tl, IsSeq(tl), NEW e, NEW r
    PROVE  ToldIn(Grown(tl, e), r) =
              IF e.run = r THEN ToldIn(tl, r) \cup {Len(tl) + 1} ELSE ToldIn(tl, r)
<1> DEFINE m == Len(tl) + 1
           t == Grown(tl, e)
<1>1. /\ Extends(tl, t) /\ m \in DOMAIN t /\ t[m] = e
      /\ \A i \in DOMAIN t : i \in DOMAIN tl \/ i = m
      /\ m \notin DOMAIN tl
    BY GrownIs, GrownExtends
<1> HIDE DEF m, t
<1> QED
    BY <1>1 DEF ToldIn, Extends, m, t

Past(run) == 1 .. (run.next - 1)

RunShape(run) ==
    /\ PlanShape(run.plan, run.execution_id, run.step_index)
    /\ run.next \in 1 .. (Len(run.plan) + 1)
    /\ run.pc \in {"running", "failed"} => run.plan = <<>>
    /\ run.pc = "publishing" => run.next <= Len(run.plan)

\* What a run is past was told, and what it told it is past, in order.
RunTells(run, r, tl) ==
    /\ RunShape(run)
    /\ \A p \in Past(run) : \E i \in DOMAIN tl : Holds(tl, i, run.plan[p])
    /\ \A i \in ToldIn(tl, r) : \E p \in Past(run) : Holds(tl, i, run.plan[p])
    /\ \A i, j \in ToldIn(tl, r), p, q \in Past(run) :
          i < j /\ Holds(tl, i, run.plan[p]) /\ Holds(tl, j, run.plan[q]) => p < q

LEMMA ShapeIs ==
    ASSUME NEW run, RunShape(run)
    PROVE  /\ Len(run.plan) \in Nat /\ DOMAIN run.plan = 1 .. Len(run.plan)
           /\ run.next \in Nat /\ Past(run) \subseteq DOMAIN run.plan
           /\ \A p \in Past(run) : p \in Nat /\ p < run.next
           /\ run.pc = "publishing" => run.next \in DOMAIN run.plan
           /\ run.plan = <<>> => run.next = 1 /\ Past(run) = {}
<1>1. Len(run.plan) \in Nat /\ DOMAIN run.plan = 1 .. Len(run.plan)
    BY SeqIs DEF RunShape, PlanShape
<1>2. run.plan = <<>> => Len(run.plan) = 0
    BY EmptyIs
<1>3. /\ run.next \in 1 .. (Len(run.plan) + 1)
      /\ run.pc = "publishing" => run.next <= Len(run.plan)
    BY DEF RunShape
<1> QED
    BY <1>1, <1>2, <1>3 DEF Past

LEMMA EmptyPlanIs ==
    ASSUME NEW x, NEW k
    PROVE  PlanShape(<<>>, x, k)
BY EmptyIs DEF PlanShape

\* An event of a plan has the execution and the step index in its id, and no
\* sequence.
LEMMA EventIs ==
    ASSUME NEW plan, NEW x, NEW k, PlanShape(plan, x, k), NEW i \in DOMAIN plan
    PROVE  /\ plan[i].event_id[2] = x /\ plan[i].event_id[3] = k
           /\ DOMAIN plan[i] \in {{"event_id", "type", "execution_id", "time"},
                                  ToolFields, WebFields}
           /\ plan[i].execution_id = x
<1>1. CASE IsStep(plan[i], x, k)
    BY <1>1 DEF IsStep
<1>2. ASSUME NEW d, IsPair(plan[i], d, x, k)
      PROVE  /\ plan[i].event_id[2] = x /\ plan[i].event_id[3] = k
             /\ DOMAIN plan[i] \in {ToolFields, WebFields} /\ plan[i].execution_id = x
    BY <1>2 DEF IsPair, IsToolPair, IsWebPair
<1>3. ASSUME NEW c, IsPair(c, plan[i], x, k)
      PROVE  /\ plan[i].event_id[2] = x /\ plan[i].event_id[3] = k
             /\ DOMAIN plan[i] \in {ToolFields, WebFields} /\ plan[i].execution_id = x
    BY <1>3 DEF IsPair, IsToolPair, IsWebPair
<1> QED
    BY <1>1, <1>2, <1>3 DEF PlanShape

\* What holds an event of a plan has its id and its type.
LEMMA HoldsId ==
    ASSUME NEW plan, NEW x, NEW k, PlanShape(plan, x, k), NEW p \in DOMAIN plan,
           NEW tl, NEW i, Holds(tl, i, plan[p])
    PROVE  tl[i].event.event_id = plan[p].event_id /\ tl[i].event.type = plan[p].type
<1>1. "event_id" \in DOMAIN plan[p] /\ "type" \in DOMAIN plan[p]
    BY EventIs DEF ToolFields, WebFields
<1> QED
    BY <1>1 DEF Holds

LEMMA NumberedIs ==
    ASSUME NEW e, NEW object, "sequence" \notin DOMAIN e
    PROVE  /\ \A f \in DOMAIN e : Numbered(e, object)[f] = e[f]
           /\ Numbered(e, object).sequence = adapter'.objects[object].step_count
           /\ DOMAIN Numbered(e, object) = DOMAIN e \cup {"sequence"}
BY DEF Numbered

\* The event that is due is the one of the plan, with a number.
LEMMA DueIs ==
    ASSUME NEW plan, NEW x, NEW k, PlanShape(plan, x, k), NEW i \in DOMAIN plan, NEW object
    PROVE  LET e == Numbered(plan[i], object)
           IN /\ e.event_id = plan[i].event_id /\ e.type = plan[i].type
              /\ e.execution_id = x
              /\ e.sequence = adapter'.objects[object].step_count
              /\ \A f \in DOMAIN plan[i] : e[f] = plan[i][f]
<1>1. /\ DOMAIN plan[i] \in {{"event_id", "type", "execution_id", "time"}, ToolFields, WebFields}
      /\ plan[i].execution_id = x
    BY EventIs
<1>2. /\ "sequence" \notin DOMAIN plan[i]
      /\ {"event_id", "type", "execution_id"} \subseteq DOMAIN plan[i]
    BY <1>1 DEF ToolFields, WebFields
<1> DEFINE d == plan[i]
           e == Numbered(d, object)
<1>3. /\ \A f \in DOMAIN d : e[f] = d[f]
      /\ e.sequence = adapter'.objects[object].step_count
    BY <1>2, NumberedIs
<1>4. "event_id" \in DOMAIN d /\ "type" \in DOMAIN d /\ "execution_id" \in DOMAIN d
    BY <1>2
<1>5. d.execution_id = x
    BY <1>1
<1> HIDE DEF d, e
<1>6. e.event_id = d.event_id /\ e.type = d.type /\ e.execution_id = x
    BY <1>3, <1>4, <1>5
<1> QED
    BY <1>3, <1>6 DEF d, e

\* What another run tells leaves a run as it was.
LEMMA OtherTells ==
    ASSUME NEW run, NEW r, NEW tl, RunTells(run, r, tl),
           NEW t, Extends(tl, t), ToldIn(t, r) = ToldIn(tl, r)
    PROVE  RunTells(run, r, t)
<1>1. ToldIn(tl, r) \subseteq DOMAIN tl
    BY DEF ToldIn
<1>2. \A i \in DOMAIN tl : \A d : Holds(t, i, d) <=> Holds(tl, i, d)
    BY DEF Extends, Holds
<1>3. \A i \in DOMAIN tl : i \in DOMAIN t
    BY DEF Extends
<1>4. \A p \in Past(run) : \E i \in DOMAIN t : Holds(t, i, run.plan[p])
    BY <1>2, <1>3 DEF RunTells
<1>5. \A i \in ToldIn(t, r) : \E p \in Past(run) : Holds(t, i, run.plan[p])
    BY <1>1, <1>2 DEF RunTells
<1>6. \A i, j \in ToldIn(t, r), p, q \in Past(run) :
         i < j /\ Holds(t, i, run.plan[p]) /\ Holds(t, j, run.plan[q]) => p < q
    BY <1>1, <1>2 DEF RunTells
<1> QED
    BY <1>4, <1>5, <1>6 DEF RunTells

\* The run is past what was told when it is told by itself, as the last of what it
\* told, or was told before.
Adds(t, own, later, d) ==
    \A j \in later \ own : Holds(t, j, d) /\ \A i \in own : i < j

LEMMA RunGoesOn ==
    ASSUME NEW u, NEW r, NEW tl, RunTells(u, r, tl), u.pc = "publishing",
           NEW v, v.plan = u.plan, v.next = u.next + 1,
           v.execution_id = u.execution_id, v.step_index = u.step_index,
           v.pc \in {"publishing", "done"}, v.pc = "publishing" => u.next # Len(u.plan),
           NEW t, IsSeq(t), Extends(tl, t), Adds(t, ToldIn(tl, r), ToldIn(t, r), u.plan[u.next]),
           \E i \in DOMAIN t : Holds(t, i, u.plan[u.next]),
           \A i, j \in ToldIn(t, r) \ ToldIn(tl, r) : i = j,
           \A i \in ToldIn(tl, r) : tl[i].event.event_id # u.plan[u.next].event_id
    PROVE  RunTells(v, r, t)
<1> DEFINE n == u.next
           plan == u.plan
           I == ToldIn(tl, r)
           J == ToldIn(t, r)
<1>1. /\ RunShape(u) /\ PlanShape(plan, u.execution_id, u.step_index)
      /\ \A p \in Past(u) : \E i \in DOMAIN tl : Holds(tl, i, plan[p])
      /\ \A i \in I : \E p \in Past(u) : Holds(tl, i, plan[p])
      /\ \A i, j \in I, p, q \in Past(u) :
            i < j /\ Holds(tl, i, plan[p]) /\ Holds(tl, j, plan[q]) => p < q
    BY DEF RunTells, RunShape
<1>2. /\ Len(plan) \in Nat /\ DOMAIN plan = 1 .. Len(plan) /\ n \in DOMAIN plan /\ n \in Nat
      /\ Past(u) \subseteq DOMAIN plan /\ \A p \in Past(u) : p \in Nat /\ p < n
    BY <1>1, ShapeIs
<1>3. \A p \in Past(v) : p \in Past(u) \/ p = n
    BY <1>2 DEF Past
<1>4. RunShape(v)
    BY <1>1, <1>2 DEF RunShape
<1>5. I \subseteq DOMAIN tl /\ I \subseteq J
    BY DEF ToldIn, Extends
<1>6. \A i \in DOMAIN tl : \A d : Holds(t, i, d) <=> Holds(tl, i, d)
    BY DEF Extends, Holds
<1>7. ASSUME NEW p \in Past(v), NEW q \in Past(v), NEW i \in J,
             Holds(t, i, plan[p]), Holds(t, i, plan[q])
      PROVE  p = q
  <2>1. p \in DOMAIN plan /\ q \in DOMAIN plan
      BY <1>2, <1>3
  <2>2. plan[p].event_id = plan[q].event_id
      BY <1>1, <1>7, <2>1, HoldsId
  <2> QED
      BY <1>1, <2>1, <2>2 DEF PlanShape
<1>8. \A i \in I : ~Holds(t, i, plan[n])
  <2> SUFFICES ASSUME NEW i \in I, Holds(t, i, plan[n]) PROVE FALSE
      OBVIOUS
  <2>1. Holds(tl, i, plan[n])
      BY <1>5, <1>6
  <2>2. tl[i].event.event_id = plan[n].event_id
      BY <1>1, <1>2, <2>1, HoldsId
  <2> QED
      BY <2>2
<1>9. /\ \A j \in J \ I : Holds(t, j, plan[n]) /\ \A i \in I : i < j
      /\ \A j \in J : j \in Nat
  <2>1. \A j \in DOMAIN t : j \in Nat
      BY SeqIs
  <2> QED
      BY <2>1 DEF Adds, ToldIn
<1>10. \A p \in Past(u) : p \in Past(v)
    BY <1>2 DEF Past
<1>11. n \in Past(v)
    BY <1>2 DEF Past
<1>12. \A p \in Past(v) : \E i \in DOMAIN t : Holds(t, i, plan[p])
  <2> SUFFICES ASSUME NEW p \in Past(v) PROVE \E i \in DOMAIN t : Holds(t, i, plan[p])
      OBVIOUS
  <2>1. CASE p = n
      BY <2>1
  <2>2. CASE p \in Past(u)
    <3>1. PICK i \in DOMAIN tl : Holds(tl, i, plan[p])
        BY <1>1, <2>2
    <3> QED
        BY <1>6, <3>1 DEF Extends
  <2> QED
      BY <1>3, <2>1, <2>2
<1>13. \A i \in J : \E p \in Past(v) : Holds(t, i, plan[p])
    BY <1>1, <1>5, <1>6, <1>9, <1>10, <1>11
<1>14. \A j1, j2 \in J \ I : j1 = j2
    OBVIOUS
<1> HIDE DEF n, plan, I, J
<1>15. ASSUME NEW i \in J, NEW j \in J, NEW p \in Past(v), NEW q \in Past(v), i < j,
              Holds(t, i, plan[p]), Holds(t, j, plan[q])
       PROVE  p < q
  <2>1. CASE i \in I /\ j \in I
    <3>1. p # n /\ q # n
        BY <1>8, <1>15, <2>1
    <3>2. p \in Past(u) /\ q \in Past(u)
        BY <1>3, <3>1
    <3>3. Holds(tl, i, plan[p]) /\ Holds(tl, j, plan[q])
        BY <1>5, <1>6, <1>15, <2>1
    <3> QED
        BY <1>1, <1>15, <2>1, <3>2, <3>3
  <2>2. CASE i \in I /\ j \notin I
    <3>1. q = n
        BY <1>7, <1>9, <1>11, <1>15, <2>2
    <3>2. p # n
        BY <1>8, <1>15, <2>2
    <3> QED
        BY <1>2, <1>3, <3>1, <3>2
  <2>3. CASE i \notin I /\ j \in I
    <3>1. i \in Nat /\ j \in Nat /\ j < i
        BY <1>9, <2>3
    <3> QED
        BY <1>15, <3>1
  <2>4. CASE i \notin I /\ j \notin I
    <3>1. i = j
        BY <1>14, <2>4
    <3> QED
        BY <1>9, <1>15, <3>1
  <2> QED
      BY <2>1, <2>2, <2>3, <2>4
<1> QED
    BY <1>4, <1>12, <1>13, <1>15 DEF RunTells, n, plan, I, J

\* What follows in its plan is lost to a run.
LostTo(run, r, tl, bus, isolates) ==
    run.pc = "done" /\ run.next <= Len(run.plan) =>
        \/ bus = "closed"
        \/ /\ ~isolates /\ run.next > 1
           /\ \E i \in ToldIn(tl, r) : tl[i].raised /\ Holds(tl, i, run.plan[run.next - 1])
        \/ \E i \in DOMAIN tl \ ToldIn(tl, r) :
              tl[i].event.event_id = run.plan[run.next].event_id

\* Each event id is told once, by a run that was begun.
TellType(tl, runs) ==
    /\ IsSeq(tl) /\ \A i \in DOMAIN tl : tl[i].run \in DOMAIN runs
    /\ \A i, j \in DOMAIN tl : tl[i].event.event_id = tl[j].event.event_id => i = j

ReferenceType(ref) ==
    /\ DOMAIN ref = {"invocations", "cancelled", "terminated", "flags", "custom"}
    /\ ref.custom = NoAgent \/ IsOutput(ref.custom)

TellInv ==
    /\ ReferenceType(reference)
    /\ setup.vendor = "reference" => \A r \in DOMAIN agent_runs : agent_runs[r].pc = "done"
    /\ agent_bus = "none" => \A r \in DOMAIN agent_runs : agent_runs[r].pc # "publishing"
    /\ TellType(told, agent_runs)
    /\ \A r \in DOMAIN agent_runs :
          /\ RunTells(agent_runs[r], r, told)
          /\ LostTo(agent_runs[r], r, told, agent_bus, setup.isolates)

\* The bus is not opened again, and the setup stays.
BusGoesOn ==
    /\ setup' = setup
    /\ agent_bus = "closed" => agent_bus' = "closed"
    /\ agent_bus' = "none" => agent_bus = "none"

AsBefore(u, v) ==
    /\ v.execution_id = u.execution_id /\ v.step_index = u.step_index
    /\ v.pc = u.pc /\ v.plan = u.plan /\ v.next = u.next

LEMMA LostStays ==
    ASSUME NEW run, NEW r, NEW tl, NEW bus, NEW isolates, LostTo(run, r, tl, bus, isolates),
           NEW t, Extends(tl, t), ToldIn(t, r) = ToldIn(tl, r),
           NEW later, bus = "closed" => later = "closed"
    PROVE  LostTo(run, r, t, later, isolates)
<1> SUFFICES ASSUME run.pc = "done", run.next <= Len(run.plan), later # "closed"
             PROVE  \/ /\ ~isolates /\ run.next > 1
                       /\ \E i \in ToldIn(t, r) :
                             t[i].raised /\ Holds(t, i, run.plan[run.next - 1])
                    \/ \E i \in DOMAIN t \ ToldIn(t, r) :
                          t[i].event.event_id = run.plan[run.next].event_id
    BY DEF LostTo
<1>1. \A i \in DOMAIN tl : i \in DOMAIN t /\ t[i] = tl[i]
    BY DEF Extends
<1>2. \A i \in DOMAIN tl : \A d : Holds(t, i, d) <=> Holds(tl, i, d)
    BY <1>1 DEF Holds
<1>3. \A i \in ToldIn(tl, r) : i \in DOMAIN tl
    BY DEF ToldIn
<1>4. CASE /\ ~isolates /\ run.next > 1
           /\ \E i \in ToldIn(tl, r) : tl[i].raised /\ Holds(tl, i, run.plan[run.next - 1])
    BY <1>1, <1>2, <1>3, <1>4
<1>5. CASE \E i \in DOMAIN tl \ ToldIn(tl, r) :
              tl[i].event.event_id = run.plan[run.next].event_id
    BY <1>1, <1>5
<1> QED
    BY <1>4, <1>5 DEF LostTo

\* Only its plan, its program counter and its place tell what a run told.
LEMMA SameTells ==
    ASSUME NEW u, NEW v, NEW r, NEW tl, NEW bus, NEW isolates, AsBefore(u, v),
           RunTells(u, r, tl), LostTo(u, r, tl, bus, isolates)
    PROVE  RunTells(v, r, tl) /\ LostTo(v, r, tl, bus, isolates)
<1>1. RunTells(v, r, tl)
    BY DEF RunTells, RunShape, AsBefore, Past
<1>2. LostTo(v, r, tl, bus, isolates)
    BY DEF LostTo, AsBefore
<1> QED
    BY <1>1, <1>2

\* A run that stays and tells nothing.
LEMMA RunStays ==
    ASSUME TellInv, BusGoesOn, Extends(told, told'), NEW q \in DOMAIN agent_runs,
           AsBefore(agent_runs[q], agent_runs'[q]), ToldIn(told', q) = ToldIn(told, q)
    PROVE  /\ RunTells(agent_runs'[q], q, told')
           /\ LostTo(agent_runs'[q], q, told', agent_bus', setup'.isolates)
<1> DEFINE iso == setup.isolates
           u == agent_runs[q]
           v == agent_runs'[q]
<1>1. RunTells(u, q, told) /\ LostTo(u, q, told, agent_bus, iso)
    BY DEF TellInv
<1>2. setup'.isolates = iso /\ (agent_bus = "closed" => agent_bus' = "closed")
    BY DEF BusGoesOn
<1> HIDE DEF iso
<1>3. RunTells(u, q, told') /\ LostTo(u, q, told', agent_bus', iso)
    BY <1>1, <1>2, OtherTells, LostStays
<1>4. AsBefore(u, v)
    OBVIOUS
<1> HIDE DEF u, v
<1>5. RunTells(v, q, told') /\ LostTo(v, q, told', agent_bus', iso)
    BY <1>3, <1>4, SameTells
<1> QED
    BY <1>2, <1>5 DEF v

\* A run that told nothing yet.
LEMMA NothingTold ==
    ASSUME NEW run, NEW r, NEW tl, ToldIn(tl, r) = {}, NEW bus, NEW isolates,
           PlanShape(run.plan, run.execution_id, run.step_index), run.next = 1,
           run.pc \in {"running", "failed"} => run.plan = <<>>,
           run.pc = "publishing" => run.plan # <<>>
    PROVE  /\ RunTells(run, r, tl)
           /\ run.plan = <<>> => LostTo(run, r, tl, bus, isolates)
<1>1. IsSeq(run.plan) /\ Len(run.plan) \in Nat /\ DOMAIN run.plan = 1 .. Len(run.plan)
    BY SeqIs DEF PlanShape
<1>2. run.plan # <<>> => Len(run.plan) # 0
    BY <1>1 DEF IsSeq
<1>3. RunShape(run) /\ Past(run) = {}
    BY <1>1, <1>2 DEF RunShape, Past
<1>4. RunTells(run, r, tl)
    BY <1>3 DEF RunTells
<1>5. run.plan = <<>> => LostTo(run, r, tl, bus, isolates)
    BY EmptyIs DEF LostTo
<1> QED
    BY <1>4, <1>5

\* The event that is told has a new id.
LEMMA KnownIs ==
    ASSUME NEW e, ~Known(e), NEW r, TellType(told, agent_runs), NEW runs,
           DOMAIN agent_runs \subseteq DOMAIN runs, r \in DOMAIN runs, NEW raised,
           told' = Accepted(e, r, raised)
    PROVE  TellType(told', runs)
<1> DEFINE rec == [event |-> e, run |-> r, raised |-> raised]
           n == Len(told)
           t == Grown(told, rec)
<1>1. rec.event = e /\ rec.run = r /\ told' = t
    BY DEF Accepted, Grown
<1> HIDE DEF rec
<1>2. /\ IsSeq(told) /\ \A i \in DOMAIN told : told[i].run \in DOMAIN agent_runs
      /\ \A i, j \in DOMAIN told : told[i].event.event_id = told[j].event.event_id => i = j
    BY DEF TellType
<1>3. /\ n \in Nat /\ DOMAIN told = 1 .. n
      /\ IsSeq(t) /\ DOMAIN t = 1 .. (n + 1) /\ t[n + 1] = rec
      /\ \A i \in 1 .. n : t[i] = told[i]
    BY <1>2, SeqIs, GrownIs
<1> HIDE DEF n, t
<1>4. \A i \in 1 .. (n + 1) : i \in 1 .. n \/ i = n + 1
    BY <1>3
<1>5. \A i \in DOMAIN t : t[i].run \in DOMAIN runs
    BY <1>1, <1>2, <1>3, <1>4
<1>6. \A i \in 1 .. n : told[i].event.event_id # rec.event.event_id
    BY <1>1, <1>3 DEF Known
<1>7. \A i, j \in DOMAIN t : t[i].event.event_id = t[j].event.event_id => i = j
    BY <1>2, <1>3, <1>4, <1>6
<1> QED
    BY <1>1, <1>3, <1>5, <1>7 DEF TellType

\* The run r tells the event e, or repeats it: what becomes of the events told.
Tell(e, r, cut, done) ==
    \/ cut = FALSE /\ done = FALSE /\ Repeats(e) /\ told' = told
    \/ cut = done /\ done \in Raises /\ Accepts(e) /\ told' = Accepted(e, r, done)

\* What d says was told, by r if anybody tells it now.
IsTold(d, r, cut) ==
    /\ IsSeq(told') /\ Extends(told, told') /\ agent_bus # "closed"
    /\ \E i \in DOMAIN told' : Holds(told', i, d)
    /\ Adds(told', ToldIn(told, r), ToldIn(told', r), d)
    /\ \A i, j \in ToldIn(told', r) \ ToldIn(told, r) : i = j
    /\ \A q : q # r => ToldIn(told', q) = ToldIn(told, q)
    /\ cut = TRUE => /\ ~setup.isolates
                     /\ \E i \in ToldIn(told', r) : told'[i].raised /\ Holds(told', i, d)

LEMMA TellIs ==
    ASSUME NEW e, NEW r, NEW cut, NEW done, Tell(e, r, cut, done), NEW d,
           \A f \in DOMAIN d : e[f] = d[f], TellType(told, agent_runs)
    PROVE  IsTold(d, r, cut)
<1>0. IsSeq(told)
    BY DEF TellType
<1>1. CASE cut = FALSE /\ Repeats(e) /\ told' = told
  <2>1. /\ Extends(told, told') /\ IsSeq(told') /\ agent_bus # "closed"
      BY <1>0, <1>1 DEF Extends, Repeats
  <2>2. PICK i \in DOMAIN told : told[i].event = e
      BY <1>1 DEF Repeats
  <2>3. \E j \in DOMAIN told' : Holds(told', j, d)
      BY <1>1, <2>2 DEF Holds
  <2>4. ToldIn(told', r) \ ToldIn(told, r) = {}
      BY <1>1
  <2> QED
      BY <1>1, <2>1, <2>3, <2>4 DEF Adds, IsTold
<1>2. CASE cut = done /\ done \in Raises /\ Accepts(e) /\ told' = Accepted(e, r, done)
  <2> DEFINE rec == [event |-> e, run |-> r, raised |-> done]
             m == Len(told) + 1
             t == Grown(told, rec)
  <2>1. rec.event = e /\ rec.run = r /\ rec.raised = done /\ told' = t
      BY <1>2 DEF Accepted, Grown
  <2> HIDE DEF rec
  <2>2. /\ IsSeq(t) /\ t[m] = rec /\ Extends(told, t) /\ m \in DOMAIN t
        /\ \A i \in DOMAIN told : i \in Nat /\ i < m
        /\ ToldIn(t, r) = ToldIn(told, r) \cup {m}
        /\ \A q : q # r => ToldIn(t, q) = ToldIn(told, q)
    <3>1. IsSeq(t) /\ t[m] = rec
        BY <1>0, GrownIs
    <3>2. /\ Extends(told, t) /\ m \in DOMAIN t
          /\ \A i \in DOMAIN told : i \in Nat /\ i < m
        BY <1>0, GrownExtends
    <3>3. /\ ToldIn(t, r) = ToldIn(told, r) \cup {m}
          /\ \A q : q # r => ToldIn(t, q) = ToldIn(told, q)
        BY <1>0, <2>1, OwnGrows
    <3> QED
        BY <3>1, <3>2, <3>3
  <2> HIDE DEF m, t
  <2>3. Holds(t, m, d)
      BY <2>1, <2>2 DEF Holds
  <2>4. /\ m \in ToldIn(t, r) /\ \A j \in ToldIn(t, r) \ ToldIn(told, r) : j = m
        /\ \A i \in ToldIn(told, r) : i \in DOMAIN told
      BY <2>2 DEF ToldIn
  <2>5. Adds(t, ToldIn(told, r), ToldIn(t, r), d)
      BY <2>2, <2>3, <2>4 DEF Adds
  <2>6. agent_bus # "closed" /\ (done = TRUE => ~setup.isolates)
      BY <1>2 DEF Accepts, Raises
  <2>7. cut = TRUE => t[m].raised
      BY <1>2, <2>1, <2>2
  <2> QED
      BY <1>2, <2>1, <2>2, <2>3, <2>4, <2>5, <2>6, <2>7 DEF IsTold
<1> QED
    BY <1>1, <1>2 DEF Tell

\* A run that told or repeated what was due; and what it may lose by that.
LEMMA RunTellsOn ==
    ASSUME NEW r, NEW u, TellType(told, agent_runs), RunTells(u, r, told), u.pc = "publishing",
           NEW v, v.plan = u.plan, v.next = u.next + 1,
           v.execution_id = u.execution_id, v.step_index = u.step_index,
           NEW cut \in BOOLEAN,
           v.pc = IF cut \/ u.next = Len(u.plan) THEN "done" ELSE "publishing",
           IsTold(u.plan[u.next], r, cut), NEW bus
    PROVE  RunTells(v, r, told') /\ LostTo(v, r, told', bus, setup.isolates)
<1> DEFINE d == u.plan[u.next]
<1>1. /\ IsSeq(told') /\ Extends(told, told') /\ agent_bus # "closed"
      /\ \E i \in DOMAIN told' : Holds(told', i, d)
      /\ Adds(told', ToldIn(told, r), ToldIn(told', r), d)
      /\ \A i, j \in ToldIn(told', r) \ ToldIn(told, r) : i = j
      /\ cut = TRUE => /\ ~setup.isolates
                       /\ \E i \in ToldIn(told', r) : told'[i].raised /\ Holds(told', i, d)
    BY DEF IsTold
<1>2. /\ RunShape(u) /\ PlanShape(u.plan, u.execution_id, u.step_index)
      /\ \A i \in ToldIn(told, r) : \E p \in Past(u) : Holds(told, i, u.plan[p])
    BY DEF RunTells, RunShape
<1>3. /\ Len(u.plan) \in Nat /\ DOMAIN u.plan = 1 .. Len(u.plan)
      /\ u.next \in DOMAIN u.plan /\ u.next \in Nat
      /\ Past(u) \subseteq DOMAIN u.plan /\ \A p \in Past(u) : p # u.next
    BY <1>2, ShapeIs
<1>4. \A i \in ToldIn(told, r) : told[i].event.event_id # d.event_id
  <2> SUFFICES ASSUME NEW i \in ToldIn(told, r), told[i].event.event_id = d.event_id
               PROVE  FALSE
      OBVIOUS
  <2>1. PICK p \in Past(u) : Holds(told, i, u.plan[p])
      BY <1>2
  <2>2. u.plan[p].event_id = u.plan[u.next].event_id
      BY <1>2, <1>3, <2>1, HoldsId
  <2> QED
      BY <1>2, <1>3, <2>2 DEF PlanShape
<1>5. RunTells(v, r, told')
  <2>1. v.pc \in {"publishing", "done"} /\ (v.pc = "publishing" => u.next # Len(u.plan))
      OBVIOUS
  <2> QED
      BY <1>1, <1>4, <2>1, RunGoesOn
<1>6. LostTo(v, r, told', bus, setup.isolates)
  <2>1. v.next - 1 = u.next /\ v.next > 1
      BY <1>3
  <2>2. CASE cut
      BY <1>1, <2>1, <2>2 DEF LostTo
  <2>3. CASE ~cut
    <3>1. ~(v.pc = "done" /\ v.next <= Len(v.plan))
        BY <1>3, <2>3
    <3> QED
        BY <3>1 DEF LostTo
  <2> QED
      BY <2>2, <2>3
<1> QED
    BY <1>5, <1>6

LEMMA TellsBegin == AgentInit => TellInv
<1> SUFFICES ASSUME AgentInit PROVE TellInv
    OBVIOUS
<1>1. setup \in AgentSetups /\ agent_runs = <<>> /\ told = <<>>
      /\ reference = ReferenceTransport(setup.flags, setup.custom)
    BY DEF AgentInit
<1>2. ReferenceType(reference)
    BY <1>1, VendorIs DEF ReferenceTransport, ReferenceType
<1>3. TellType(told, agent_runs)
    BY <1>1, EmptyIs DEF TellType
<1>4. DOMAIN agent_runs = {}
    BY <1>1
<1> QED
    BY <1>2, <1>3, <1>4 DEF TellInv

\* One run goes on, and only it may tell something.
LEMMA MoveTells ==
    ASSUME SessionInv, TellInv, BusGoesOn, NEW r \in DOMAIN agent_runs,
           OneMoves(agent_runs, agent_runs', r),
           RunTells(agent_runs'[r], r, told'),
           LostTo(agent_runs'[r], r, told', agent_bus', setup.isolates),
           agent_bus' = "none" => agent_runs'[r].pc # "publishing",
           setup.vendor # "reference", ReferenceType(reference'),
           TellType(told', agent_runs), Extends(told, told'),
           \A q : q # r => ToldIn(told', q) = ToldIn(told, q)
    PROVE  TellInv'
<1>1. /\ DOMAIN agent_runs' = DOMAIN agent_runs
      /\ \A q \in DOMAIN agent_runs \ {r} : agent_runs'[q] = agent_runs[q]
    BY DEF OneMoves
<1>2. setup' = setup /\ setup'.isolates = setup.isolates
    BY DEF BusGoesOn
<1>3. \A q \in DOMAIN agent_runs \ {r} :
         /\ RunTells(agent_runs'[q], q, told')
         /\ LostTo(agent_runs'[q], q, told', agent_bus', setup'.isolates)
    BY <1>1, RunStays DEF AsBefore
<1>4. TellType(told', agent_runs')
    BY <1>1 DEF TellType
<1>5. agent_bus' = "none" => \A q \in DOMAIN agent_runs' : agent_runs'[q].pc # "publishing"
    BY <1>1 DEF TellInv, BusGoesOn
<1> QED
    BY <1>1, <1>2, <1>3, <1>4, <1>5 DEF TellInv

\* A run begins, and only it may tell something.
LEMMA StartTells ==
    ASSUME SessionInv, TellInv, BusGoesOn, NEW run, agent_runs' = Append(agent_runs, run),
           NEW m, m = Len(agent_runs) + 1,
           RunTells(run, m, told'), LostTo(run, m, told', agent_bus', setup.isolates),
           (run.pc = "running" /\ setup.vendor # "reference") \/ run.pc = "done",
           reference' = reference, TellType(told', agent_runs'), Extends(told, told'),
           \A q : q # m => ToldIn(told', q) = ToldIn(told, q)
    PROVE  TellInv'
<1> DEFINE n == Len(agent_runs)
<1>1. /\ n \in Nat /\ DOMAIN agent_runs = 1 .. n
      /\ DOMAIN agent_runs' = 1 .. (n + 1) /\ agent_runs'[n + 1] = run
      /\ \A i \in 1 .. n : agent_runs'[i] = agent_runs[i]
    BY SeqIs, AppendIs DEF SessionInv, RunsType
<1> HIDE DEF n
<1>2. /\ \A i \in 1 .. (n + 1) : i \in 1 .. n \/ i = n + 1
      /\ \A i \in 1 .. n : i # n + 1
    BY <1>1
<1>3. setup' = setup /\ setup'.isolates = setup.isolates
    BY DEF BusGoesOn
<1>4. \A q \in DOMAIN agent_runs :
         /\ RunTells(agent_runs'[q], q, told')
         /\ LostTo(agent_runs'[q], q, told', agent_bus', setup'.isolates)
    BY <1>1, <1>2, RunStays DEF AsBefore, n
<1>5. \A q \in DOMAIN agent_runs' :
         /\ RunTells(agent_runs'[q], q, told')
         /\ LostTo(agent_runs'[q], q, told', agent_bus', setup'.isolates)
    BY <1>1, <1>2, <1>3, <1>4 DEF n
<1>6. agent_bus' = "none" => \A q \in DOMAIN agent_runs' : agent_runs'[q].pc # "publishing"
    BY <1>1, <1>2 DEF TellInv, BusGoesOn
<1>7. setup'.vendor = "reference" => \A q \in DOMAIN agent_runs' : agent_runs'[q].pc = "done"
    BY <1>1, <1>2, <1>3 DEF TellInv
<1> QED
    BY <1>5, <1>6, <1>7 DEF TellInv

\* Nothing was told yet by a run that begins.
LEMMA NewToldNothing ==
    ASSUME SessionInv, TellInv
    PROVE  /\ ToldIn(told, Len(agent_runs) + 1) = {}
           /\ Extends(told, told) /\ TellType(told, agent_runs)
<1> DEFINE n == Len(agent_runs)
<1>1. n \in Nat /\ DOMAIN agent_runs = 1 .. n
    BY SeqIs DEF SessionInv, RunsType
<1> HIDE DEF n
<1>2. n + 1 \notin DOMAIN agent_runs
    BY <1>1
<1>3. TellType(told, agent_runs)
    BY DEF TellInv
<1> QED
    BY <1>2, <1>3 DEF TellType, ToldIn, Extends, n

\* The transport of a run returned a result.
LEMMA ResultTells ==
    ASSUME SessionInv, TellInv, NEW r \in DOMAIN agent_runs, agent_runs[r].pc = "running",
           NEW result, IsResult(result), TransportReturned(r, result),
           setup.vendor # "reference", told' = told, setup' = setup, agent_bus' = agent_bus,
           ReferenceType(reference')
    PROVE  TellInv'
<1> DEFINE u == agent_runs[r]
           v == agent_runs'[r]
           plan == Plan(r, result)
           pc == IF result.error # NoAgent THEN "failed"
                 ELSE IF plan = <<>> THEN "done" ELSE "publishing"
<1>1. RunsType(agent_runs, Len(adapter.objects)) /\ setup \in AgentSetups
    BY DEF SessionInv
<1>2. /\ OneMoves(agent_runs, agent_runs', r)
      /\ v.next = u.next /\ v.plan = plan /\ v.pc = pc
    BY <1>1, TransportReturnedIs
<1>3. RunTells(u, r, told) /\ TellType(told, agent_runs) /\ Extends(told, told)
    BY DEF TellInv, TellType, Extends
<1>4. ToldIn(told, r) = {} /\ u.next = 1
  <2>1. RunShape(u) /\ u.plan = <<>>
      BY <1>3 DEF RunTells, RunShape
  <2>2. u.next = 1 /\ Past(u) = {}
      BY <2>1, ShapeIs
  <2> QED
      BY <1>3, <2>2 DEF RunTells
<1>5. PlanShape(plan, u.execution_id, u.step_index)
  <2>1. CASE result.error # NoAgent \/ agent_bus = "none"
      BY <2>1, EmptyPlanIs DEF Plan
  <2>2. CASE ~(result.error # NoAgent \/ agent_bus = "none")
    <3> DEFINE x == u.execution_id
               k == u.step_index
               t == u.time
               out == result.out
    <3>1. IsOutput(out)
        BY <2>2 DEF IsResult
    <3>2. plan = events(x, k, t, out)
        BY <2>2 DEF Plan
    <3> HIDE DEF x, k, t, out, plan
    <3>3. PlanShape(events(x, k, t, out), x, k)
        BY <1>1, <3>1, EventsAre
    <3> QED
        BY <3>2, <3>3 DEF x, k
  <2> QED
      BY <2>1, <2>2
<1>6. v.execution_id = u.execution_id /\ v.step_index = u.step_index
    BY <1>2 DEF OneMoves, SameRun
<1>7. /\ pc = "failed" => plan = <<>>
      /\ pc # "running"
      /\ pc = "publishing" => plan # <<>>
      /\ pc = "done" => plan = <<>>
      /\ agent_bus = "none" => pc # "publishing"
    BY DEF Plan
<1> HIDE DEF u, v, plan, pc
<1>8. PlanShape(v.plan, v.execution_id, v.step_index)
    BY <1>2, <1>5, <1>6
<1>9. RunTells(v, r, told) /\ LostTo(v, r, told, agent_bus, setup.isolates)
  <2>1. /\ RunTells(v, r, told)
        /\ v.plan = <<>> => LostTo(v, r, told, agent_bus, setup.isolates)
      BY <1>2, <1>4, <1>7, <1>8, NothingTold
  <2>2. v.pc # "done" => LostTo(v, r, told, agent_bus, setup.isolates)
      BY DEF LostTo
  <2> QED
      BY <1>2, <1>7, <2>1, <2>2
<1>10. BusGoesOn
    BY DEF BusGoesOn
<1>11. /\ RunTells(agent_runs'[r], r, told')
       /\ LostTo(agent_runs'[r], r, told', agent_bus', setup.isolates)
       /\ agent_bus' = "none" => agent_runs'[r].pc # "publishing"
    BY <1>2, <1>7, <1>9 DEF v
<1>12. TellType(told', agent_runs) /\ Extends(told, told')
       /\ \A q : q # r => ToldIn(told', q) = ToldIn(told, q)
    BY <1>3
<1> QED
    BY <1>2, <1>10, <1>11, <1>12, MoveTells

LEMMA PublishTells ==
    ASSUME SessionInv, TellInv, NEW r \in DOMAIN agent_runs, PublishNext(r)
    PROVE  TellInv'
<1> DEFINE u == agent_runs[r]
           v == agent_runs'[r]
           e == Due(r)
           d == u.plan[u.next]
<1>1. /\ RunsType(agent_runs, Len(adapter.objects)) /\ setup' = setup /\ reference' = reference
    BY DEF SessionInv, PublishNext
<1>2. /\ u.pc = "publishing" /\ OneMoves(agent_runs, agent_runs', r) /\ v.plan = u.plan
      /\ agent_bus' = agent_bus
      /\ \/ Refuses(e) /\ v.pc = "done" /\ v.next = u.next /\ told' = told
         \/ Repeats(e) /\ Passes(r, FALSE) /\ told' = told
         \/ \E raised \in Raises : /\ Accepts(e) /\ told' = Accepted(e, r, raised)
                                   /\ Passes(r, raised)
    BY <1>1, PublishNextIs
<1>3. /\ ReferenceType(reference) /\ TellType(told, agent_runs) /\ IsSeq(told)
      /\ RunTells(u, r, told) /\ setup.vendor # "reference" /\ agent_bus # "none"
    BY <1>2 DEF TellInv, TellType
<1>4. v.execution_id = u.execution_id /\ v.step_index = u.step_index /\ BusGoesOn
    BY <1>1, <1>2 DEF OneMoves, SameRun, BusGoesOn
<1>5. /\ RunShape(u) /\ PlanShape(u.plan, u.execution_id, u.step_index)
      /\ \A i \in ToldIn(told, r) : \E p \in Past(u) : Holds(told, i, u.plan[p])
      /\ u.next \in DOMAIN u.plan /\ Past(u) \subseteq DOMAIN u.plan
      /\ \A p \in Past(u) : p \in Nat /\ p < u.next
    BY <1>2, <1>3, ShapeIs DEF RunTells, RunShape
<1>6. e.event_id = d.event_id /\ \A f \in DOMAIN d : e[f] = d[f]
    BY <1>5, DueIs DEF Due
<1>7. ASSUME RunTells(v, r, told'), LostTo(v, r, told', agent_bus, setup.isolates),
             TellType(told', agent_runs), Extends(told, told'),
             \A q : q # r => ToldIn(told', q) = ToldIn(told, q)
      PROVE  TellInv'
    BY <1>1, <1>2, <1>3, <1>4, <1>7, MoveTells
<1>8. CASE Refuses(e) /\ v.pc = "done" /\ v.next = u.next /\ told' = told
  <2>1. \/ agent_bus = "closed"
        \/ \E i \in DOMAIN told : told[i].event.event_id = d.event_id
      BY <1>6, <1>8 DEF Refuses, Known
  <2>2. \A i \in ToldIn(told, r) : told[i].event.event_id # d.event_id
    <3> SUFFICES ASSUME NEW i \in ToldIn(told, r), told[i].event.event_id = d.event_id
                 PROVE  FALSE
        OBVIOUS
    <3>1. PICK p \in Past(u) : Holds(told, i, u.plan[p])
        BY <1>5
    <3>2. p \in DOMAIN u.plan /\ p # u.next
        BY <1>5
    <3>3. u.plan[p].event_id = u.plan[u.next].event_id
        BY <1>5, <3>1, <3>2, HoldsId
    <3> QED
        BY <1>5, <3>2, <3>3 DEF PlanShape
  <2> HIDE DEF u, v
  <2>3. RunTells(v, r, told)
    <3>1. RunShape(v) /\ Past(v) = Past(u)
        BY <1>2, <1>4, <1>5, <1>8 DEF RunShape, Past
    <3> QED
        BY <1>2, <1>3, <3>1 DEF RunTells
  <2>4. LostTo(v, r, told, agent_bus, setup.isolates)
      BY <1>2, <1>8, <2>1, <2>2 DEF LostTo
  <2>5. Extends(told, told)
      BY DEF Extends
  <2> QED
      BY <1>3, <1>7, <1>8, <2>3, <2>4, <2>5
<1>9. ASSUME NEW cut \in BOOLEAN, NEW done, Tell(e, r, cut, done), Passes(r, cut),
             TellType(told', agent_runs)
      PROVE  TellInv'
  <2>1. IsTold(d, r, cut)
    <3> HIDE DEF e, d
    <3> QED
        BY <1>3, <1>6, <1>9, TellIs
  <2>2. /\ v.next = u.next + 1
        /\ v.pc = IF cut \/ u.next = Len(u.plan) THEN "done" ELSE "publishing"
      BY <1>9 DEF Passes
  <2> HIDE DEF u, v, e
  <2>3. RunTells(v, r, told') /\ LostTo(v, r, told', agent_bus, setup.isolates)
      BY <1>2, <1>3, <1>4, <2>1, <2>2, RunTellsOn
  <2>4. Extends(told, told') /\ \A q : q # r => ToldIn(told', q) = ToldIn(told, q)
      BY <2>1 DEF IsTold
  <2> QED
      BY <1>7, <1>9, <2>3, <2>4
<1>10. CASE Repeats(e) /\ Passes(r, FALSE) /\ told' = told
  <2> HIDE DEF e
  <2>1. Tell(e, r, FALSE, FALSE)
      BY <1>10 DEF Tell
  <2> QED
      BY <1>3, <1>9, <1>10, <2>1
<1>11. ASSUME NEW raised \in Raises, Accepts(e), told' = Accepted(e, r, raised),
              Passes(r, raised)
       PROVE  TellInv'
  <2> HIDE DEF e
  <2>1. Tell(e, r, raised, raised) /\ raised \in BOOLEAN
      BY <1>11 DEF Tell, Raises
  <2>2. TellType(told', agent_runs)
    <3>1. ~Known(e)
        BY <1>11 DEF Accepts
    <3> QED
        BY <1>3, <1>11, <3>1, KnownIs
  <2> QED
      BY <1>9, <1>11, <2>1, <2>2
<1> QED
    BY <1>2, <1>8, <1>10, <1>11

\* A step of the reference adapter tells one event, repeats it or loses it.
LEMMA ReferenceTells ==
    ASSUME SessionInv, TellInv, NEW t \in AgentThreads, NEW x \in AgentExecutions,
           NEW k \in StepIndices, NEW o \in Offers, NEW time \in Ticks,
           ReferenceStep(t, x, k, o, time)
    PROVE  TellInv'
<1> DEFINE n == Len(agent_runs)
           m == n + 1
           step == <<StepCompleted(x, k, time)>>
<1>1. PICK run : /\ Starts(run, x, k, adapter') /\ run.pc = "done"
                 /\ run.plan = IF agent_bus = "none" THEN <<>> ELSE step
                 /\ agent_runs' = Append(agent_runs, run)
                 /\ TellsOne(run, Numbered(run.plan[1], run.object), n + 1)
    BY ReferenceStepIs
<1>2. /\ setup' = setup /\ reference' = reference /\ setup.vendor = "reference"
      /\ agent_bus' = agent_bus /\ BusGoesOn
    BY DEF ReferenceStep, Is, BusGoesOn
<1>3. run.execution_id = x /\ run.step_index = k
    BY <1>1 DEF Starts
<1> DEFINE e == Numbered(run.plan[1], run.object)
<1>4. /\ ToldIn(told, m) = {} /\ Extends(told, told) /\ TellType(told, agent_runs)
      /\ m \in DOMAIN agent_runs' /\ DOMAIN agent_runs \subseteq DOMAIN agent_runs'
  <2>1. /\ n \in Nat /\ DOMAIN agent_runs = 1 .. n /\ DOMAIN agent_runs' = 1 .. (n + 1)
      BY <1>1, SeqIs, AppendIs DEF SessionInv, RunsType
  <2>2. ToldIn(told, n + 1) = {} /\ Extends(told, told) /\ TellType(told, agent_runs)
      BY NewToldNothing
  <2> HIDE DEF n
  <2>3. 1 .. n \subseteq 1 .. (n + 1) /\ n + 1 \in 1 .. (n + 1)
      BY <2>1
  <2> QED
      BY <2>1, <2>2, <2>3
<1>5. TellType(told, agent_runs')
    BY <1>4 DEF TellType
<1>6. m = Len(agent_runs) + 1 /\ TellsOne(run, e, m)
    BY <1>1
<1> HIDE DEF m, n
<1>7. ASSUME RunTells(run, m, told'), LostTo(run, m, told', agent_bus, setup.isolates),
             TellType(told', agent_runs'), Extends(told, told'),
             \A q : q # m => ToldIn(told', q) = ToldIn(told, q)
      PROVE  TellInv'
    BY <1>1, <1>2, <1>6, <1>7, StartTells
<1>8. run.plan = <<>> \/ run.plan = step
    BY <1>1
<1>9. PlanShape(run.plan, x, k) /\ (run.plan # <<>> => Len(run.plan) = 1 /\ 1 \in DOMAIN run.plan)
  <2>1. PlanShape(step, x, k) /\ PlanShape(<<>>, x, k) /\ Len(step) = 1 /\ 1 \in DOMAIN step
      BY StepAloneIs, EmptyPlanIs
  <2> QED
      BY <1>8, <2>1
<1> HIDE DEF step
<1>10. CASE (run.plan = <<>> \/ Refuses(e)) /\ run.next = 1 /\ told' = told
  <2>1. /\ RunTells(run, m, told)
        /\ run.plan = <<>> => LostTo(run, m, told, agent_bus, setup.isolates)
      BY <1>1, <1>3, <1>4, <1>9, <1>10, NothingTold
  <2>2. ASSUME run.plan # <<>>
        PROVE  LostTo(run, m, told, agent_bus, setup.isolates)
    <3>1. e.event_id = run.plan[1].event_id
        BY <1>9, <2>2, DueIs
    <3> HIDE DEF e
    <3>2. \/ agent_bus = "closed"
          \/ \E i \in DOMAIN told : told[i].event.event_id = run.plan[1].event_id
        BY <1>10, <2>2, <3>1 DEF Refuses, Known
    <3> QED
        BY <1>4, <1>10, <3>2 DEF LostTo
  <2> QED
      BY <1>4, <1>5, <1>7, <1>10, <2>1, <2>2
<1>11. ASSUME run.plan # <<>>, run.next = 2, NEW cut \in BOOLEAN, NEW done,
              Tell(e, m, cut, done), TellType(told', agent_runs')
       PROVE  TellInv'
  <2> DEFINE u == [plan |-> run.plan, next |-> 1, pc |-> "publishing",
                   execution_id |-> x, step_index |-> k]
             d == u.plan[u.next]
  <2>1. /\ u.plan = run.plan /\ u.next = 1 /\ u.pc = "publishing"
        /\ u.execution_id = x /\ u.step_index = k
      OBVIOUS
  <2>2. \A f \in DOMAIN d : e[f] = d[f]
      BY <1>9, <1>11, DueIs
  <2> HIDE DEF u, d, e
  <2>3. IsTold(d, m, cut)
      BY <1>4, <1>11, <2>2, TellIs
  <2>4. RunTells(u, m, told)
      BY <1>4, <1>9, <1>11, <2>1, NothingTold
  <2>5. RunTells(run, m, told') /\ LostTo(run, m, told', agent_bus, setup.isolates)
    <3>1. run.pc = IF cut \/ u.next = Len(u.plan) THEN "done" ELSE "publishing"
        BY <1>1, <1>9, <1>11, <2>1
    <3>2. /\ run.plan = u.plan /\ run.next = u.next + 1 /\ run.execution_id = u.execution_id
          /\ run.step_index = u.step_index
        BY <1>3, <1>11, <2>1
    <3>3. IsTold(u.plan[u.next], m, cut)
        BY <2>3 DEF d
    <3> QED
        BY <1>4, <2>1, <2>4, <3>1, <3>2, <3>3, RunTellsOn
  <2>6. Extends(told, told') /\ \A q : q # m => ToldIn(told', q) = ToldIn(told, q)
      BY <2>3 DEF IsTold
  <2> QED
      BY <1>7, <1>11, <2>5, <2>6
<1>12. CASE run.plan # <<>> /\ Repeats(e) /\ run.next = 2 /\ told' = told
  <2> HIDE DEF e
  <2>1. Tell(e, m, FALSE, FALSE)
      BY <1>12 DEF Tell
  <2> QED
      BY <1>5, <1>11, <1>12, <2>1
<1>13. ASSUME run.plan # <<>>, Accepts(e), run.next = 2, NEW raised \in Raises,
              told' = Accepted(e, m, raised)
       PROVE  TellInv'
  <2> HIDE DEF e
  <2>1. Tell(e, m, raised, raised) /\ raised \in BOOLEAN
      BY <1>13 DEF Tell, Raises
  <2>2. TellType(told', agent_runs')
    <3>1. ~Known(e)
        BY <1>13 DEF Accepts
    <3> QED
        BY <1>4, <1>13, <3>1, KnownIs
  <2> QED
      BY <1>11, <1>13, <2>1, <2>2
<1> QED
    BY <1>6, <1>10, <1>12, <1>13 DEF TellsOne

LEMMA ClearTells ==
    ASSUME SessionInv, TellInv, ClearReference
    PROVE  TellInv'
<1>1. /\ setup' = setup /\ told' = told /\ reference' = ReferenceTransport({}, NoAgent)
      /\ agent_bus' = agent_bus
      /\ agent_runs' = [r \in DOMAIN agent_runs |-> [agent_runs[r] EXCEPT !.object = 0]]
    BY DEF ClearReference, Interferes
<1>2. ReferenceType(reference')
    BY <1>1 DEF ReferenceTransport, ReferenceType
<1>3. ASSUME NEW r \in DOMAIN agent_runs
      PROVE  AsBefore(agent_runs[r], agent_runs'[r])
  <2> DEFINE u == agent_runs[r]
  <2>1. DOMAIN u = RunFields /\ agent_runs'[r] = [u EXCEPT !.object = 0]
      BY <1>1 DEF SessionInv, RunsType, RunType
  <2> HIDE DEF u
  <2> QED
      BY <2>1 DEF RunFields, u, AsBefore
<1>4. DOMAIN agent_runs' = DOMAIN agent_runs
    BY <1>1
<1>5. \A r \in DOMAIN agent_runs :
         /\ RunTells(agent_runs'[r], r, told')
         /\ LostTo(agent_runs'[r], r, told', agent_bus', setup'.isolates)
    BY <1>1, <1>3, RunStays DEF BusGoesOn, Extends
<1>6. TellType(told', agent_runs')
    BY <1>1, <1>4 DEF TellInv, TellType
<1>7. \A r \in DOMAIN agent_runs' : agent_runs'[r].pc = agent_runs[r].pc
    BY <1>3, <1>4 DEF AsBefore
<1> QED
    BY <1>1, <1>2, <1>4, <1>5, <1>6, <1>7 DEF TellInv

\* What the reference transport logs leaves its flags and its output as they are.
LEMMA ReferenceIs ==
    ASSUME ReferenceType(reference), setup \in AgentSetups, setup.vendor # "reference", NEW x
    PROVE  /\ ReferenceType(ReferenceInvoked(reference, x))
           /\ ReferenceType(reference_cancel(reference, x))
           /\ ReferenceType(reference_terminate(reference, x))
           /\ ReferenceType(clear_reference(reference))
<1>1. ReferenceType(ReferenceInvoked(reference, x))
    BY DEF ReferenceInvoked, ReferenceType
<1>2. ReferenceType(ReferenceCancelled(reference, x))
    BY DEF ReferenceCancelled, ReferenceType
<1>3. ReferenceType(ReferenceTerminated(reference, x))
    BY DEF ReferenceTerminated, ReferenceType
<1>4. ReferenceType(ReferenceTransport({}, NoAgent))
    BY DEF ReferenceTransport, ReferenceType
<1>5. reference_cancel(reference, x) = ReferenceCancelled(reference, x)
    BY VendorIs DEF Vendors, CliVendors, Is, reference_cancel, codex_reference_cancel,
             opencode_reference_cancel, hermes_reference_cancel, openclaw_reference_cancel,
             lovable_reference_cancel, claude_reference_cancel
<1>6. reference_terminate(reference, x) = ReferenceTerminated(reference, x)
    BY VendorIs DEF Vendors, CliVendors, Is, reference_terminate, codex_reference_terminate,
             opencode_reference_terminate, hermes_reference_terminate,
             openclaw_reference_terminate, lovable_reference_terminate,
             claude_reference_terminate
<1>7. clear_reference(reference) = ReferenceTransport({}, NoAgent)
    BY VendorIs DEF Vendors, CliVendors, Is, clear_reference, codex_reference_clear,
             opencode_reference_clear, hermes_reference_clear, openclaw_reference_clear,
             lovable_reference_clear, claude_reference_clear
<1> QED
    BY <1>1, <1>2, <1>3, <1>4, <1>5, <1>6, <1>7

LEMMA TellsGoOn ==
    SessionInv /\ TellInv /\ [AgentNext]_<<agent_vars, agent_observers>> => TellInv'
<1> SUFFICES ASSUME SessionInv, TellInv, [AgentNext]_<<agent_vars, agent_observers>>
             PROVE  TellInv'
    OBVIOUS
<1>0. /\ setup \in AgentSetups /\ ReferenceType(reference)
      /\ \A r \in DOMAIN agent_runs : agent_runs[r].pc # "done" => setup.vendor # "reference"
    BY DEF SessionInv, TellInv
<1>1. ASSUME NEW t \in AgentThreads, NEW x \in AgentExecutions, NEW k \in StepIndices,
             NEW o \in Offers, NEW time \in Ticks, BeginStep(t, x, k, o, time)
      PROVE  TellInv'
  <2> DEFINE m == Len(agent_runs) + 1
  <2>1. PICK run : /\ Starts(run, x, k, adapter') /\ run.pc = "running" /\ run.plan = <<>>
                   /\ run.next = 1 /\ agent_runs' = Append(agent_runs, run)
      BY <1>1, BeginStepIs
  <2>2. /\ setup.vendor # "reference" /\ told' = told /\ setup' = setup
        /\ reference' = reference /\ agent_bus' = agent_bus
      BY <1>1 DEF BeginStep, Is
  <2>3. /\ ToldIn(told, m) = {} /\ Extends(told, told) /\ TellType(told, agent_runs)
      BY NewToldNothing
  <2>4. TellType(told, agent_runs')
    <3>1. DOMAIN agent_runs \subseteq DOMAIN agent_runs'
        BY <2>1, SeqIs, AppendIs DEF SessionInv, RunsType
    <3> QED
        BY <2>3, <3>1 DEF TellType
  <2>5. /\ RunTells(run, m, told) /\ LostTo(run, m, told, agent_bus, setup.isolates)
      BY <2>1, <2>3, EmptyPlanIs, NothingTold
  <2>6. BusGoesOn
      BY <2>2 DEF BusGoesOn
  <2> QED
      BY <2>1, <2>2, <2>3, <2>4, <2>5, <2>6, StartTells
<1>2. ASSUME NEW t \in AgentThreads, NEW x \in AgentExecutions, NEW k \in StepIndices,
             NEW o \in Offers, NEW time \in Ticks, ReferenceStep(t, x, k, o, time)
      PROVE  TellInv'
    BY <1>2, ReferenceTells
<1>3. ASSUME NEW r \in DOMAIN agent_runs, CliFails(r)
      PROVE  TellInv'
  <2>1. PICK error \in TransportErrors : CliEnds(r, [error |-> error])
      BY <1>3 DEF CliFails, TransportErrors
  <2>2. IsResult([error |-> error])
      BY FailureIs
  <2>3. /\ TransportReturned(r, [error |-> error]) /\ agent_runs[r].pc = "running"
        /\ setup' = setup /\ told' = told /\ reference' = reference
        /\ agent_bus' = agent_bus
      BY <2>1 DEF CliEnds
  <2> QED
      BY <1>0, <2>2, <2>3, ResultTells
<1>4. ASSUME NEW r \in DOMAIN agent_runs, NEW stdout \in Stdouts, CliAnswers(r, stdout)
      PROVE  TellInv'
  <2>1. IsResult(parse(stdout))
      BY <1>0, <1>4, ParsedIs DEF CliAnswers
  <2>2. /\ TransportReturned(r, parse(stdout)) /\ agent_runs[r].pc = "running"
        /\ setup' = setup /\ told' = told /\ reference' = reference
        /\ agent_bus' = agent_bus
      BY <1>4 DEF CliAnswers, CliEnds
  <2> QED
      BY <1>0, <2>1, <2>2, ResultTells
<1>5. ASSUME NEW r \in DOMAIN agent_runs, HttpReturns(r)
      PROVE  TellInv'
  <2> DEFINE error == IF setup.available THEN "network" ELSE "authentication"
  <2>1. lovable_http_execute(setup.available) = [error |-> error]
      BY DEF lovable_http_execute
  <2>2. error \in TransportErrors
      BY DEF TransportErrors
  <2> HIDE DEF error
  <2>3. IsResult([error |-> error])
      BY <2>2, FailureIs
  <2>4. /\ TransportReturned(r, [error |-> error]) /\ agent_runs[r].pc = "running"
        /\ setup' = setup /\ told' = told /\ reference' = reference
        /\ agent_bus' = agent_bus
      BY <1>5, <2>1 DEF HttpReturns
  <2> QED
      BY <1>0, <2>3, <2>4, ResultTells
<1>6. ASSUME NEW r \in DOMAIN agent_runs, ReferenceReturns(r)
      PROVE  TellInv'
  <2>1. /\ TransportReturned(r, reference_execute(reference)) /\ agent_runs[r].pc = "running"
        /\ setup' = setup /\ told' = told /\ agent_bus' = agent_bus
        /\ reference' = ReferenceInvoked(reference, agent_runs[r].execution_id)
      BY <1>6 DEF ReferenceReturns
  <2>2. setup.vendor # "reference" /\ ReferenceType(reference')
      BY <1>0, <2>1, ReferenceIs
  <2>3. IsResult(reference_execute(reference))
      BY <1>0, <2>2, ReferenceResultIs DEF ReferenceType
  <2> QED
      BY <2>1, <2>2, <2>3, ResultTells
<1>7. ASSUME NEW r \in DOMAIN agent_runs, PublishNext(r)
      PROVE  TellInv'
    BY <1>7, PublishTells
<1>8. ASSUME BusGoesOn, agent_runs' = agent_runs, told' = told, ReferenceType(reference')
      PROVE  TellInv'
  <2>1. \A r \in DOMAIN agent_runs :
           /\ RunTells(agent_runs'[r], r, told')
           /\ LostTo(agent_runs'[r], r, told', agent_bus', setup'.isolates)
      BY <1>8, RunStays DEF AsBefore, Extends
  <2> QED
      BY <1>8, <2>1 DEF TellInv, BusGoesOn
<1>9. CASE \/ \E x \in AgentExecutions : Attach(x) \/ Detach(x)
           \/ attach_to_bus \/ CloseBus \/ UNCHANGED <<agent_vars, agent_observers>>
  <2>1. BusGoesOn /\ agent_runs' = agent_runs /\ told' = told /\ reference' = reference
      BY <1>9 DEF Attach, Detach, attach_to_bus, CloseBus, Interferes, agent_vars, BusGoesOn
  <2> QED
      BY <1>0, <1>8, <2>1
<1>10. ASSUME NEW op \in AgentControls, Control(op)
       PROVE  TellInv'
  <2> DEFINE x == op.execution_id
             answer == execute_control(op)
  <2>1. BusGoesOn /\ agent_runs' = agent_runs /\ told' = told
      BY <1>10 DEF Control, Interferes, BusGoesOn
  <2>2. reference' = IF ~answer.signal \/ setup.transport # "reference" THEN reference
                     ELSE IF op.hard THEN reference_terminate(reference, x)
                     ELSE reference_cancel(reference, x)
      BY <1>10 DEF Control
  <2>3. setup.vendor = "reference" => answer.signal = FALSE
      BY ReferenceSignalsNothing
  <2> HIDE DEF answer, x
  <2>4. ReferenceType(reference')
    <3>1. CASE setup.vendor = "reference"
        BY <1>0, <2>2, <2>3, <3>1
    <3>2. CASE setup.vendor # "reference"
        BY <1>0, <2>2, <3>2, ReferenceIs
    <3> QED
        BY <3>1, <3>2
  <2> QED
      BY <1>8, <2>1, <2>4
<1>11. CASE ClearTransport
  <2>1. /\ BusGoesOn /\ agent_runs' = agent_runs /\ told' = told
        /\ reference' = clear_reference(reference) /\ setup.vendor # "reference"
      BY <1>11 DEF ClearTransport, Interferes, Is, BusGoesOn
  <2> QED
      BY <1>0, <1>8, <2>1, ReferenceIs
<1>12. CASE ClearReference
    BY <1>12, ClearTells
<1> QED
    BY <1>1, <1>2, <1>3, <1>4, <1>5, <1>6, <1>7, <1>9, <1>10, <1>11, <1>12 DEF AgentNext

-----------------------------------------------------------------------------
(***************************************************************************)
(* The number an event carries.                                            *)
(***************************************************************************)
LEMMA RunsAreKept ==
    ASSUME SessionInv, [AgentNext]_<<agent_vars, agent_observers>>, ~ClearReference
    PROVE  \A r \in DOMAIN agent_runs : /\ r \in DOMAIN agent_runs'
                                        /\ SameRun(agent_runs[r], agent_runs'[r])
<1>0. /\ RunsType(agent_runs, Len(adapter.objects)) /\ IsSeq(agent_runs)
      /\ \A r \in DOMAIN agent_runs : SameRun(agent_runs[r], agent_runs[r])
    BY DEF SessionInv, RunsType, RunType, SameRun
<1>1. ASSUME NEW run, agent_runs' = Append(agent_runs, run)
      PROVE  \A r \in DOMAIN agent_runs : /\ r \in DOMAIN agent_runs'
                                          /\ agent_runs'[r] = agent_runs[r]
  <2> DEFINE n == Len(agent_runs)
  <2>1. /\ n \in Nat /\ DOMAIN agent_runs = 1 .. n /\ DOMAIN agent_runs' = 1 .. (n + 1)
        /\ \A i \in 1 .. n : agent_runs'[i] = agent_runs[i]
      BY <1>0, <1>1, SeqIs, AppendIs
  <2> HIDE DEF n
  <2> QED
      BY <2>1
<1>2. ASSUME NEW r \in DOMAIN agent_runs, OneMoves(agent_runs, agent_runs', r)
      PROVE  \A q \in DOMAIN agent_runs : /\ q \in DOMAIN agent_runs'
                                          /\ SameRun(agent_runs[q], agent_runs'[q])
    BY <1>0, <1>2 DEF OneMoves
<1>3. ASSUME NEW t \in AgentThreads, NEW x \in AgentExecutions, NEW k \in StepIndices,
             NEW o \in Offers, NEW time \in Ticks,
             BeginStep(t, x, k, o, time) \/ ReferenceStep(t, x, k, o, time)
      PROVE  \E run : agent_runs' = Append(agent_runs, run)
    BY <1>3, BeginStepIs, ReferenceStepIs
<1>4. ASSUME NEW r \in DOMAIN agent_runs,
             \/ CliFails(r) \/ \E stdout \in Stdouts : CliAnswers(r, stdout)
             \/ HttpReturns(r) \/ ReferenceReturns(r)
      PROVE  OneMoves(agent_runs, agent_runs', r)
  <2>1. PICK result : TransportReturned(r, result)
      BY <1>4 DEF CliFails, CliAnswers, CliEnds, HttpReturns, ReferenceReturns
  <2> QED
      BY <1>0, <2>1, TransportReturnedIs
<1>5. ASSUME NEW r \in DOMAIN agent_runs, PublishNext(r)
      PROVE  OneMoves(agent_runs, agent_runs', r)
    BY <1>0, <1>5, PublishNextIs
<1>6. CASE \/ \E x \in AgentExecutions : Attach(x) \/ Detach(x)
           \/ \E op \in AgentControls : Control(op)
           \/ attach_to_bus \/ CloseBus \/ ClearTransport \/ UNCHANGED <<agent_vars, agent_observers>>
  <2>1. agent_runs' = agent_runs
      BY <1>6 DEF Attach, Detach, Control, attach_to_bus, CloseBus, ClearTransport, agent_vars
  <2> QED
      BY <1>0, <2>1
<1>7. CASE \E t \in AgentThreads, x \in AgentExecutions, k \in StepIndices, o \in Offers :
              \E time \in Ticks :
                 BeginStep(t, x, k, o, time) \/ ReferenceStep(t, x, k, o, time)
    BY <1>0, <1>1, <1>3, <1>7
<1>8. CASE \E r \in DOMAIN agent_runs :
              \/ CliFails(r) \/ \E stdout \in Stdouts : CliAnswers(r, stdout)
              \/ HttpReturns(r) \/ ReferenceReturns(r) \/ PublishNext(r)
    BY <1>2, <1>4, <1>5, <1>8
<1> QED
    BY <1>6, <1>7, <1>8 DEF AgentNext

\* A run is numbered by its session, and the session counts on.
LEMMA NumberIs ==
    ASSUME NEW runs, NEW a, RunsType(runs, Len(a.objects)), CountsAdd(runs, a),
           NEW r \in DOMAIN runs, NEW o, o = runs[r].object, o # 0
    PROVE  /\ o \in 1 .. Len(a.objects)
           /\ IsFiniteSet(RunsWith(runs, o))
           /\ Cardinality(RunsWith(runs, o)) \in Nat
           /\ a.objects[o].step_count = Cardinality(RunsWith(runs, o))
           /\ runs[r].number \in 1 .. a.objects[o].step_count
<1>1. /\ IsSeq(runs) /\ Len(runs) \in Nat /\ DOMAIN runs = 1 .. Len(runs)
      /\ o \in 0 .. Len(a.objects)
    BY SeqIs DEF RunsType, RunType
<1>2. o \in 1 .. Len(a.objects)
    BY <1>1
<1>3. r \in RunsWith(runs, o)
    BY DEF RunsWith
<1>4. /\ a.objects[o].step_count = Cardinality(RunsWith(runs, o))
      /\ runs[r].number \in 1 .. Cardinality(RunsWith(runs, o))
    BY <1>2, <1>3 DEF CountsAdd
<1>5. RunsWith(runs, o) \subseteq 1 .. Len(runs)
    BY <1>1 DEF RunsWith
<1>9. IsFiniteSet(1 .. Len(runs))
    BY <1>1, FS_Interval
<1>6. IsFiniteSet(RunsWith(runs, o))
    BY <1>5, <1>9, FS_Subset
<1>7. Cardinality(RunsWith(runs, o)) \in Nat
    BY <1>6, FS_CardinalityType
<1> QED
    BY <1>2, <1>4, <1>6, <1>7

LEMMA CountsRise ==
    ASSUME SessionInv, SessionInv', [AgentNext]_<<agent_vars, agent_observers>>, ~ClearReference,
           NEW r \in DOMAIN agent_runs, NEW o, o = agent_runs[r].object, o # 0
    PROVE  /\ adapter.objects[o].step_count \in Nat /\ adapter'.objects[o].step_count \in Nat
           /\ adapter.objects[o].step_count <= adapter'.objects[o].step_count
<1> DEFINE I == RunsWith(agent_runs, o)
           J == RunsWith(agent_runs', o)
<1>1. \A q \in DOMAIN agent_runs : /\ q \in DOMAIN agent_runs'
                                   /\ agent_runs'[q].object = agent_runs[q].object
    BY RunsAreKept DEF SameRun
<1>2. I \subseteq J
    BY <1>1 DEF RunsWith
<1>3. /\ Cardinality(I) \in Nat
      /\ adapter.objects[o].step_count = Cardinality(I)
    BY NumberIs DEF SessionInv
<1>4. /\ Cardinality(J) \in Nat /\ IsFiniteSet(J)
      /\ adapter'.objects[o].step_count = Cardinality(J)
  <2>1. RunsType(agent_runs', Len(adapter'.objects)) /\ CountsAdd(agent_runs', adapter')
      BY DEF SessionInv
  <2>2. r \in DOMAIN agent_runs' /\ o = agent_runs'[r].object
      BY <1>1
  <2> HIDE DEF I
  <2> QED
      BY <2>1, <2>2, NumberIs
<1> HIDE DEF I, J
<1>5. Cardinality(I) <= Cardinality(J)
    BY <1>2, <1>4, FS_Subset
<1> QED
    BY <1>3, <1>4, <1>5

\* The events of a run are numbered from its own number to the count of its session.
SequencesOf(run, r, tl, a) ==
    run.object # 0 =>
        \A i \in ToldIn(tl, r) :
            tl[i].event.sequence \in run.number .. a.objects[run.object].step_count

SequenceInv == \A r \in DOMAIN agent_runs : SequencesOf(agent_runs[r], r, told, adapter)

\* The bus accepts one event of a run at most, numbered by the session's count.
Numbers(s, rec) ==
    /\ told' = Grown(told, rec) /\ rec.run = s
    /\ rec.event.sequence = adapter'.objects[agent_runs'[s].object].step_count

LEMMA ToldGrows ==
    ASSUME SessionInv, TellInv, [AgentNext]_<<agent_vars, agent_observers>>
    PROVE  \/ told' = told
           \/ \E s \in DOMAIN agent_runs' : \E rec : Numbers(s, rec)
<1>0. ASSUME NEW e, NEW s, NEW raised, told' = Accepted(e, s, raised),
             e.sequence = adapter'.objects[agent_runs'[s].object].step_count
      PROVE  \E rec : Numbers(s, rec)
  <2> DEFINE rec == [event |-> e, run |-> s, raised |-> raised]
  <2>1. rec.event = e /\ rec.run = s /\ told' = Grown(told, rec)
      BY <1>0 DEF Accepted, Grown
  <2> HIDE DEF rec
  <2> QED
      BY <1>0, <2>1 DEF Numbers
<1>1. ASSUME NEW t \in AgentThreads, NEW x \in AgentExecutions, NEW k \in StepIndices,
             NEW o \in Offers, NEW time \in Ticks, ReferenceStep(t, x, k, o, time)
      PROVE  told' = told \/ \E s \in DOMAIN agent_runs' : \E rec : Numbers(s, rec)
  <2> DEFINE m == Len(agent_runs) + 1
             step == <<StepCompleted(x, k, time)>>
  <2>1. PICK run : /\ Starts(run, x, k, adapter')
                   /\ run.plan = IF agent_bus = "none" THEN <<>> ELSE step
                   /\ agent_runs' = Append(agent_runs, run)
                   /\ TellsOne(run, Numbered(run.plan[1], run.object), m)
      BY <1>1, ReferenceStepIs
  <2> DEFINE e == Numbered(run.plan[1], run.object)
  <2>2. m \in DOMAIN agent_runs' /\ agent_runs'[m] = run
      BY <2>1, SeqIs, AppendIs DEF SessionInv, RunsType
  <2>3. ASSUME run.plan # <<>>, NEW raised \in Raises, told' = Accepted(e, m, raised)
        PROVE  \E rec : Numbers(m, rec)
    <3>1. PlanShape(run.plan, x, k) /\ 1 \in DOMAIN run.plan
      <4>1. run.plan = step
          BY <2>1, <2>3
      <4>2. PlanShape(step, x, k) /\ 1 \in DOMAIN step
          BY StepAloneIs
      <4> QED
          BY <4>1, <4>2
    <3>2. e.sequence = adapter'.objects[run.object].step_count
        BY <3>1, DueIs
    <3> HIDE DEF e, m
    <3> QED
        BY <1>0, <2>2, <2>3, <3>2
  <2>4. TellsOne(run, e, m)
      BY <2>1
  <2> HIDE DEF m, e
  <2> QED
      BY <2>2, <2>3, <2>4 DEF TellsOne
<1>2. ASSUME NEW r \in DOMAIN agent_runs, PublishNext(r)
      PROVE  told' = told \/ \E s \in DOMAIN agent_runs' : \E rec : Numbers(s, rec)
  <2> DEFINE u == agent_runs[r]
             e == Due(r)
  <2>1. RunsType(agent_runs, Len(adapter.objects)) /\ RunShape(u)
      BY DEF SessionInv, TellInv, RunTells
  <2>2. /\ u.pc = "publishing" /\ OneMoves(agent_runs, agent_runs', r)
        /\ told' = told \/ \E raised \in Raises : told' = Accepted(e, r, raised)
      BY <1>2, <2>1, PublishNextIs
  <2>3. PlanShape(u.plan, u.execution_id, u.step_index) /\ u.next \in DOMAIN u.plan
      BY <2>1, <2>2, ShapeIs DEF RunShape
  <2>4. e.sequence = adapter'.objects[u.object].step_count
      BY <2>3, DueIs DEF Due
  <2>5. r \in DOMAIN agent_runs' /\ agent_runs'[r].object = u.object
      BY <2>2 DEF OneMoves, SameRun
  <2> HIDE DEF u, e
  <2> QED
      BY <1>0, <2>2, <2>4, <2>5
<1>3. CASE \E t \in AgentThreads, x \in AgentExecutions, k \in StepIndices, o \in Offers :
              \E time \in Ticks : BeginStep(t, x, k, o, time)
    BY <1>3 DEF BeginStep
<1>4. CASE \E r \in DOMAIN agent_runs : CliFails(r) \/ HttpReturns(r) \/ ReferenceReturns(r)
    BY <1>4 DEF CliFails, CliEnds, HttpReturns, ReferenceReturns
<1>5. CASE \E r \in DOMAIN agent_runs : \E stdout \in Stdouts : CliAnswers(r, stdout)
    BY <1>5 DEF CliAnswers, CliEnds
<1>6. CASE \/ \E x \in AgentExecutions : Attach(x) \/ Detach(x)
           \/ \E op \in AgentControls : Control(op)
           \/ attach_to_bus \/ CloseBus \/ ClearTransport \/ ClearReference
    BY <1>6 DEF Attach, Detach, Control, attach_to_bus, CloseBus, ClearTransport, ClearReference,
             Interferes
<1>7. CASE UNCHANGED <<agent_vars, agent_observers>>
    BY <1>7 DEF agent_vars
<1> QED
    BY <1>1, <1>2, <1>3, <1>4, <1>5, <1>6, <1>7 DEF AgentNext

LEMMA SequencesGoOn ==
    SessionInv /\ TellInv /\ SequenceInv /\ SessionInv'
        /\ [AgentNext]_<<agent_vars, agent_observers>> => SequenceInv'
<1> SUFFICES ASSUME SessionInv, TellInv, SequenceInv, SessionInv',
                    [AgentNext]_<<agent_vars, agent_observers>>
             PROVE  SequenceInv'
    OBVIOUS
<1> SUFFICES ASSUME NEW r \in DOMAIN agent_runs', agent_runs'[r].object # 0
             PROVE  \A i \in ToldIn(told', r) :
                       told'[i].event.sequence \in agent_runs'[r].number ..
                          adapter'.objects[agent_runs'[r].object].step_count
    BY DEF SequenceInv, SequencesOf
<1> DEFINE u == agent_runs[r]
           v == agent_runs'[r]
           o == v.object
           count == adapter'.objects[o].step_count
<1>1. ~ClearReference
  <2> SUFFICES ASSUME ClearReference PROVE FALSE
      OBVIOUS
  <2>1. r \in DOMAIN agent_runs /\ v = [u EXCEPT !.object = 0]
      BY DEF ClearReference
  <2>2. DOMAIN u = RunFields
      BY <2>1 DEF SessionInv, RunsType, RunType
  <2> HIDE DEF u
  <2> QED
      BY <2>1, <2>2 DEF RunFields
<1>2. v.number \in 1 .. count /\ count \in Nat
  <2>1. RunsType(agent_runs', Len(adapter'.objects)) /\ CountsAdd(agent_runs', adapter')
      BY DEF SessionInv
  <2> QED
      BY <2>1, NumberIs
<1>3. ASSUME NEW i \in ToldIn(told, r)
      PROVE  told[i].event.sequence \in v.number .. count
  <2>1. r \in DOMAIN agent_runs
      BY <1>3 DEF ToldIn, TellInv, TellType
  <2>2. v.object = u.object /\ v.number = u.number
      BY <1>1, <2>1, RunsAreKept DEF SameRun
  <2>3. told[i].event.sequence \in u.number .. adapter.objects[u.object].step_count
      BY <1>3, <2>1, <2>2 DEF SequenceInv, SequencesOf
  <2>4. /\ adapter.objects[o].step_count \in Nat
        /\ adapter.objects[o].step_count <= count
      BY <1>1, <2>1, <2>2, CountsRise
  <2> HIDE DEF u, v, o, count
  <2>5. u.number = v.number /\ u.object = o
      BY <2>2 DEF o
  <2> QED
      BY <1>2, <2>3, <2>4, <2>5
<1>4. CASE told' = told
    BY <1>3, <1>4
<1>5. ASSUME NEW s \in DOMAIN agent_runs', NEW rec, Numbers(s, rec)
      PROVE  \A i \in ToldIn(told', r) : told'[i].event.sequence \in v.number .. count
  <2> DEFINE m == Len(told) + 1
  <2>1. /\ told' = Grown(told, rec) /\ rec.run = s
        /\ rec.event.sequence = adapter'.objects[agent_runs'[s].object].step_count
      BY <1>5 DEF Numbers
  <2>2. /\ Extends(told, told') /\ told'[m] = rec
        /\ ToldIn(told', r) = IF s = r THEN ToldIn(told, r) \cup {m} ELSE ToldIn(told, r)
      BY <2>1, GrownIs, GrownExtends, OwnGrows DEF TellInv, TellType
  <2>3. \A i \in ToldIn(told, r) : told'[i] = told[i]
      BY <2>2 DEF ToldIn, Extends
  <2>4. s = r => rec.event.sequence = count
      BY <2>1
  <2> HIDE DEF v, count, m
  <2>5. s = r => rec.event.sequence \in v.number .. count
      BY <1>2, <2>4
  <2> QED
      BY <1>3, <2>2, <2>3, <2>5
<1> QED
    BY <1>4, <1>5, ToldGrows

-----------------------------------------------------------------------------
(***************************************************************************)
(* What a step tells.                                                      *)
(***************************************************************************)
\* An event that has the id of one of a plan is of the step the plan is of.
LEMMA OfItsStep ==
    ASSUME TellInv, NEW run, RunShape(run), NEW p \in DOMAIN run.plan, NEW i \in DOMAIN told,
           told[i].event.event_id = run.plan[p].event_id
    PROVE  OfStep(i, run)
<1> DEFINE q == told[i].run
           u == agent_runs[q]
<1>1. /\ q \in DOMAIN agent_runs /\ i \in ToldIn(told, q)
      /\ RunTells(u, q, told)
    BY DEF TellInv, TellType, ToldIn
<1>2. PICK g \in Past(u) : Holds(told, i, u.plan[g])
    BY <1>1 DEF RunTells
<1>3. /\ PlanShape(u.plan, u.execution_id, u.step_index) /\ g \in DOMAIN u.plan
      /\ PlanShape(run.plan, run.execution_id, run.step_index)
    BY <1>1, ShapeIs DEF RunTells, RunShape
<1> HIDE DEF q, u
<1>4. told[i].event.event_id = u.plan[g].event_id
    BY <1>2, <1>3, HoldsId
<1>5. /\ u.plan[g].event_id[2] = u.execution_id /\ u.plan[g].event_id[3] = u.step_index
      /\ run.plan[p].event_id[2] = run.execution_id /\ run.plan[p].event_id[3] = run.step_index
    BY <1>3, EventIs
<1> QED
    BY <1>4, <1>5 DEF OfStep, u, q

LEMMA InvSaysIt ==
    SessionInv /\ ProcessInv /\ TellInv /\ SequenceInv => StepsAreTold
<1> SUFFICES ASSUME SessionInv, ProcessInv, TellInv, SequenceInv, NEW r \in DOMAIN agent_runs
             PROVE  LET run == agent_runs[r]
                        own == ToldOf(r)
                        past == 1..(run.next - 1)
                    IN /\ run.pc \in {"running", "failed"} => own = {}
                       /\ r \in processes.killed => run.pc \in {"running", "failed"}
                       /\ \A p \in past : \E i \in DOMAIN told :
                             OfStep(i, run) /\ Tells(i, run.plan[p])
                       /\ \A i \in own : \E p \in past : Tells(i, run.plan[p])
                       /\ \A i, j \in own, p, q \in past :
                            i < j /\ Tells(i, run.plan[p]) /\ Tells(j, run.plan[q]) => p < q
                       /\ run.pc = "done" /\ run.next <= Len(run.plan) => Lost(r)
                       /\ run.object # 0 => \A i \in own :
                            told[i].event.sequence \in
                               run.number..adapter.objects[run.object].step_count
    BY DEF StepsAreTold
<1> DEFINE run == agent_runs[r]
           own == ToldOf(r)
           past == 1..(run.next - 1)
<1>1. /\ own = ToldIn(told, r) /\ past = Past(run)
      /\ \A i, d : Tells(i, d) <=> Holds(told, i, d)
    BY DEF ToldOf, ToldIn, Past, Tells, Holds
<1>2. /\ RunTells(run, r, told) /\ LostTo(run, r, told, agent_bus, setup.isolates)
      /\ RunShape(run) /\ SequencesOf(run, r, told, adapter)
    BY DEF TellInv, RunTells, SequenceInv
<1>3. Past(run) \subseteq DOMAIN run.plan
    BY <1>2, ShapeIs
<1>4. r \in processes.killed => run.pc \in {"running", "failed"}
    BY DEF ProcessInv, ProcessesOf
<1> HIDE DEF own, past
<1>5. run.pc \in {"running", "failed"} => own = {}
  <2> SUFFICES ASSUME run.pc \in {"running", "failed"} PROVE own = {}
      OBVIOUS
  <2>1. Past(run) = {}
      BY <1>2, ShapeIs DEF RunShape
  <2> QED
      BY <1>1, <1>2, <2>1 DEF RunTells
<1>6. ASSUME NEW p \in past
      PROVE  \E i \in DOMAIN told : OfStep(i, run) /\ Tells(i, run.plan[p])
  <2>1. PICK i \in DOMAIN told : Holds(told, i, run.plan[p])
      BY <1>1, <1>2 DEF RunTells
  <2>2. p \in DOMAIN run.plan /\ PlanShape(run.plan, run.execution_id, run.step_index)
      BY <1>1, <1>2, <1>3 DEF RunShape
  <2> HIDE DEF run
  <2>3. told[i].event.event_id = run.plan[p].event_id
      BY <2>1, <2>2, HoldsId
  <2>4. OfStep(i, run)
      BY <1>2, <2>2, <2>3, OfItsStep
  <2> QED
      BY <1>1, <2>1, <2>4
<1>7. /\ \A i \in own : \E p \in past : Tells(i, run.plan[p])
      /\ \A i, j \in own, p, q \in past :
            i < j /\ Tells(i, run.plan[p]) /\ Tells(j, run.plan[q]) => p < q
    BY <1>1, <1>2 DEF RunTells
<1>8. run.pc = "done" /\ run.next <= Len(run.plan) => Lost(r)
  <2> SUFFICES ASSUME run.pc = "done", run.next <= Len(run.plan), agent_bus # "closed",
                      NEW i \in DOMAIN told \ own,
                      told[i].event.event_id = run.plan[run.next].event_id
               PROVE  OfStep(i, run)
      BY <1>1, <1>2 DEF LostTo, Lost, own, run
  <2>1. run.next \in DOMAIN run.plan
      BY <1>2, ShapeIs DEF RunShape
  <2> HIDE DEF run
  <2> QED
      BY <1>2, <2>1, OfItsStep
<1>9. run.object # 0 => \A i \in own :
         told[i].event.sequence \in run.number..adapter.objects[run.object].step_count
    BY <1>1, <1>2 DEF SequencesOf
<1> QED
    BY <1>4, <1>5, <1>6, <1>7, <1>8, <1>9 DEF run, own, past

\* What the bus is told of a step, whatever publish raises: its events in the
\* order of its plan, none of a step that failed or was killed, and a step is
\* cut short only when the bus is closed, when a handler that is not isolated
\* raised on the event the run told last, or when another run of the same step
\* told the event that was due.
THEOREM AStepIsTold == AgentSpec => []StepsAreTold
<1> DEFINE Inv == SessionInv /\ ProcessInv /\ TellInv /\ SequenceInv
<1>1. AgentInit => Inv
  <2>1. AgentInit => SequenceInv
      BY DEF AgentInit, SequenceInv
  <2> QED
      BY <2>1, SessionsBegin, ProcessesBegin, TellsBegin
<1>2. Inv /\ [AgentNext]_<<agent_vars, agent_observers>> => Inv'
    BY SessionsGoOn, ProcessesGoOn, TellsGoOn, SequencesGoOn
<1>3. Inv => StepsAreTold
    BY InvSaysIt
<1> QED
    BY <1>1, <1>2, <1>3, PTL DEF AgentSpec

-----------------------------------------------------------------------------
(***************************************************************************)
(* Calls and replies.  A record of an observer is seen as its two events,  *)
(* the name they share and whether it is still open.                       *)
(***************************************************************************)
Kinds == {<<"TOOL_CALLED", "TOOL_COMPLETED">>, <<"WEB_REQUEST", "WEB_RESPONSE">>}

Name(e) == IF e.type \in {"TOOL_CALLED", "TOOL_COMPLETED"} THEN e.tool ELSE e.url

\* The run publishes the reply to what it is past, which the bus does not know.
Awaits(run, reply, tl) ==
    /\ run.pc = "publishing" /\ run.plan[run.next].type = reply
    /\ ~Has(tl, run.plan[run.next].event_id)

Question(run) == run.plan[run.next - 1]

\* A pair of events of one item of step k of x.
Paired(c, d, x, k) ==
    /\ \E tags \in {<<"tool_called", "tool_comp">>, <<"web_req", "web_resp">>} :
         \E n \in Nat : /\ c.event_id = <<tags[1], x, k, n>>
                        /\ d.event_id = <<tags[2], x, k, n>>
    /\ Name(c) = Name(d)

PairsOf(w, past, none, reply, x, runs, tl) ==
    /\ \A id \in past : Has(tl, id)
    /\ \A i \in DOMAIN w :
         /\ w[i].first \in past /\ w[i].first # none
         /\ IF w[i].open THEN w[i].second = none
            ELSE w[i].second # none /\ Pair(w[i].first, w[i].second)
    /\ \A i, j \in DOMAIN w : w[i].first = w[j].first => i = j
    /\ \A i \in DOMAIN w : w[i].open =>
         \E r \in DOMAIN runs :
            /\ runs[r].execution_id = x /\ Awaits(runs[r], reply, tl)
            /\ w[i].first = Question(runs[r]).event_id /\ w[i].name = Name(Question(runs[r]))
    /\ \A r \in DOMAIN runs : runs[r].execution_id = x /\ Awaits(runs[r], reply, tl) =>
         \E i \in DOMAIN w : w[i].open /\ w[i].first = Question(runs[r]).event_id

InvocationFields ==
    {"key", "tool", "status", "success", "failed", "duration", "started", "completed",
     "call_event", "completion_event"}

InvocationsAre(invs) ==
    /\ IsSeq(invs)
    /\ \A i \in DOMAIN invs : /\ DOMAIN invs[i] = InvocationFields
                              /\ invs[i].key = <<"call", invs[i].call_event>>

ToolView(invs) ==
    [i \in DOMAIN invs |-> [first |-> invs[i].call_event, second |-> invs[i].completion_event,
                            name |-> invs[i].tool, open |-> invs[i].status = "CALLED"]]

ActivityFields ==
    {"key", "url", "status", "status_code", "bytes", "success", "duration", "requested",
     "responded", "request_event", "response_event"}

ActivitiesAre(acts) ==
    /\ IsSeq(acts)
    /\ \A i \in DOMAIN acts : /\ DOMAIN acts[i] = ActivityFields
                              /\ acts[i].key = <<"req", acts[i].request_event>>

WebView(acts) ==
    [i \in DOMAIN acts |-> [first |-> acts[i].request_event, second |-> acts[i].response_event,
                            name |-> acts[i].url, open |-> acts[i].status = "REQUESTED"]]

ToolPairs(x) ==
    /\ InvocationsAre(tools[x].invocations)
    /\ PairsOf(ToolView(tools[x].invocations), tools[x].seen, NoTool, "TOOL_COMPLETED", x,
               agent_runs, told)

WebPairs(x) ==
    /\ ActivitiesAre(web[x].activities)
    /\ PairsOf(WebView(web[x].activities), web[x].seen, NoWeb, "WEB_RESPONSE", x,
               agent_runs, told)

OneLive(runs) ==
    \A r, q \in DOMAIN runs :
        runs[r].execution_id = runs[q].execution_id
           /\ runs[r].pc \notin Ended /\ runs[q].pc \notin Ended => r = q

ObserversAre ==
    tools = [x \in ToolExecutions |-> tools[x]] /\ web = [x \in WebExecutions |-> web[x]]

\* As long as the bus is not closed a call it knows is answered, or is the last
\* one of a run that is publishing.
Asking(x, id, runs) ==
    \E r \in DOMAIN runs :
        /\ runs[r].execution_id = x /\ runs[r].pc = "publishing" /\ runs[r].next > 1
        /\ Question(runs[r]).event_id = id

Answered(x, runs, tl) ==
    \A c, d, k : Paired(c, d, x, k) /\ Has(tl, c.event_id) =>
        Has(tl, d.event_id) \/ Asking(x, c.event_id, runs)

OpenPairs ==
    /\ OneLive(agent_runs)
    /\ \A x \in AgentExecutions : /\ ToolPairs(x) /\ WebPairs(x)
                                  /\ Answered(x, agent_runs, told)

PairInv ==
    /\ ObserversAre
    /\ Sequential /\ QuestionsPass =>
         IF agent_bus # "closed" THEN OpenPairs
         ELSE \A x \in AgentExecutions : Matched(x)

-----------------------------------------------------------------------------
(***************************************************************************)
(* A reply of a plan follows its call.                                     *)
(***************************************************************************)
LEMMA PairedIs ==
    ASSUME NEW c, NEW d, NEW x, NEW k, IsPair(c, d, x, k)
    PROVE  Paired(c, d, x, k) /\ <<c.type, d.type>> \in Kinds
<1>1. CASE IsToolPair(c, d, x, k)
  <2>1. PICK n \in Nat : /\ c.event_id = <<"tool_called", x, k, n>>
                         /\ d.event_id = <<"tool_comp", x, k, n>>
      BY <1>1 DEF IsToolPair
  <2> DEFINE tags == <<"tool_called", "tool_comp">>
  <2>2. c.event_id = <<tags[1], x, k, n>> /\ d.event_id = <<tags[2], x, k, n>>
      BY <2>1
  <2>3. tags \in {<<"tool_called", "tool_comp">>, <<"web_req", "web_resp">>}
      OBVIOUS
  <2> HIDE DEF tags
  <2>4. Name(c) = Name(d) /\ <<c.type, d.type>> \in Kinds
      BY <1>1 DEF IsToolPair, Name, Kinds
  <2> QED
      BY <2>2, <2>3, <2>4 DEF Paired
<1>2. CASE IsWebPair(c, d, x, k)
  <2>1. PICK n \in Nat : /\ c.event_id = <<"web_req", x, k, n>>
                         /\ d.event_id = <<"web_resp", x, k, n>>
      BY <1>2 DEF IsWebPair
  <2> DEFINE tags == <<"web_req", "web_resp">>
  <2>2. c.event_id = <<tags[1], x, k, n>> /\ d.event_id = <<tags[2], x, k, n>>
      BY <2>1
  <2>3. tags \in {<<"tool_called", "tool_comp">>, <<"web_req", "web_resp">>}
      OBVIOUS
  <2> HIDE DEF tags
  <2>4. Name(c) = Name(d) /\ <<c.type, d.type>> \in Kinds
      BY <1>2 DEF IsWebPair, Name, Kinds
  <2> QED
      BY <2>2, <2>3, <2>4 DEF Paired
<1> QED
    BY <1>1, <1>2 DEF IsPair

LEMMA TypesAre ==
    ASSUME NEW plan, NEW x, NEW k, PlanShape(plan, x, k), NEW i \in DOMAIN plan,
           NEW call, NEW reply, <<call, reply>> \in Kinds
    PROVE  /\ plan[i].type = reply => /\ i - 1 \in DOMAIN plan /\ plan[i - 1].type = call
                                      /\ Paired(plan[i - 1], plan[i], x, k)
           /\ plan[i].type = call => /\ i + 1 \in DOMAIN plan /\ plan[i + 1].type = reply
                                     /\ Paired(plan[i], plan[i + 1], x, k)
<1>1. \/ IsStep(plan[i], x, k)
      \/ i + 1 \in DOMAIN plan /\ IsPair(plan[i], plan[i + 1], x, k)
      \/ i - 1 \in DOMAIN plan /\ IsPair(plan[i - 1], plan[i], x, k)
    BY DEF PlanShape
<1>2. \/ call = "TOOL_CALLED" /\ reply = "TOOL_COMPLETED"
      \/ call = "WEB_REQUEST" /\ reply = "WEB_RESPONSE"
    BY DEF Kinds
<1>3. CASE IsStep(plan[i], x, k)
    BY <1>2, <1>3 DEF IsStep
<1>4. CASE i + 1 \in DOMAIN plan /\ IsPair(plan[i], plan[i + 1], x, k)
  <2> DEFINE c == plan[i]
             d == plan[i + 1]
  <2>1. Paired(c, d, x, k) /\ <<c.type, d.type>> \in Kinds
      BY <1>4, PairedIs
  <2> HIDE DEF c, d
  <2>2. c.type = call => d.type = reply
      BY <1>2, <2>1 DEF Kinds
  <2>3. c.type # reply
      BY <1>2, <2>1 DEF Kinds
  <2> QED
      BY <1>4, <2>1, <2>2, <2>3 DEF c, d
<1>5. CASE i - 1 \in DOMAIN plan /\ IsPair(plan[i - 1], plan[i], x, k)
  <2> DEFINE c == plan[i - 1]
             d == plan[i]
  <2>1. Paired(c, d, x, k) /\ <<c.type, d.type>> \in Kinds
      BY <1>5, PairedIs
  <2> HIDE DEF c, d
  <2>2. d.type = reply => c.type = call
      BY <1>2, <2>1 DEF Kinds
  <2>3. d.type # call
      BY <1>2, <2>1 DEF Kinds
  <2> QED
      BY <1>5, <2>1, <2>2, <2>3 DEF c, d
<1> QED
    BY <1>1, <1>3, <1>4, <1>5

\* The reply to an event is told by its id alone.
LEMMA ReplyTells ==
    ASSUME NEW c, NEW d, NEW x, NEW k, Paired(c, d, x, k),
           NEW plan, NEW y, NEW l, PlanShape(plan, y, l), NEW p \in DOMAIN plan,
           plan[p].event_id = d.event_id
    PROVE  p - 1 \in DOMAIN plan /\ plan[p - 1].event_id = c.event_id
<1>1. PICK n \in Nat : \/ /\ c.event_id = <<"tool_called", x, k, n>>
                          /\ d.event_id = <<"tool_comp", x, k, n>>
                       \/ /\ c.event_id = <<"web_req", x, k, n>>
                          /\ d.event_id = <<"web_resp", x, k, n>>
    BY DEF Paired
<1>2. d.event_id[1] \in {"tool_comp", "web_resp"}
    BY <1>1
<1>3. CASE IsStep(plan[p], y, l)
    BY <1>2, <1>3 DEF IsStep
<1>4. CASE p + 1 \in DOMAIN plan /\ IsPair(plan[p], plan[p + 1], y, l)
  <2>1. plan[p].event_id[1] \in {"tool_called", "web_req"}
      BY <1>4 DEF IsPair, IsToolPair, IsWebPair
  <2> QED
      BY <1>2, <2>1
<1>5. CASE p - 1 \in DOMAIN plan /\ IsPair(plan[p - 1], plan[p], y, l)
  <2>1. PICK m \in Nat : \/ /\ plan[p - 1].event_id = <<"tool_called", y, l, m>>
                            /\ plan[p].event_id = <<"tool_comp", y, l, m>>
                         \/ /\ plan[p - 1].event_id = <<"web_req", y, l, m>>
                            /\ plan[p].event_id = <<"web_resp", y, l, m>>
      BY <1>5 DEF IsPair, IsToolPair, IsWebPair
  <2> QED
      BY <1>1, <1>5, <2>1
<1> QED
    BY <1>3, <1>4, <1>5 DEF PlanShape

\* A call is followed by its reply, and is told by its id alone.
LEMMA CallTells ==
    ASSUME NEW c, NEW d, NEW x, NEW k, Paired(c, d, x, k),
           NEW plan, NEW y, NEW l, PlanShape(plan, y, l), NEW p \in DOMAIN plan,
           plan[p].event_id = c.event_id
    PROVE  /\ p + 1 \in DOMAIN plan /\ plan[p + 1].event_id = d.event_id
           /\ plan[p].type \in {"TOOL_CALLED", "WEB_REQUEST"}
<1>1. PICK n \in Nat : \/ /\ c.event_id = <<"tool_called", x, k, n>>
                          /\ d.event_id = <<"tool_comp", x, k, n>>
                       \/ /\ c.event_id = <<"web_req", x, k, n>>
                          /\ d.event_id = <<"web_resp", x, k, n>>
    BY DEF Paired
<1>2. c.event_id[1] \in {"tool_called", "web_req"}
    BY <1>1
<1>3. CASE IsStep(plan[p], y, l)
    BY <1>2, <1>3 DEF IsStep
<1>4. CASE p - 1 \in DOMAIN plan /\ IsPair(plan[p - 1], plan[p], y, l)
  <2>1. plan[p].event_id[1] \in {"tool_comp", "web_resp"}
      BY <1>4 DEF IsPair, IsToolPair, IsWebPair
  <2> QED
      BY <1>2, <2>1
<1>5. CASE p + 1 \in DOMAIN plan /\ IsPair(plan[p], plan[p + 1], y, l)
  <2>1. PICK m \in Nat : \/ /\ plan[p].event_id = <<"tool_called", y, l, m>>
                            /\ plan[p + 1].event_id = <<"tool_comp", y, l, m>>
                         \/ /\ plan[p].event_id = <<"web_req", y, l, m>>
                            /\ plan[p + 1].event_id = <<"web_resp", y, l, m>>
      BY <1>5 DEF IsPair, IsToolPair, IsWebPair
  <2>2. plan[p].type \in {"TOOL_CALLED", "WEB_REQUEST"}
      BY <1>5 DEF IsPair, IsToolPair, IsWebPair
  <2> QED
      BY <1>1, <1>5, <2>1, <2>2
<1> QED
    BY <1>3, <1>4, <1>5 DEF PlanShape

LEMMA IdsArePaired ==
    ASSUME NEW c, NEW d, NEW x \in AgentExecutions, NEW k \in StepIndices, Paired(c, d, x, k)
    PROVE  /\ Pair(c.event_id, d.event_id)
           /\ c.event_id \notin {NoTool, NoWeb} /\ d.event_id \notin {NoTool, NoWeb}
<1>1. PICK n \in Nat, s \in Tags, t \in Tags : /\ c.event_id = <<s, x, k, n>>
                                               /\ d.event_id = <<t, x, k, n>>
  <2>1. /\ "tool_called" \in Tags /\ "tool_comp" \in Tags
        /\ "web_req" \in Tags /\ "web_resp" \in Tags
      BY DEF Tags
  <2>2. PICK n \in Nat : \/ /\ c.event_id = <<"tool_called", x, k, n>>
                            /\ d.event_id = <<"tool_comp", x, k, n>>
                         \/ /\ c.event_id = <<"web_req", x, k, n>>
                            /\ d.event_id = <<"web_resp", x, k, n>>
      BY DEF Paired
  <2> QED
      BY <2>1, <2>2
<1> DEFINE S == Tags \cup Nat \cup AgentExecutions \cup StepIndices
<1>2. s \in S /\ t \in S /\ x \in S /\ k \in S /\ n \in S
    BY DEF Tags
<1>3. {NoTool, NoWeb} \cap Seq(S) = {}
    BY AgentAssumption
<1> HIDE DEF S
<1>4. c.event_id \in Seq(S) /\ d.event_id \in Seq(S)
    BY <1>1, <1>2
<1>5. \A p \in 2..4 : c.event_id[p] = d.event_id[p]
  <2>1. \A p \in 2..4 : p = 2 \/ p = 3 \/ p = 4
      OBVIOUS
  <2> QED
      BY <1>1, <2>1
<1> QED
    BY <1>1, <1>3, <1>4, <1>5 DEF Pair

-----------------------------------------------------------------------------
(***************************************************************************)
(* What becomes of the pairs.                                              *)
(***************************************************************************)
\* The same runs of x publish a reply, from runs to s.
SameAwaiting(runs, s, tl, t, reply, x) ==
    /\ \A q \in DOMAIN runs : runs[q].execution_id = x /\ Awaits(runs[q], reply, tl) =>
          q \in DOMAIN s /\ AsBefore(runs[q], s[q]) /\ Awaits(s[q], reply, t)
    /\ \A q \in DOMAIN s : s[q].execution_id = x /\ Awaits(s[q], reply, t) =>
          q \in DOMAIN runs /\ AsBefore(runs[q], s[q]) /\ Awaits(runs[q], reply, tl)

Remembers(tl, t) == \A id : Has(tl, id) => Has(t, id)

LEMMA PairsStay ==
    ASSUME NEW w, NEW past, NEW none, NEW reply, NEW x, NEW runs, NEW s, NEW tl, NEW t,
           PairsOf(w, past, none, reply, x, runs, tl), SameAwaiting(runs, s, tl, t, reply, x),
           Remembers(tl, t)
    PROVE  PairsOf(w, past, none, reply, x, s, t)
<1>1. \A id \in past : Has(t, id)
    BY DEF PairsOf, Remembers
<1>2. ASSUME NEW i \in DOMAIN w, w[i].open
      PROVE  \E r \in DOMAIN s :
                /\ s[r].execution_id = x /\ Awaits(s[r], reply, t)
                /\ w[i].first = Question(s[r]).event_id /\ w[i].name = Name(Question(s[r]))
  <2>1. PICK r \in DOMAIN runs :
                /\ runs[r].execution_id = x /\ Awaits(runs[r], reply, tl)
                /\ w[i].first = Question(runs[r]).event_id /\ w[i].name = Name(Question(runs[r]))
      BY <1>2 DEF PairsOf
  <2>2. r \in DOMAIN s /\ AsBefore(runs[r], s[r]) /\ Awaits(s[r], reply, t)
      BY <2>1 DEF SameAwaiting
  <2>3. Question(s[r]) = Question(runs[r]) /\ Awaits(s[r], reply, t) /\ s[r].execution_id = x
      BY <2>1, <2>2 DEF Question, AsBefore
  <2> QED
      BY <2>1, <2>2, <2>3
<1>3. ASSUME NEW r \in DOMAIN s, s[r].execution_id = x, Awaits(s[r], reply, t)
      PROVE  \E i \in DOMAIN w : w[i].open /\ w[i].first = Question(s[r]).event_id
  <2>1. r \in DOMAIN runs /\ AsBefore(runs[r], s[r]) /\ Awaits(runs[r], reply, tl)
      BY <1>3 DEF SameAwaiting
  <2>2. /\ Question(s[r]) = Question(runs[r]) /\ Awaits(runs[r], reply, tl)
        /\ runs[r].execution_id = x
      BY <1>3, <2>1 DEF Question, AsBefore
  <2> QED
      BY <2>1, <2>2 DEF PairsOf
<1> QED
    BY <1>1, <1>2, <1>3 DEF PairsOf

\* A record is opened by the event id.
Opens(w, v, id, name, none) ==
    \E n : /\ n \notin DOMAIN w /\ DOMAIN v = DOMAIN w \cup {n}
           /\ \A i \in DOMAIN w : v[i] = w[i]
           /\ v[n].first = id /\ v[n].second = none /\ v[n].name = name /\ v[n].open

\* An open record is closed by the event id.
Closes(w, v, id) ==
    \E n \in DOMAIN w :
        /\ DOMAIN v = DOMAIN w
        /\ \A i \in DOMAIN w : i # n => v[i] = w[i]
        /\ w[n].open /\ ~v[n].open
        /\ v[n].first = w[n].first /\ v[n].second = id

\* The run r of x publishes the event that is due, from runs to s.
Publishes(runs, s, r, x, k) ==
    /\ r \in DOMAIN runs /\ OneMoves(runs, s, r) /\ OneLive(runs)
    /\ runs[r].pc = "publishing" /\ runs[r].execution_id = x /\ runs[r].step_index = k
    /\ PlanShape(runs[r].plan, x, k)
    /\ runs[r].next \in DOMAIN runs[r].plan /\ DOMAIN runs[r].plan \subseteq Nat
    /\ s[r].plan = runs[r].plan /\ s[r].next = runs[r].next + 1
    /\ s[r].pc \in {"publishing", "done"}
    /\ s[r].pc = "publishing" => runs[r].next # Len(runs[r].plan)

\* The event e is the next of the run r.
IsNext(runs, r, e) == e = runs[r].plan[runs[r].next]

\* The events taken are one more.
Takes(past, id, later) == later = past \cup {id}

\* A run that published a call goes on to its reply, which the bus does not know.
GoesOn(runs, s, r, t) ==
    runs[r].plan[runs[r].next].type \in {"TOOL_CALLED", "WEB_REQUEST"} =>
        /\ runs[r].next # Len(runs[r].plan) => s[r].pc = "publishing"
        /\ ~Has(t, runs[r].plan[runs[r].next + 1].event_id)

LEMMA OnlyOneAwaits ==
    ASSUME NEW runs, NEW s, NEW r, NEW x, NEW k, Publishes(runs, s, r, x, k), NEW reply,
           NEW tl, NEW t
    PROVE  /\ \A q \in DOMAIN runs : runs[q].execution_id = x /\ Awaits(runs[q], reply, tl) => q = r
           /\ \A q \in DOMAIN s : s[q].execution_id = x /\ Awaits(s[q], reply, t) => q = r
           /\ DOMAIN s = DOMAIN runs /\ r \in DOMAIN runs /\ s[r].execution_id = x
<1>1. \A q \in DOMAIN runs : runs[q].execution_id = x /\ runs[q].pc = "publishing" => q = r
    BY DEF Publishes, OneLive, Ended
<1>2. /\ DOMAIN s = DOMAIN runs /\ \A q \in DOMAIN runs \ {r} : s[q] = runs[q]
      /\ r \in DOMAIN runs /\ s[r].execution_id = x
    BY DEF Publishes, OneMoves, SameRun
<1> QED
    BY <1>1, <1>2 DEF Awaits

LEMMA PairOpens ==
    ASSUME NEW runs, NEW s, NEW r, NEW x \in AgentExecutions, NEW k \in StepIndices,
           Publishes(runs, s, r, x, k),
           NEW call, NEW reply, <<call, reply>> \in Kinds,
           NEW c, IsNext(runs, r, c), c.type = call,
           NEW none \in {NoTool, NoWeb}, NEW w, NEW past, NEW later, NEW tl, NEW t,
           PairsOf(w, past, none, reply, x, runs, tl), Remembers(tl, t),
           c.event_id \notin past, Has(t, c.event_id), GoesOn(runs, s, r, t),
           NEW v, Opens(w, v, c.event_id, Name(c), none),
           Takes(past, c.event_id, later)
    PROVE  PairsOf(v, later, none, reply, x, s, t)
<1> DEFINE id == c.event_id
           all == past \cup {id}
           u == runs[r]
<1>1. /\ r \in DOMAIN runs /\ DOMAIN s = DOMAIN runs /\ s[r].execution_id = x
      /\ \A q \in DOMAIN runs : runs[q].execution_id = x /\ Awaits(runs[q], reply, tl) => q = r
      /\ \A q \in DOMAIN s : s[q].execution_id = x /\ Awaits(s[q], reply, t) => q = r
    BY OnlyOneAwaits
<1>0. c = runs[r].plan[runs[r].next]
    BY DEF IsNext
<1>2. call # reply
    BY DEF Kinds
<1>3. /\ PlanShape(u.plan, x, k) /\ u.next \in DOMAIN u.plan /\ DOMAIN u.plan \subseteq Nat
      /\ s[r].plan = u.plan /\ s[r].next = u.next + 1
      /\ s[r].pc \in {"publishing", "done"}
      /\ s[r].pc = "publishing" => u.next # Len(u.plan)
    BY DEF Publishes
<1> HIDE DEF u
<1>4. /\ u.next + 1 \in DOMAIN u.plan /\ u.plan[u.next + 1].type = reply
      /\ Paired(c, u.plan[u.next + 1], x, k)
  <2>1. c = u.plan[u.next] /\ u.plan[u.next].type = call
      BY <1>0 DEF u
  <2>2. /\ u.next + 1 \in DOMAIN u.plan /\ u.plan[u.next + 1].type = reply
        /\ Paired(u.plan[u.next], u.plan[u.next + 1], x, k)
      BY <1>3, <2>1, TypesAre
  <2> QED
      BY <2>1, <2>2
<1>5. id # none
    BY <1>4, IdsArePaired
<1>6. Awaits(s[r], reply, t) /\ Question(s[r]) = c
  <2>1. u.next # Len(u.plan) /\ u.next \in Nat /\ u.next + 1 - 1 = u.next
      BY <1>3, <1>4, SeqIs DEF PlanShape
  <2>2. s[r].pc = "publishing" /\ ~Has(t, u.plan[u.next + 1].event_id)
    <3>1. u.plan[u.next].type \in {"TOOL_CALLED", "WEB_REQUEST"}
        BY <1>0 DEF u, Kinds
    <3> QED
        BY <2>1, <3>1 DEF GoesOn, u
  <2>3. s[r].plan[s[r].next] = u.plan[u.next + 1]
      BY <1>3
  <2> QED
    <3>1. Awaits(s[r], reply, t)
        BY <1>4, <2>2, <2>3 DEF Awaits
    <3>2. s[r].plan[s[r].next - 1] = u.plan[u.next]
        BY <1>3, <2>1
    <3> QED
        BY <1>0, <3>1, <3>2 DEF Question, u
<1>7. \A i \in DOMAIN w : ~w[i].open
  <2>1. ~Awaits(u, reply, tl)
      BY <1>0, <1>2 DEF Awaits, u
  <2> QED
      BY <1>1, <2>1 DEF PairsOf, u
<1>8. PICK n : /\ n \notin DOMAIN w /\ DOMAIN v = DOMAIN w \cup {n}
               /\ \A i \in DOMAIN w : v[i] = w[i]
               /\ v[n].first = id /\ v[n].second = none /\ v[n].name = Name(c) /\ v[n].open
    BY DEF Opens
<1>9. /\ \A i \in past : Has(tl, i)
      /\ \A i \in DOMAIN w :
         /\ w[i].first \in past /\ w[i].first # none
         /\ IF w[i].open THEN w[i].second = none
            ELSE w[i].second # none /\ Pair(w[i].first, w[i].second)
      /\ \A i, j \in DOMAIN w : w[i].first = w[j].first => i = j
    BY DEF PairsOf
<1> HIDE DEF id
<1>10. id \notin past /\ Has(t, id)
    BY DEF id
<1>11. \A i \in all : Has(t, i)
    BY <1>9, <1>10 DEF Remembers
<1>12. \A i \in DOMAIN v :
         /\ v[i].first \in all /\ v[i].first # none
         /\ IF v[i].open THEN v[i].second = none
            ELSE v[i].second # none /\ Pair(v[i].first, v[i].second)
    BY <1>5, <1>8, <1>9
<1>13. \A i, j \in DOMAIN v : v[i].first = v[j].first => i = j
    BY <1>8, <1>9, <1>10
<1>14. \A i \in DOMAIN v : v[i].open =>
         \E q \in DOMAIN s :
            /\ s[q].execution_id = x /\ Awaits(s[q], reply, t)
            /\ v[i].first = Question(s[q]).event_id /\ v[i].name = Name(Question(s[q]))
    BY <1>1, <1>6, <1>7, <1>8 DEF id
<1>15. \A q \in DOMAIN s : s[q].execution_id = x /\ Awaits(s[q], reply, t) =>
         \E i \in DOMAIN v : v[i].open /\ v[i].first = Question(s[q]).event_id
    BY <1>1, <1>6, <1>8 DEF id
<1> HIDE DEF all
<1>16. PairsOf(v, all, none, reply, x, s, t)
    BY <1>11, <1>12, <1>13, <1>14, <1>15 DEF PairsOf
<1> QED
    BY <1>16 DEF all, id, Takes

LEMMA PairCloses ==
    ASSUME NEW runs, NEW s, NEW r, NEW x \in AgentExecutions, NEW k \in StepIndices,
           Publishes(runs, s, r, x, k),
           NEW call, NEW reply, <<call, reply>> \in Kinds,
           NEW d, IsNext(runs, r, d), d.type = reply,
           NEW none \in {NoTool, NoWeb}, NEW w, NEW past, NEW later, NEW tl, NEW t,
           PairsOf(w, past, none, reply, x, runs, tl), Remembers(tl, t),
           Has(t, d.event_id), ~Has(tl, d.event_id),
           NEW v, Closes(w, v, d.event_id), Takes(past, d.event_id, later)
    PROVE  PairsOf(v, later, none, reply, x, s, t)
<1> DEFINE id == d.event_id
           all == past \cup {id}
           u == runs[r]
           c == Question(u)
<1>1. /\ r \in DOMAIN runs /\ DOMAIN s = DOMAIN runs /\ s[r].execution_id = x
      /\ \A q \in DOMAIN runs : runs[q].execution_id = x /\ Awaits(runs[q], reply, tl) => q = r
      /\ \A q \in DOMAIN s : s[q].execution_id = x /\ Awaits(s[q], reply, t) => q = r
    BY OnlyOneAwaits
<1>0. d = runs[r].plan[runs[r].next]
    BY DEF IsNext
<1>2. call # reply
    BY DEF Kinds
<1>3. /\ PlanShape(u.plan, x, k) /\ u.next \in DOMAIN u.plan /\ DOMAIN u.plan \subseteq Nat
      /\ s[r].plan = u.plan /\ s[r].next = u.next + 1
      /\ s[r].pc \in {"publishing", "done"}
      /\ s[r].pc = "publishing" => u.next # Len(u.plan)
      /\ IsSeq(u.plan)
    BY DEF Publishes, PlanShape
<1> HIDE DEF u
<1>4. Paired(c, d, x, k)
  <2>1. d = u.plan[u.next] /\ u.plan[u.next].type = reply
      BY <1>0 DEF u
  <2>2. Paired(u.plan[u.next - 1], u.plan[u.next], x, k)
      BY <1>3, <2>1, TypesAre
  <2> QED
      BY <2>1, <2>2 DEF Question
<1>5. id # none /\ Pair(c.event_id, id)
    BY <1>4, IdsArePaired
<1>6. ~Awaits(s[r], reply, t)
  <2> SUFFICES ASSUME Awaits(s[r], reply, t) PROVE FALSE
      OBVIOUS
  <2>1. /\ u.next \in Nat /\ u.next # Len(u.plan) /\ Len(u.plan) \in Nat
        /\ DOMAIN u.plan = 1 .. Len(u.plan)
      BY <1>3, SeqIs DEF Awaits
  <2>2. u.next + 1 \in DOMAIN u.plan /\ u.next + 1 - 1 = u.next
      BY <1>3, <2>1
  <2>3. u.plan[u.next + 1].type = reply
      BY <1>3 DEF Awaits
  <2> DEFINE m == u.next + 1
  <2>4. u.plan[m - 1].type = call
    <3>1. m \in DOMAIN u.plan /\ u.plan[m].type = reply
        BY <2>2, <2>3
    <3> HIDE DEF m
    <3> QED
        BY <1>3, <3>1, TypesAre
  <2>5. m - 1 = u.next
      BY <2>1
  <2> HIDE DEF m
  <2>6. u.plan[u.next].type = call
      BY <2>4, <2>5
  <2> QED
      BY <1>0, <1>2, <2>6 DEF u
<1>7. \A i \in DOMAIN w : w[i].open => w[i].first = c.event_id
    BY <1>1 DEF PairsOf, u
<1>8. PICK n \in DOMAIN w :
               /\ DOMAIN v = DOMAIN w
               /\ \A i \in DOMAIN w : i # n => v[i] = w[i]
               /\ w[n].open /\ ~v[n].open
               /\ v[n].first = w[n].first /\ v[n].second = id
    BY DEF Closes
<1>9. /\ \A i \in past : Has(tl, i)
      /\ \A i \in DOMAIN w :
         /\ w[i].first \in past /\ w[i].first # none
         /\ IF w[i].open THEN w[i].second = none
            ELSE w[i].second # none /\ Pair(w[i].first, w[i].second)
      /\ \A i, j \in DOMAIN w : w[i].first = w[j].first => i = j
    BY DEF PairsOf
<1> HIDE DEF id, c
<1>10. Has(t, id)
    BY DEF id
<1>11. \A i \in all : Has(t, i)
    BY <1>9, <1>10 DEF Remembers
<1>12. \A i \in DOMAIN v :
         /\ v[i].first \in all /\ v[i].first # none
         /\ IF v[i].open THEN v[i].second = none
            ELSE v[i].second # none /\ Pair(v[i].first, v[i].second)
    BY <1>5, <1>7, <1>8, <1>9
<1>13. \A i, j \in DOMAIN v : v[i].first = v[j].first => i = j
    BY <1>8, <1>9
<1>14. \A i \in DOMAIN v : ~v[i].open
    BY <1>7, <1>8, <1>9
<1>15. \A q \in DOMAIN s : ~(s[q].execution_id = x /\ Awaits(s[q], reply, t))
    BY <1>1, <1>6
<1> HIDE DEF all
<1>16. PairsOf(v, all, none, reply, x, s, t)
    BY <1>11, <1>12, <1>13, <1>14, <1>15 DEF PairsOf
<1> QED
    BY <1>16 DEF all, id, Takes

-----------------------------------------------------------------------------
(***************************************************************************)
(* What the observers make of a call and of its reply.                     *)
(***************************************************************************)
LEMMA LeastElement ==
    ASSUME NEW S, S \subseteq Nat, S # {}
    PROVE  \E m \in S : \A n \in S : m <= n
<1> DEFINE R == OpToRel(<, Nat)
<1>1. IsWellFoundedOn(R, Nat)
    BY NatLessThanWellFounded
<1>2. PICK m \in S : \A n \in S : <<n, m>> \notin R
  <2> HIDE DEF R
  <2> QED
      BY <1>1, WFMin
<1>3. ASSUME NEW n \in S
      PROVE  m <= n
  <2>1. <<n, m>> \in Nat \X Nat
      OBVIOUS
  <2>2. ~ (n < m)
      BY <1>2, <2>1 DEF OpToRel
  <2> QED
      BY <2>2
<1> QED
    BY <1>2, <1>3

\* An index found by a search is one that passes the test, and the first.
LEMMA FirstIndex ==
    ASSUME NEW n \in Nat, NEW I \in SUBSET (1 .. n), NEW m, m = (IF I # {} THEN Min(I) ELSE 0)
    PROVE  IF I = {} THEN m = 0 ELSE m \in I /\ m # 0
<1>1. ASSUME I # {}
      PROVE  m \in I
  <2>1. I \subseteq Nat
      OBVIOUS
  <2>2. PICK k \in I : \A j \in I : k <= j
      BY <1>1, <2>1, LeastElement
  <2> QED
      BY <1>1, <2>2 DEF Min
<1>2. CASE I = {}
    BY <1>2
<1>3. CASE I # {}
  <2>1. m \in 1 .. n
      BY <1>1, <1>3
  <2> QED
      BY <1>1, <1>3, <2>1
<1> QED
    BY <1>2, <1>3

\* A sequence of one element more, and one with another element at i.
LEMMA OneElementMore ==
    ASSUME NEW s, IsSeq(s), NEW e
    PROVE  /\ IsSeq(Append(s, e)) /\ Len(s) + 1 \notin DOMAIN s
           /\ DOMAIN Append(s, e) = DOMAIN s \cup {Len(s) + 1}
           /\ Append(s, e)[Len(s) + 1] = e
           /\ \A i \in DOMAIN s : Append(s, e)[i] = s[i]
<1> DEFINE n == Len(s)
           t == Append(s, e)
<1>1. /\ n \in Nat /\ DOMAIN s = 1 .. n /\ IsSeq(t) /\ DOMAIN t = 1 .. (n + 1)
      /\ t[n + 1] = e /\ \A i \in 1 .. n : t[i] = s[i]
    BY SeqIs, AppendIs
<1> HIDE DEF n, t
<1>2. n + 1 \notin 1 .. n /\ 1 .. (n + 1) = 1 .. n \cup {n + 1}
    BY <1>1
<1> QED
    BY <1>1, <1>2 DEF n, t

LEMMA OneElementOther ==
    ASSUME NEW s, IsSeq(s), NEW n \in DOMAIN s, NEW e, NEW t, t = ReplaceAt(s, n, e)
    PROVE  /\ IsSeq(t) /\ DOMAIN t = DOMAIN s /\ t[n] = e
           /\ \A i \in DOMAIN s : i # n => t[i] = s[i]
<1>1. /\ DOMAIN t = DOMAIN s /\ t = [i \in DOMAIN s |-> t[i]] /\ t[n] = e
      /\ \A i \in DOMAIN s : i # n => t[i] = s[i]
    BY DEF ReplaceAt
<1>2. IsSeq(t)
    BY <1>1, ExceptIs
<1> QED
    BY <1>1, <1>2

LEMMA CallOpens ==
    ASSUME NEW a, InvocationsAre(a.invocations),
           \A i \in DOMAIN a.invocations : a.invocations[i].call_event \in a.seen,
           NEW e, e.type = "TOOL_CALLED", e.call_id = NoTool, e.event_id \notin a.seen,
           NEW b, b = ToolTaken(a, e)
    PROVE  /\ InvocationsAre(b.invocations) /\ b.seen = a.seen \cup {e.event_id}
           /\ Opens(ToolView(a.invocations), ToolView(b.invocations), e.event_id, e.tool, NoTool)
<1> DEFINE invs == a.invocations
           key == <<"call", e.event_id>>
           new == FirstCall(e)
           later == Append(invs, new)
           n == Len(invs) + 1
<1>1. IsSeq(invs) /\ Len(invs) \in Nat /\ DOMAIN invs = 1 .. Len(invs)
    BY SeqIs DEF InvocationsAre
<1>2. IndexOfKey(invs, key) = 0
  <2> DEFINE I == {j \in 1 .. Len(invs) : invs[j].key = key}
  <2>1. IndexOfKey(invs, key) = IF I # {} THEN Min(I) ELSE 0
      BY DEF IndexOfKey, SelectInSeq
  <2>2. I = {}
      BY <1>1 DEF InvocationsAre
  <2> QED
      BY <2>1, <2>2
<1>3. CallKey(e) = key
    BY DEF CallKey
<1>4. Call(invs, e) = later
    BY <1>2, <1>3 DEF Call
<1>5. b.invocations = later /\ b.seen = a.seen \cup {e.event_id}
    BY <1>4 DEF ToolTaken
<1>6. /\ DOMAIN new = InvocationFields /\ new.key = key
      /\ new.call_event = e.event_id /\ new.completion_event = NoTool
      /\ new.tool = e.tool /\ new.status = "CALLED"
  <2> DEFINE r == NewInvocation(e, key, "CALLED")
  <2>1. new = [r EXCEPT !.started = e.time, !.call_event = e.event_id]
      BY <1>3 DEF FirstCall
  <2>2. /\ DOMAIN r = InvocationFields /\ r.key = key /\ r.tool = e.tool
        /\ r.status = "CALLED" /\ r.completion_event = NoTool
      BY DEF NewInvocation, InvocationFields
  <2> HIDE DEF r, new, key
  <2> QED
      BY <2>1, <2>2 DEF InvocationFields
<1> HIDE DEF new, invs, later
<1>7. /\ IsSeq(later) /\ n \notin DOMAIN invs /\ DOMAIN later = DOMAIN invs \cup {n}
      /\ later[n] = new /\ \A i \in DOMAIN invs : later[i] = invs[i]
    BY <1>1, OneElementMore DEF later
<1> HIDE DEF n
<1>8. InvocationsAre(later)
    BY <1>6, <1>7 DEF InvocationsAre, invs
<1>9. Opens(ToolView(invs), ToolView(later), e.event_id, e.tool, NoTool)
    BY <1>6, <1>7 DEF Opens, ToolView
<1> QED
    BY <1>5, <1>8, <1>9 DEF invs

LEMMA CompletionCloses ==
    ASSUME NEW a, InvocationsAre(a.invocations),
           NEW e, e.type = "TOOL_COMPLETED", e.call_id = NoTool, e.event_id \notin a.seen,
           \E i \in DOMAIN a.invocations : /\ a.invocations[i].status = "CALLED"
                                           /\ a.invocations[i].tool = e.tool,
           NEW b, b = ToolTaken(a, e)
    PROVE  /\ InvocationsAre(b.invocations) /\ b.seen = a.seen \cup {e.event_id}
           /\ Closes(ToolView(a.invocations), ToolView(b.invocations), e.event_id)
<1> DEFINE invs == a.invocations
           n == OpenMatch(invs, e)
           old == invs[n]
           new == Completed(old, e)
           later == ReplaceAt(invs, n, new)
<1>1. IsSeq(invs) /\ Len(invs) \in Nat /\ DOMAIN invs = 1 .. Len(invs)
    BY SeqIs DEF InvocationsAre
<1>2. n # 0 /\ n \in DOMAIN invs /\ old.status = "CALLED"
  <2> DEFINE I == {j \in 1 .. Len(invs) :
                     invs[j].status = "CALLED" /\ e.tool \in {invs[j].tool, Unknown}}
             m == Len(invs)
  <2>1. n = IF I # {} THEN Min(I) ELSE 0
      BY DEF OpenMatch, SelectInSeq
  <2>2. I # {}
      BY <1>1
  <2>3. IF I = {} THEN n = 0 ELSE n \in I /\ n # 0
    <3>1. I \in SUBSET (1 .. m) /\ m \in Nat
        BY <1>1
    <3> HIDE DEF n, I, m
    <3> QED
        BY <2>1, <3>1, FirstIndex
  <2> QED
      BY <1>1, <2>2, <2>3
<1>3. Completion(invs, e) = later
    BY <1>2 DEF Completion
<1>4. b.invocations = later /\ b.seen = a.seen \cup {e.event_id}
    BY <1>3 DEF ToolTaken
<1>5. DOMAIN old = InvocationFields /\ old.key = <<"call", old.call_event>>
    BY <1>2 DEF InvocationsAre
<1> HIDE DEF old
<1>6. /\ DOMAIN new = InvocationFields /\ new.key = old.key
      /\ new.call_event = old.call_event /\ new.completion_event = e.event_id
      /\ new.status # "CALLED"
  <2> DEFINE tool == IF e.tool # Unknown THEN e.tool ELSE old.tool
             status == IF Succeeded(e) THEN "COMPLETED" ELSE "FAILED"
             ok == Succeeded(e)
             duration == IF e.duration # NoTool THEN ToolDuration(e.duration)
                         ELSE IF old.started # NoTool THEN Elapsed(old.started, e.time)
                         ELSE old.duration
  <2>1. new = [old EXCEPT !.completion_event = e.event_id, !.completed = e.time, !.tool = tool,
                          !.status = status, !.success = ok, !.failed = ~ok,
                          !.duration = duration]
      BY DEF Completed
  <2>2. status # "CALLED"
      OBVIOUS
  <2> HIDE DEF new, tool, status, ok, duration
  <2> QED
      BY <1>5, <2>1, <2>2 DEF InvocationFields
<1> HIDE DEF new, invs, n, later
<1>7. /\ IsSeq(later) /\ DOMAIN later = DOMAIN invs /\ later[n] = new
      /\ \A i \in DOMAIN invs : i # n => later[i] = invs[i]
  <2>1. n \in DOMAIN invs
      BY <1>2
  <2>2. IsSeq(invs) /\ later = ReplaceAt(invs, n, new)
      BY <1>1 DEF later
  <2> QED
      BY <2>1, <2>2, OneElementOther
<1>8. InvocationsAre(later)
    BY <1>5, <1>6, <1>7 DEF InvocationsAre, invs
<1>9. Closes(ToolView(invs), ToolView(later), e.event_id)
    BY <1>2, <1>6, <1>7 DEF Closes, ToolView, old
<1> QED
    BY <1>4, <1>8, <1>9 DEF invs

LEMMA RequestOpens ==
    ASSUME NEW a, ActivitiesAre(a.activities),
           \A i \in DOMAIN a.activities : a.activities[i].request_event \in a.seen,
           NEW e, e.type = "WEB_REQUEST", e.request_id = NoWeb, e.event_id \notin a.seen,
           NEW b, b = WebTaken(a, e)
    PROVE  /\ ActivitiesAre(b.activities) /\ b.seen = a.seen \cup {e.event_id}
           /\ Opens(WebView(a.activities), WebView(b.activities), e.event_id, e.url, NoWeb)
<1> DEFINE acts == a.activities
           key == <<"req", e.event_id>>
           new == FirstRequest(e)
           later == Append(acts, new)
           n == Len(acts) + 1
<1>1. IsSeq(acts) /\ Len(acts) \in Nat /\ DOMAIN acts = 1 .. Len(acts)
    BY SeqIs DEF ActivitiesAre
<1>2. IndexOfRequest(acts, key) = 0
  <2> DEFINE I == {j \in 1 .. Len(acts) : acts[j].key = key}
  <2>1. IndexOfRequest(acts, key) = IF I # {} THEN Min(I) ELSE 0
      BY DEF IndexOfRequest, SelectInSeq
  <2>2. I = {}
      BY <1>1 DEF ActivitiesAre
  <2> QED
      BY <2>1, <2>2
<1>3. RequestKey(e) = key
    BY DEF RequestKey
<1>4. Request(acts, e) = later
    BY <1>2, <1>3 DEF Request
<1>5. b.activities = later /\ b.seen = a.seen \cup {e.event_id}
    BY <1>4 DEF WebTaken
<1>6. /\ DOMAIN new = ActivityFields /\ new.key = key
      /\ new.request_event = e.event_id /\ new.response_event = NoWeb
      /\ new.url = e.url /\ new.status = "REQUESTED"
  <2> DEFINE r == NewActivity(e, key, "REQUESTED")
  <2>1. new = [r EXCEPT !.requested = e.time, !.request_event = e.event_id]
      BY <1>3 DEF FirstRequest
  <2>2. /\ DOMAIN r = ActivityFields /\ r.key = key /\ r.url = e.url
        /\ r.status = "REQUESTED" /\ r.response_event = NoWeb
      BY DEF NewActivity, ActivityFields
  <2> HIDE DEF r, new, key
  <2> QED
      BY <2>1, <2>2 DEF ActivityFields
<1> HIDE DEF new, acts, later
<1>7. /\ IsSeq(later) /\ n \notin DOMAIN acts /\ DOMAIN later = DOMAIN acts \cup {n}
      /\ later[n] = new /\ \A i \in DOMAIN acts : later[i] = acts[i]
    BY <1>1, OneElementMore DEF later
<1> HIDE DEF n
<1>8. ActivitiesAre(later)
    BY <1>6, <1>7 DEF ActivitiesAre, acts
<1>9. Opens(WebView(acts), WebView(later), e.event_id, e.url, NoWeb)
    BY <1>6, <1>7 DEF Opens, WebView
<1> QED
    BY <1>5, <1>8, <1>9 DEF acts

LEMMA ResponseCloses ==
    ASSUME NEW a, ActivitiesAre(a.activities),
           NEW e, e.type = "WEB_RESPONSE", e.request_id = NoWeb, e.event_id \notin a.seen,
           \E i \in DOMAIN a.activities : /\ a.activities[i].status = "REQUESTED"
                                           /\ a.activities[i].url = e.url,
           NEW b, b = WebTaken(a, e)
    PROVE  /\ ActivitiesAre(b.activities) /\ b.seen = a.seen \cup {e.event_id}
           /\ Closes(WebView(a.activities), WebView(b.activities), e.event_id)
<1> DEFINE acts == a.activities
           n == OpenRequest(acts, e)
           old == acts[n]
           new == Responded(old, e)
           later == ReplaceAt(acts, n, new)
<1>1. IsSeq(acts) /\ Len(acts) \in Nat /\ DOMAIN acts = 1 .. Len(acts)
    BY SeqIs DEF ActivitiesAre
<1>2. n # 0 /\ n \in DOMAIN acts /\ old.status = "REQUESTED"
  <2> DEFINE I == {j \in 1 .. Len(acts) :
                     acts[j].status = "REQUESTED" /\ e.url \in {acts[j].url, NoTarget}}
             m == Len(acts)
  <2>1. n = IF I # {} THEN Min(I) ELSE 0
      BY DEF OpenRequest, SelectInSeq
  <2>2. I # {}
      BY <1>1
  <2>3. IF I = {} THEN n = 0 ELSE n \in I /\ n # 0
    <3>1. I \in SUBSET (1 .. m) /\ m \in Nat
        BY <1>1
    <3> HIDE DEF n, I, m
    <3> QED
        BY <2>1, <3>1, FirstIndex
  <2> QED
      BY <1>1, <2>2, <2>3
<1>3. Response(acts, e) = later
    BY <1>2 DEF Response
<1>4. b.activities = later /\ b.seen = a.seen \cup {e.event_id}
    BY <1>3 DEF WebTaken
<1>5. DOMAIN old = ActivityFields /\ old.key = <<"req", old.request_event>>
    BY <1>2 DEF ActivitiesAre
<1> HIDE DEF old
<1>6. /\ DOMAIN new = ActivityFields /\ new.key = old.key
      /\ new.request_event = old.request_event /\ new.response_event = e.event_id
      /\ new.status # "REQUESTED"
  <2> DEFINE code == Code(old, e)
             ok == Outcome(e, code)
             url == IF e.url # NoTarget THEN e.url ELSE old.url
             bytes == IF e.bytes # NoWeb THEN WebNumber(e.bytes) ELSE old.bytes
             status == IF ok THEN "COMPLETED" ELSE "FAILED"
             duration == IF e.duration # NoWeb THEN WebNumber(e.duration)
                         ELSE IF old.requested # NoWeb THEN WebElapsed(old.requested, e.time)
                         ELSE old.duration
  <2>1. new = [old EXCEPT !.response_event = e.event_id, !.responded = e.time, !.url = url,
                          !.status_code = code, !.bytes = bytes, !.status = status,
                          !.success = ok, !.duration = duration]
      BY DEF Responded
  <2>2. status # "REQUESTED"
      OBVIOUS
  <2> HIDE DEF new, url, code, bytes, status, ok, duration
  <2> QED
      BY <1>5, <2>1, <2>2 DEF ActivityFields
<1> HIDE DEF new, acts, n, later
<1>7. /\ IsSeq(later) /\ DOMAIN later = DOMAIN acts /\ later[n] = new
      /\ \A i \in DOMAIN acts : i # n => later[i] = acts[i]
  <2>1. n \in DOMAIN acts
      BY <1>2
  <2>2. IsSeq(acts) /\ later = ReplaceAt(acts, n, new)
      BY <1>1 DEF later
  <2> QED
      BY <2>1, <2>2, OneElementOther
<1>8. ActivitiesAre(later)
    BY <1>5, <1>6, <1>7 DEF ActivitiesAre, acts
<1>9. Closes(WebView(acts), WebView(later), e.event_id)
    BY <1>2, <1>6, <1>7 DEF Closes, WebView, old
<1> QED
    BY <1>4, <1>8, <1>9 DEF acts

-----------------------------------------------------------------------------
(***************************************************************************)
(* What the bus knows of a call and of its reply.                          *)
(***************************************************************************)
\* The bus knows no reply to a call it does not know.
LEMMA ReplyIsNew ==
    ASSUME TellInv, NEW c, NEW d, NEW x, NEW k, Paired(c, d, x, k), Has(told, d.event_id)
    PROVE  Has(told, c.event_id)
<1>1. PICK i \in DOMAIN told : told[i].event.event_id = d.event_id
    BY DEF Has
<1> DEFINE q == told[i].run
           u == agent_runs[q]
           y == u.execution_id
           l == u.step_index
<1>2. i \in ToldIn(told, q) /\ RunTells(u, q, told)
    BY DEF TellInv, TellType, ToldIn
<1>3. PICK p \in Past(u) : Holds(told, i, u.plan[p])
    BY <1>2 DEF RunTells
<1>4. /\ PlanShape(u.plan, y, l) /\ p \in DOMAIN u.plan
      /\ DOMAIN u.plan = 1 .. Len(u.plan) /\ Len(u.plan) \in Nat
      /\ u.next \in Nat /\ p \in Nat /\ p < u.next
    BY <1>2, ShapeIs DEF RunTells, RunShape
<1> HIDE DEF q, u, y, l
<1>5. u.plan[p].event_id = d.event_id
    BY <1>1, <1>3, <1>4, HoldsId
<1>6. p - 1 \in DOMAIN u.plan /\ u.plan[p - 1].event_id = c.event_id
    BY <1>4, <1>5, ReplyTells
<1>7. p - 1 \in Past(u)
    BY <1>4, <1>6 DEF Past
<1> DEFINE m == p - 1
<1>8. PICK j \in DOMAIN told : Holds(told, j, u.plan[m])
    BY <1>2, <1>7 DEF RunTells
<1>9. m \in DOMAIN u.plan /\ u.plan[m].event_id = c.event_id
    BY <1>6
<1> HIDE DEF m
<1>10. told[j].event.event_id = u.plan[m].event_id
    BY <1>4, <1>8, <1>9, HoldsId
<1> QED
    BY <1>9, <1>10 DEF Has

LEMMA AnsweredStays ==
    ASSUME NEW x, NEW runs, NEW tl, Answered(x, runs, tl), NEW s, NEW t, Remembers(tl, t),
           \A c, d, k : Paired(c, d, x, k) /\ Has(t, c.event_id) => Has(tl, c.event_id),
           \A id : Asking(x, id, runs) => Asking(x, id, s)
    PROVE  Answered(x, s, t)
BY DEF Answered, Remembers

\* A run of another execution goes on.
LEMMA AskingElsewhere ==
    ASSUME NEW runs, NEW s, NEW r \in DOMAIN runs, OneMoves(runs, s, r), NEW x,
           runs[r].execution_id # x \/ runs[r].pc # "publishing"
    PROVE  \A id : Asking(x, id, runs) => Asking(x, id, s)
<1>1. DOMAIN s = DOMAIN runs /\ \A q \in DOMAIN runs \ {r} : s[q] = runs[q]
    BY DEF OneMoves
<1> QED
    BY <1>1 DEF Asking

\* The run r of x, the only one that publishes, goes past an event the bus knows.
LEMMA AnsweredOn ==
    ASSUME NEW runs, NEW s, NEW r, NEW x, NEW k, Publishes(runs, s, r, x, k),
           NEW d, IsNext(runs, r, d), NEW tl, NEW t, Answered(x, runs, tl), Remembers(tl, t),
           Has(t, d.event_id), \A id : Has(t, id) => Has(tl, id) \/ id = d.event_id,
           d.type \in {"TOOL_CALLED", "WEB_REQUEST"} =>
              (runs[r].next # Len(runs[r].plan) => s[r].pc = "publishing")
    PROVE  Answered(x, s, t)
<1> DEFINE u == runs[r]
           n == u.next
           plan == u.plan
<1> SUFFICES ASSUME NEW c, NEW e, NEW l, Paired(c, e, x, l), Has(t, c.event_id),
                    ~Has(t, e.event_id)
             PROVE  Asking(x, c.event_id, s)
    BY DEF Answered
<1>1. /\ r \in DOMAIN runs /\ u.pc = "publishing" /\ u.execution_id = x
      /\ PlanShape(plan, x, k) /\ n \in DOMAIN plan /\ n \in Nat /\ d = plan[n]
      /\ s[r].plan = plan /\ s[r].next = n + 1 /\ r \in DOMAIN s /\ s[r].execution_id = x
      /\ \A q \in DOMAIN runs : runs[q].execution_id = x /\ runs[q].pc = "publishing" => q = r
    BY DEF Publishes, IsNext, OneMoves, SameRun, OneLive, Ended
<1>2. DOMAIN plan = 1 .. Len(plan) /\ Len(plan) \in Nat /\ n > 0
    BY <1>1, SeqIs DEF PlanShape
<1> HIDE DEF u, n, plan
<1>3. CASE c.event_id = d.event_id
  <2>1. /\ n + 1 \in DOMAIN plan /\ plan[n].type \in {"TOOL_CALLED", "WEB_REQUEST"}
      BY <1>1, <1>3, CallTells
  <2>2. n # Len(plan)
      BY <1>2, <2>1
  <2>3. s[r].pc = "publishing"
      BY <1>1, <2>1, <2>2 DEF plan, n, u
  <2>4. Question(s[r]) = d /\ s[r].next > 1
      BY <1>1, <1>2 DEF Question
  <2> QED
      BY <1>1, <1>3, <2>3, <2>4 DEF Asking
<1>4. CASE Has(tl, c.event_id)
  <2>1. Asking(x, c.event_id, runs)
      BY <1>4 DEF Answered, Remembers
  <2>2. plan[n - 1].event_id = c.event_id /\ n > 1
      BY <1>1, <2>1 DEF Asking, Question, u, n, plan
  <2> DEFINE m == n - 1
  <2>3. m \in DOMAIN plan /\ plan[m].event_id = c.event_id /\ m + 1 = n
      BY <1>1, <1>2, <2>2
  <2> HIDE DEF m
  <2>4. plan[m + 1].event_id = e.event_id
      BY <1>1, <2>3, CallTells
  <2> QED
      BY <1>1, <2>3, <2>4
<1> QED
    BY <1>3, <1>4

\* The run r, the only one of x that publishes, stops at an event the bus knows.
LEMMA AnsweredStill ==
    ASSUME NEW runs, NEW r \in DOMAIN runs, OneLive(runs), NEW s, NEW tl,
           NEW x, Answered(x, runs, tl), runs[r].execution_id = x, runs[r].pc = "publishing",
           RunShape(runs[r]), Has(tl, runs[r].plan[runs[r].next].event_id)
    PROVE  Answered(x, s, tl)
<1> DEFINE u == runs[r]
           n == u.next
           plan == u.plan
           k == u.step_index
<1> SUFFICES ASSUME NEW c, NEW e, NEW l, Paired(c, e, x, l), Has(tl, c.event_id),
                    ~Has(tl, e.event_id)
             PROVE  FALSE
    BY DEF Answered
<1>1. Asking(x, c.event_id, runs)
    BY DEF Answered
<1>2. plan[n - 1].event_id = c.event_id /\ n > 1
    BY <1>1 DEF Asking, Question, OneLive, Ended
<1>3. /\ PlanShape(plan, x, k) /\ n \in DOMAIN plan /\ n \in Nat
      /\ DOMAIN plan = 1 .. Len(plan) /\ Len(plan) \in Nat
    BY ShapeIs DEF RunShape
<1> DEFINE m == n - 1
<1> HIDE DEF u, n, plan, k
<1>4. m \in DOMAIN plan /\ plan[m].event_id = c.event_id /\ m + 1 = n
    BY <1>2, <1>3
<1> HIDE DEF m
<1>5. plan[m + 1].event_id = e.event_id
    BY <1>3, <1>4, CallTells
<1> QED
    BY <1>4, <1>5 DEF plan, n, u

-----------------------------------------------------------------------------
(***************************************************************************)
(* Runs that publish no reply.                                             *)
(***************************************************************************)
LEMMA OthersAwait ==
    ASSUME NEW runs, NEW s, NEW r \in DOMAIN runs, OneMoves(runs, s, r), NEW reply, NEW x,
           NEW tl, NEW t, ~(runs[r].execution_id = x /\ Awaits(runs[r], reply, tl)),
           ~(s[r].execution_id = x /\ Awaits(s[r], reply, t)),
           \A q \in DOMAIN runs \ {r} :
              runs[q].execution_id = x /\ runs[q].pc = "publishing" =>
                 (Has(t, runs[q].plan[runs[q].next].event_id)
                    <=> Has(tl, runs[q].plan[runs[q].next].event_id))
    PROVE  SameAwaiting(runs, s, tl, t, reply, x)
<1>1. DOMAIN s = DOMAIN runs /\ \A q \in DOMAIN runs \ {r} : s[q] = runs[q]
    BY DEF OneMoves
<1>2. \A q \in DOMAIN runs \ {r} : AsBefore(runs[q], s[q])
    BY <1>1 DEF AsBefore
<1>3. \A q \in DOMAIN runs \ {r} : runs[q].execution_id = x =>
         (Awaits(runs[q], reply, tl) <=> Awaits(s[q], reply, t))
    BY <1>1 DEF Awaits
<1> QED
    BY <1>1, <1>2, <1>3 DEF SameAwaiting

LEMMA StillOneLives ==
    ASSUME NEW runs, NEW s, NEW r \in DOMAIN runs, OneMoves(runs, s, r),
           runs[r].pc \notin Ended, OneLive(runs)
    PROVE  OneLive(s)
<1>1. /\ DOMAIN s = DOMAIN runs /\ \A q \in DOMAIN runs \ {r} : s[q] = runs[q]
      /\ s[r].execution_id = runs[r].execution_id
    BY DEF OneMoves, SameRun
<1>2. \A q \in DOMAIN s : /\ s[q].execution_id = runs[q].execution_id
                          /\ s[q].pc \notin Ended => runs[q].pc \notin Ended
    BY <1>1
<1> QED
    BY <1>1, <1>2 DEF OneLive

\* Only a call is followed by its reply.
LEMMA NoReplyFollows ==
    ASSUME NEW runs, NEW s, NEW r, NEW x, NEW k, Publishes(runs, s, r, x, k),
           NEW call, NEW reply, <<call, reply>> \in Kinds,
           runs[r].plan[runs[r].next].type # call, NEW t
    PROVE  ~Awaits(s[r], reply, t)
<1> SUFFICES ASSUME Awaits(s[r], reply, t) PROVE FALSE
    OBVIOUS
<1> DEFINE u == runs[r]
           m == u.next + 1
<1>1. /\ PlanShape(u.plan, x, k) /\ u.next \in DOMAIN u.plan /\ DOMAIN u.plan \subseteq Nat
      /\ s[r].plan = u.plan /\ s[r].next = m
      /\ s[r].pc = "publishing" => u.next # Len(u.plan)
      /\ IsSeq(u.plan)
    BY DEF Publishes, PlanShape
<1> HIDE DEF u
<1>2. /\ u.next \in Nat /\ u.next # Len(u.plan) /\ Len(u.plan) \in Nat
      /\ DOMAIN u.plan = 1 .. Len(u.plan)
    BY <1>1, SeqIs DEF Awaits
<1>3. m \in DOMAIN u.plan /\ m - 1 = u.next
    BY <1>1, <1>2
<1>4. u.plan[m].type = reply
    BY <1>1 DEF Awaits
<1> HIDE DEF m
<1>5. u.plan[m - 1].type = call
    BY <1>1, <1>3, <1>4, TypesAre
<1> QED
    BY <1>3, <1>5 DEF u

\* What an event of a tool, and one of a web request, says.
LEMMA FieldsAre ==
    ASSUME NEW plan, NEW x, NEW k, PlanShape(plan, x, k), NEW i \in DOMAIN plan
    PROVE  /\ plan[i].type \in {"TOOL_CALLED", "TOOL_COMPLETED"} =>
                 DOMAIN plan[i] = ToolFields /\ plan[i].call_id = NoTool
           /\ plan[i].type \in {"WEB_REQUEST", "WEB_RESPONSE"} =>
                 DOMAIN plan[i] = WebFields /\ plan[i].request_id = NoWeb
<1>1. \/ IsStep(plan[i], x, k)
      \/ i + 1 \in DOMAIN plan /\ IsPair(plan[i], plan[i + 1], x, k)
      \/ i - 1 \in DOMAIN plan /\ IsPair(plan[i - 1], plan[i], x, k)
    BY DEF PlanShape
<1>2. CASE IsStep(plan[i], x, k)
    BY <1>2 DEF IsStep
<1>3. CASE i + 1 \in DOMAIN plan /\ IsPair(plan[i], plan[i + 1], x, k)
    BY <1>3 DEF IsPair, IsToolPair, IsWebPair
<1>4. CASE i - 1 \in DOMAIN plan /\ IsPair(plan[i - 1], plan[i], x, k)
    BY <1>4 DEF IsPair, IsToolPair, IsWebPair
<1> QED
    BY <1>1, <1>2, <1>3, <1>4

\* There is an open record with the name of the reply that is due.
LEMMA ReplyFound ==
    ASSUME NEW w, NEW past, NEW none, NEW x, NEW k, NEW runs, NEW s, NEW tl, NEW r,
           Publishes(runs, s, r, x, k), NEW call, NEW reply, <<call, reply>> \in Kinds,
           PairsOf(w, past, none, reply, x, runs, tl),
           runs[r].plan[runs[r].next].type = reply,
           ~Has(tl, runs[r].plan[runs[r].next].event_id)
    PROVE  \E i \in DOMAIN w : w[i].open /\ w[i].name = Name(runs[r].plan[runs[r].next])
<1> DEFINE u == runs[r]
           c == Question(u)
           d == u.plan[u.next]
<1>1. /\ r \in DOMAIN runs /\ u.execution_id = x /\ PlanShape(u.plan, x, k)
      /\ u.next \in DOMAIN u.plan /\ Awaits(u, reply, tl)
    BY DEF Publishes, Awaits
<1>2. Paired(c, d, x, k)
    BY <1>1, TypesAre DEF Question
<1>3. PICK i \in DOMAIN w : w[i].open /\ w[i].first = c.event_id
    BY <1>1 DEF PairsOf
<1>4. PICK q \in DOMAIN runs :
            /\ runs[q].execution_id = x /\ Awaits(runs[q], reply, tl)
            /\ w[i].name = Name(Question(runs[q]))
    BY <1>3 DEF PairsOf
<1>5. q = r
    BY <1>4, OnlyOneAwaits
<1> QED
    BY <1>2, <1>3, <1>4, <1>5 DEF Paired

-----------------------------------------------------------------------------
(***************************************************************************)
(* What an observer makes of the event that is published.                  *)
(***************************************************************************)
LEMMA OtherEvent ==
    ASSUME NEW w, NEW past, NEW none, NEW x, NEW k, NEW runs, NEW s, NEW tl, NEW t, NEW r,
           Publishes(runs, s, r, x, k), NEW call, NEW reply, <<call, reply>> \in Kinds,
           runs[r].plan[runs[r].next].type \notin {call, reply},
           PairsOf(w, past, none, reply, x, runs, tl), Remembers(tl, t)
    PROVE  PairsOf(w, past, none, reply, x, s, t)
<1>1. OneMoves(runs, s, r) /\ r \in DOMAIN runs
    BY DEF Publishes
<1>2. ~Awaits(runs[r], reply, tl)
    BY DEF Awaits
<1>3. ~Awaits(s[r], reply, t)
    BY NoReplyFollows
<1>4. \A q \in DOMAIN runs \ {r} : ~(runs[q].execution_id = x /\ runs[q].pc = "publishing")
    BY DEF Publishes, OneLive, Ended
<1>5. SameAwaiting(runs, s, tl, t, reply, x)
    BY <1>1, <1>2, <1>3, <1>4, OthersAwait
<1> QED
    BY <1>5, PairsStay

\* The event e says what d says, and perhaps more.
Says(e, d) ==
    e.event_id = d.event_id /\ e.type = d.type /\ \A f \in DOMAIN d : e[f] = d[f]

\* The activity of an execution after one of its events.
ToolNow(a, e) == IF e.type \in {"TOOL_CALLED", "TOOL_COMPLETED"} THEN ToolTaken(a, e) ELSE a

WebNow(a, e) == IF e.type \in {"WEB_REQUEST", "WEB_RESPONSE"} THEN WebTaken(a, e) ELSE a

LEMMA ToolEventPairs ==
    ASSUME NEW runs, NEW s, NEW r, NEW x \in AgentExecutions, NEW k \in StepIndices,
           Publishes(runs, s, r, x, k), NEW tl, NEW t, Remembers(tl, t),
           NEW d, IsNext(runs, r, d),
           NEW e, Says(e, d),
           Has(t, d.event_id), ~Has(tl, d.event_id), GoesOn(runs, s, r, t),
           NEW a, d.event_id \notin a.seen, InvocationsAre(a.invocations),
           PairsOf(ToolView(a.invocations), a.seen, NoTool, "TOOL_COMPLETED", x, runs, tl),
           NEW b, b = ToolNow(a, e)
    PROVE  /\ InvocationsAre(b.invocations)
           /\ PairsOf(ToolView(b.invocations), b.seen, NoTool, "TOOL_COMPLETED", x, s, t)
<1> DEFINE w == ToolView(a.invocations)
           v == ToolView(b.invocations)
<1>0. /\ d = runs[r].plan[runs[r].next]
      /\ e.event_id = d.event_id /\ e.type = d.type /\ \A f \in DOMAIN d : e[f] = d[f]
    BY DEF IsNext, Says
<1>1. <<"TOOL_CALLED", "TOOL_COMPLETED">> \in Kinds /\ NoTool \in {NoTool, NoWeb}
    BY DEF Kinds
<1>2. /\ PlanShape(runs[r].plan, x, k) /\ runs[r].next \in DOMAIN runs[r].plan
    BY DEF Publishes
<1>3. d.type \in {"TOOL_CALLED", "TOOL_COMPLETED"} =>
         DOMAIN d = ToolFields /\ d.call_id = NoTool
  <2>1. runs[r].plan[runs[r].next].type \in {"TOOL_CALLED", "TOOL_COMPLETED"} =>
           /\ DOMAIN runs[r].plan[runs[r].next] = ToolFields
           /\ runs[r].plan[runs[r].next].call_id = NoTool
      BY <1>2, FieldsAre
  <2> QED
      BY <1>0, <2>1
<1>4. d.type \in {"TOOL_CALLED", "TOOL_COMPLETED"} =>
         e.call_id = NoTool /\ e.tool = d.tool /\ Name(d) = e.tool
    BY <1>0, <1>3 DEF ToolFields, Name
<1>5. CASE d.type = "TOOL_CALLED"
  <2>1. \A i \in DOMAIN a.invocations : a.invocations[i].call_event \in a.seen
      BY DEF PairsOf, ToolView
  <2>2. /\ b = ToolTaken(a, e) /\ e.type = "TOOL_CALLED" /\ e.call_id = NoTool
        /\ e.event_id \notin a.seen
      BY <1>0, <1>4, <1>5 DEF ToolNow
  <2>3. /\ InvocationsAre(b.invocations) /\ b.seen = a.seen \cup {d.event_id}
        /\ Opens(w, v, d.event_id, Name(d), NoTool)
    <3>1. /\ InvocationsAre(b.invocations) /\ b.seen = a.seen \cup {e.event_id}
          /\ Opens(w, v, e.event_id, e.tool, NoTool)
        BY <2>1, <2>2, CallOpens
    <3> QED
        BY <1>0, <1>4, <1>5, <3>1
  <2> DEFINE past == a.seen
             later == b.seen
             none == NoTool
             call == "TOOL_CALLED"
             reply == "TOOL_COMPLETED"
  <2>4. /\ PairsOf(w, past, none, reply, x, runs, tl) /\ d.event_id \notin past
        /\ Opens(w, v, d.event_id, Name(d), none)
        /\ Takes(past, d.event_id, later) /\ <<call, reply>> \in Kinds /\ none \in {NoTool, NoWeb}
        /\ d.type = call
      BY <1>1, <1>5, <2>3 DEF Takes
  <2> HIDE DEF w, v, past, later, none, call, reply
  <2>5. PairsOf(v, later, none, reply, x, s, t)
      BY <2>4, PairOpens, SMTT(30)
  <2> QED
      BY <2>3, <2>5 DEF v, later, none, reply
<1>6. CASE d.type = "TOOL_COMPLETED"
  <2>1. \E i \in DOMAIN a.invocations : /\ a.invocations[i].status = "CALLED"
                                        /\ a.invocations[i].tool = e.tool
    <3>1. \E i \in DOMAIN w : w[i].open /\ w[i].name = Name(d)
      <4>1. /\ <<"TOOL_CALLED", "TOOL_COMPLETED">> \in Kinds
                /\ runs[r].plan[runs[r].next].type = "TOOL_COMPLETED"
                /\ ~Has(tl, runs[r].plan[runs[r].next].event_id)
          BY <1>0, <1>1, <1>6
      <4>2. PairsOf(w, a.seen, NoTool, "TOOL_COMPLETED", x, runs, tl)
          OBVIOUS
      <4> HIDE DEF w
      <4>3. \E i \in DOMAIN w : w[i].open /\ w[i].name = Name(runs[r].plan[runs[r].next])
          BY <4>1, <4>2, ReplyFound
      <4> QED
          BY <1>0, <4>3
    <3> QED
        BY <1>4, <1>6, <3>1 DEF ToolView
  <2>2. /\ b = ToolTaken(a, e) /\ e.type = "TOOL_COMPLETED" /\ e.call_id = NoTool
        /\ e.event_id \notin a.seen
      BY <1>0, <1>4, <1>6 DEF ToolNow
  <2>3. /\ InvocationsAre(b.invocations) /\ b.seen = a.seen \cup {d.event_id}
        /\ Closes(w, v, d.event_id)
    <3>1. /\ InvocationsAre(b.invocations) /\ b.seen = a.seen \cup {e.event_id}
          /\ Closes(w, v, e.event_id)
        BY <2>1, <2>2, CompletionCloses
    <3> QED
        BY <1>0, <3>1
  <2> DEFINE past == a.seen
             later == b.seen
             none == NoTool
             call == "TOOL_CALLED"
             reply == "TOOL_COMPLETED"
  <2>4. /\ PairsOf(w, past, none, reply, x, runs, tl) /\ d.event_id \notin past
        /\ Closes(w, v, d.event_id)
        /\ Takes(past, d.event_id, later) /\ <<call, reply>> \in Kinds /\ none \in {NoTool, NoWeb}
        /\ d.type = reply
      BY <1>1, <1>6, <2>3 DEF Takes
  <2> HIDE DEF w, v, past, later, none, call, reply
  <2>5. PairsOf(v, later, none, reply, x, s, t)
      BY <2>4, PairCloses
  <2> QED
      BY <2>3, <2>5 DEF v, later, none, reply
<1>7. CASE d.type \notin {"TOOL_CALLED", "TOOL_COMPLETED"}
  <2>1. b = a
      BY <1>0, <1>7 DEF ToolNow
  <2>2. PairsOf(w, a.seen, NoTool, "TOOL_COMPLETED", x, s, t)
    <3>1. PairsOf(w, a.seen, NoTool, "TOOL_COMPLETED", x, runs, tl)
        OBVIOUS
    <3> HIDE DEF w
    <3> QED
        BY <1>0, <1>1, <1>7, <3>1, OtherEvent
  <2> QED
      BY <2>1, <2>2
<1> QED
    BY <1>5, <1>6, <1>7

LEMMA WebEventPairs ==
    ASSUME NEW runs, NEW s, NEW r, NEW x \in AgentExecutions, NEW k \in StepIndices,
           Publishes(runs, s, r, x, k), NEW tl, NEW t, Remembers(tl, t),
           NEW d, IsNext(runs, r, d),
           NEW e, Says(e, d),
           Has(t, d.event_id), ~Has(tl, d.event_id), GoesOn(runs, s, r, t),
           NEW a, d.event_id \notin a.seen, ActivitiesAre(a.activities),
           PairsOf(WebView(a.activities), a.seen, NoWeb, "WEB_RESPONSE", x, runs, tl),
           NEW b, b = WebNow(a, e)
    PROVE  /\ ActivitiesAre(b.activities)
           /\ PairsOf(WebView(b.activities), b.seen, NoWeb, "WEB_RESPONSE", x, s, t)
<1> DEFINE w == WebView(a.activities)
           v == WebView(b.activities)
<1>0. /\ d = runs[r].plan[runs[r].next]
      /\ e.event_id = d.event_id /\ e.type = d.type /\ \A f \in DOMAIN d : e[f] = d[f]
    BY DEF IsNext, Says
<1>1. <<"WEB_REQUEST", "WEB_RESPONSE">> \in Kinds /\ NoWeb \in {NoTool, NoWeb}
    BY DEF Kinds
<1>2. /\ PlanShape(runs[r].plan, x, k) /\ runs[r].next \in DOMAIN runs[r].plan
    BY DEF Publishes
<1>3. d.type \in {"WEB_REQUEST", "WEB_RESPONSE"} =>
         DOMAIN d = WebFields /\ d.request_id = NoWeb
  <2>1. runs[r].plan[runs[r].next].type \in {"WEB_REQUEST", "WEB_RESPONSE"} =>
           /\ DOMAIN runs[r].plan[runs[r].next] = WebFields
           /\ runs[r].plan[runs[r].next].request_id = NoWeb
      BY <1>2, FieldsAre
  <2> QED
      BY <1>0, <2>1
<1>4. d.type \in {"WEB_REQUEST", "WEB_RESPONSE"} =>
         e.request_id = NoWeb /\ e.url = d.url /\ Name(d) = e.url
    BY <1>0, <1>3 DEF WebFields, Name
<1>5. CASE d.type = "WEB_REQUEST"
  <2>1. \A i \in DOMAIN a.activities : a.activities[i].request_event \in a.seen
      BY DEF PairsOf, WebView
  <2>2. /\ b = WebTaken(a, e) /\ e.type = "WEB_REQUEST" /\ e.request_id = NoWeb
        /\ e.event_id \notin a.seen
      BY <1>0, <1>4, <1>5 DEF WebNow
  <2>3. /\ ActivitiesAre(b.activities) /\ b.seen = a.seen \cup {d.event_id}
        /\ Opens(w, v, d.event_id, Name(d), NoWeb)
    <3>1. /\ ActivitiesAre(b.activities) /\ b.seen = a.seen \cup {e.event_id}
          /\ Opens(w, v, e.event_id, e.url, NoWeb)
        BY <2>1, <2>2, RequestOpens
    <3> QED
        BY <1>0, <1>4, <1>5, <3>1
  <2> DEFINE past == a.seen
             later == b.seen
             none == NoWeb
             call == "WEB_REQUEST"
             reply == "WEB_RESPONSE"
  <2>4. /\ PairsOf(w, past, none, reply, x, runs, tl) /\ d.event_id \notin past
        /\ Opens(w, v, d.event_id, Name(d), none)
        /\ Takes(past, d.event_id, later) /\ <<call, reply>> \in Kinds /\ none \in {NoTool, NoWeb}
        /\ d.type = call
      BY <1>1, <1>5, <2>3 DEF Takes
  <2> HIDE DEF w, v, past, later, none, call, reply
  <2>5. PairsOf(v, later, none, reply, x, s, t)
      BY <2>4, PairOpens, SMTT(30)
  <2> QED
      BY <2>3, <2>5 DEF v, later, none, reply
<1>6. CASE d.type = "WEB_RESPONSE"
  <2>1. \E i \in DOMAIN a.activities : /\ a.activities[i].status = "REQUESTED"
                                       /\ a.activities[i].url = e.url
    <3>1. \E i \in DOMAIN w : w[i].open /\ w[i].name = Name(d)
      <4>1. /\ <<"WEB_REQUEST", "WEB_RESPONSE">> \in Kinds
                /\ runs[r].plan[runs[r].next].type = "WEB_RESPONSE"
                /\ ~Has(tl, runs[r].plan[runs[r].next].event_id)
          BY <1>0, <1>1, <1>6
      <4>2. PairsOf(w, a.seen, NoWeb, "WEB_RESPONSE", x, runs, tl)
          OBVIOUS
      <4> HIDE DEF w
      <4>3. \E i \in DOMAIN w : w[i].open /\ w[i].name = Name(runs[r].plan[runs[r].next])
          BY <4>1, <4>2, ReplyFound
      <4> QED
          BY <1>0, <4>3
    <3> QED
        BY <1>4, <1>6, <3>1 DEF WebView
  <2>2. /\ b = WebTaken(a, e) /\ e.type = "WEB_RESPONSE" /\ e.request_id = NoWeb
        /\ e.event_id \notin a.seen
      BY <1>0, <1>4, <1>6 DEF WebNow
  <2>3. /\ ActivitiesAre(b.activities) /\ b.seen = a.seen \cup {d.event_id}
        /\ Closes(w, v, d.event_id)
    <3>1. /\ ActivitiesAre(b.activities) /\ b.seen = a.seen \cup {e.event_id}
          /\ Closes(w, v, e.event_id)
        BY <2>1, <2>2, ResponseCloses
    <3> QED
        BY <1>0, <3>1
  <2> DEFINE past == a.seen
             later == b.seen
             none == NoWeb
             call == "WEB_REQUEST"
             reply == "WEB_RESPONSE"
  <2>4. /\ PairsOf(w, past, none, reply, x, runs, tl) /\ d.event_id \notin past
        /\ Closes(w, v, d.event_id)
        /\ Takes(past, d.event_id, later) /\ <<call, reply>> \in Kinds /\ none \in {NoTool, NoWeb}
        /\ d.type = reply
      BY <1>1, <1>6, <2>3 DEF Takes
  <2> HIDE DEF w, v, past, later, none, call, reply
  <2>5. PairsOf(v, later, none, reply, x, s, t)
      BY <2>4, PairCloses
  <2> QED
      BY <2>3, <2>5 DEF v, later, none, reply
<1>7. CASE d.type \notin {"WEB_REQUEST", "WEB_RESPONSE"}
  <2>1. b = a
      BY <1>0, <1>7 DEF WebNow
  <2>2. PairsOf(w, a.seen, NoWeb, "WEB_RESPONSE", x, s, t)
    <3>1. PairsOf(w, a.seen, NoWeb, "WEB_RESPONSE", x, runs, tl)
        OBVIOUS
    <3> HIDE DEF w
    <3> QED
        BY <1>0, <1>1, <1>7, <3>1, OtherEvent
  <2> QED
      BY <2>1, <2>2
<1> QED
    BY <1>5, <1>6, <1>7

\* What an event changes in the activity of its own execution, and of others.
LEMMA ObservedIs ==
    ASSUME NEW e, Observed(e), tools = [x \in ToolExecutions |-> tools[x]],
           web = [x \in WebExecutions |-> web[x]],
           e.execution_id \in ToolExecutions \cap WebExecutions
    PROVE  /\ tools' = [x \in ToolExecutions |-> tools'[x]]
           /\ web' = [x \in WebExecutions |-> web'[x]]
           /\ \A x \in ToolExecutions :
                 tools'[x] = IF x = e.execution_id THEN ToolNow(tools[x], e) ELSE tools[x]
           /\ \A x \in WebExecutions :
                 web'[x] = IF x = e.execution_id THEN WebNow(web[x], e) ELSE web[x]
<1>1. CASE e.type \in {"TOOL_CALLED", "TOOL_COMPLETED"}
  <2>1. tools' = [tools EXCEPT ![e.execution_id] = ToolTaken(@, e)] /\ web' = web
      BY <1>1 DEF Observed, tool_handle_event, web_vars
  <2> QED
      BY <1>1, <2>1 DEF ToolNow, WebNow
<1>2. CASE e.type \in {"WEB_REQUEST", "WEB_RESPONSE"}
  <2>1. web' = [web EXCEPT ![e.execution_id] = WebTaken(@, e)] /\ tools' = tools
      BY <1>2 DEF Observed, web_handle_event, tool_vars
  <2> QED
      BY <1>2, <2>1 DEF ToolNow, WebNow
<1>3. CASE e.type \notin {"TOOL_CALLED", "TOOL_COMPLETED", "WEB_REQUEST", "WEB_RESPONSE"}
  <2>1. web' = web /\ tools' = tools
      BY <1>3 DEF Observed, agent_observers, tool_vars, web_vars
  <2> QED
      BY <1>3, <2>1 DEF ToolNow, WebNow
<1> QED
    BY <1>1, <1>2, <1>3

-----------------------------------------------------------------------------
(***************************************************************************)
(* The actions.                                                            *)
(***************************************************************************)
LEMMA SequentialStays ==
    ASSUME SessionInv, [AgentNext]_<<agent_vars, agent_observers>>
    PROVE  Sequential' => Sequential
<1>1. CASE ~ClearReference
  <2>1. \A r \in DOMAIN agent_runs : /\ r \in DOMAIN agent_runs'
                                     /\ agent_runs'[r].overlapped = agent_runs[r].overlapped
      BY <1>1, RunsAreKept DEF SameRun
  <2> QED
      BY <2>1 DEF Sequential
<1>2. CASE ClearReference
  <2>1. agent_runs' = [r \in DOMAIN agent_runs |-> [agent_runs[r] EXCEPT !.object = 0]]
      BY <1>2 DEF ClearReference
  <2>2. \A r \in DOMAIN agent_runs : agent_runs'[r].overlapped = agent_runs[r].overlapped
    <3> TAKE r \in DOMAIN agent_runs
    <3> DEFINE u == agent_runs[r]
    <3>1. DOMAIN u = RunFields /\ agent_runs'[r] = [u EXCEPT !.object = 0]
        BY <2>1 DEF SessionInv, RunsType, RunType
    <3> HIDE DEF u
    <3> QED
        BY <3>1 DEF RunFields, u
  <2> QED
      BY <2>1, <2>2 DEF Sequential
<1> QED
    BY <1>1, <1>2

\* The bus forgets nothing.
LEMMA BusRemembers ==
    ASSUME SessionInv, TellInv, [AgentNext]_<<agent_vars, agent_observers>>
    PROVE  Remembers(told, told') /\ (QuestionsPass' => QuestionsPass)
<1>1. Extends(told, told')
  <2>1. CASE told' = told
      BY <2>1 DEF Extends
  <2>2. ASSUME NEW rec, told' = Grown(told, rec)
        PROVE  Extends(told, told')
      BY <2>2, GrownExtends DEF TellInv, TellType
  <2> QED
      BY <2>1, <2>2, ToldGrows DEF Numbers
<1>2. \A i \in DOMAIN told : i \in DOMAIN told' /\ told'[i] = told[i]
    BY <1>1 DEF Extends
<1> QED
    BY <1>2 DEF Remembers, Has, QuestionsPass

\* The observers took nothing, and the runs that publish a reply are the same.
LEMMA PairsUnchanged ==
    ASSUME OpenPairs, tools' = tools, web' = web, Remembers(told, told'), OneLive(agent_runs'),
           \A x \in AgentExecutions :
              /\ SameAwaiting(agent_runs, agent_runs', told, told', "TOOL_COMPLETED", x)
              /\ SameAwaiting(agent_runs, agent_runs', told, told', "WEB_RESPONSE", x)
              /\ Answered(x, agent_runs', told')
    PROVE  OpenPairs'
<1>1. ASSUME NEW x \in AgentExecutions
      PROVE  ToolPairs(x)' /\ WebPairs(x)'
  <2>1. ToolPairs(x) /\ WebPairs(x)
      BY <1>1 DEF OpenPairs
  <2> DEFINE w == ToolView(tools[x].invocations)
             v == WebView(web[x].activities)
  <2>2. /\ PairsOf(w, tools[x].seen, NoTool, "TOOL_COMPLETED", x, agent_runs, told)
        /\ PairsOf(v, web[x].seen, NoWeb, "WEB_RESPONSE", x, agent_runs, told)
      BY <2>1 DEF ToolPairs, WebPairs
  <2> HIDE DEF w, v
  <2>3. /\ PairsOf(w, tools[x].seen, NoTool, "TOOL_COMPLETED", x, agent_runs', told')
        /\ PairsOf(v, web[x].seen, NoWeb, "WEB_RESPONSE", x, agent_runs', told')
      BY <2>2, PairsStay
  <2> QED
      BY <2>1, <2>3 DEF ToolPairs, WebPairs, w, v
<1> QED
    BY <1>1 DEF OpenPairs

\* Another run begins.  What it tells already is no call, and then no run publishes.
LEMMA StartPairs ==
    ASSUME SessionInv, OpenPairs, NEW run, run.pc \in {"running", "done"},
           run.overlapped = Overlaps(agent_runs, run.execution_id),
           agent_runs' = Append(agent_runs, run), tools' = tools, web' = web,
           Sequential', Remembers(told, told'),
           \A c, d, x, k : Paired(c, d, x, k) /\ Has(told', c.event_id) => Has(told, c.event_id),
           told' = told \/ \A q \in DOMAIN agent_runs : agent_runs[q].pc # "publishing"
    PROVE  OpenPairs'
<1> DEFINE n == Len(agent_runs)
           m == n + 1
<1>1. /\ n \in Nat /\ DOMAIN agent_runs = 1 .. n
      /\ DOMAIN agent_runs' = 1 .. m /\ agent_runs'[m] = run
      /\ \A i \in 1 .. n : agent_runs'[i] = agent_runs[i]
    BY SeqIs, AppendIs DEF SessionInv, RunsType
<1>2. m \notin 1 .. n /\ \A i \in 1 .. m : i \in 1 .. n \/ i = m
    BY <1>1
<1>3. 1 .. n \subseteq 1 .. m /\ m \in 1 .. m
    BY <1>1
<1> HIDE DEF n, m
<1>4. ASSUME NEW reply, NEW x
      PROVE  SameAwaiting(agent_runs, agent_runs', told, told', reply, x)
  <2>1. ~Awaits(run, reply, told')
      BY DEF Awaits
  <2>2. \A q \in DOMAIN agent_runs : q \in DOMAIN agent_runs'
                                     /\ AsBefore(agent_runs[q], agent_runs'[q])
      BY <1>1, <1>3 DEF AsBefore
  <2>3. \A q \in DOMAIN agent_runs :
           Awaits(agent_runs'[q], reply, told') <=> Awaits(agent_runs[q], reply, told)
      BY <1>1 DEF Awaits
  <2>4. \A q \in DOMAIN agent_runs' : Awaits(agent_runs'[q], reply, told') =>
                                         q \in DOMAIN agent_runs
      BY <1>1, <1>2, <2>1
  <2> QED
      BY <2>2, <2>3, <2>4 DEF SameAwaiting
<1>5. OneLive(agent_runs')
  <2>1. OneLive(agent_runs)
      BY DEF OpenPairs
  <2>2. ~Overlaps(agent_runs, run.execution_id)
      BY <1>1, <1>3 DEF Sequential
  <2>3. \A q \in 1 .. n : agent_runs[q].execution_id = run.execution_id =>
                             agent_runs[q].pc \in Ended
      BY <1>1, <2>2 DEF Overlaps
  <2>4. \A i, j \in 1 .. n :
          agent_runs[i].execution_id = agent_runs[j].execution_id
             /\ agent_runs[i].pc \notin Ended /\ agent_runs[j].pc \notin Ended => i = j
      BY <1>1, <2>1 DEF OneLive
  <2> HIDE DEF Ended
  <2>5. \A i, j \in 1 .. m :
          agent_runs'[i].execution_id = agent_runs'[j].execution_id
             /\ agent_runs'[i].pc \notin Ended /\ agent_runs'[j].pc \notin Ended => i = j
    <3> SUFFICES ASSUME NEW i \in 1 .. m, NEW j \in 1 .. m,
                        agent_runs'[i].execution_id = agent_runs'[j].execution_id,
                        agent_runs'[i].pc \notin Ended, agent_runs'[j].pc \notin Ended
                 PROVE  i = j
        OBVIOUS
    <3>1. CASE i \in 1 .. n /\ j \in 1 .. n
        BY <1>1, <2>4, <3>1
    <3>2. CASE i \in 1 .. n /\ j = m
        BY <1>1, <2>3, <3>2
    <3>3. CASE i = m /\ j \in 1 .. n
        BY <1>1, <2>3, <3>3
    <3> QED
        BY <1>2, <3>1, <3>2, <3>3
  <2> QED
      BY <1>1, <2>5 DEF OneLive
<1>6. ASSUME NEW x \in AgentExecutions
      PROVE  Answered(x, agent_runs', told')
  <2>1. Answered(x, agent_runs, told)
      BY DEF OpenPairs
  <2>2. \A id : Asking(x, id, agent_runs) => Asking(x, id, agent_runs')
      BY <1>1, <1>3 DEF Asking
  <2> QED
      BY <2>1, <2>2, AnsweredStays
<1> QED
    BY <1>4, <1>5, <1>6, PairsUnchanged

\* A run goes on that publishes no reply, before nor after.
LEMMA MovePairs ==
    ASSUME OpenPairs, NEW r \in DOMAIN agent_runs, OneMoves(agent_runs, agent_runs', r),
           agent_runs[r].pc \notin Ended, tools' = tools, web' = web, told' = told,
           \A reply \in {"TOOL_COMPLETED", "WEB_RESPONSE"} :
              ~Awaits(agent_runs[r], reply, told) /\ ~Awaits(agent_runs'[r], reply, told),
           NEW x, x = agent_runs[r].execution_id, Answered(x, agent_runs', told)
    PROVE  OpenPairs'
<1>1. \A y \in AgentExecutions :
         /\ SameAwaiting(agent_runs, agent_runs', told, told', "TOOL_COMPLETED", y)
         /\ SameAwaiting(agent_runs, agent_runs', told, told', "WEB_RESPONSE", y)
    BY OthersAwait
<1>2. OneLive(agent_runs')
    BY StillOneLives DEF OpenPairs
<1>3. Remembers(told, told)
    BY DEF Remembers
<1>4. ASSUME NEW y \in AgentExecutions
      PROVE  Answered(y, agent_runs', told')
  <2>1. CASE y = x
      BY <2>1
  <2>2. CASE y # x
    <3>1. \A id : Asking(y, id, agent_runs) => Asking(y, id, agent_runs')
        BY <2>2, AskingElsewhere
    <3> QED
        BY <1>3, <3>1, AnsweredStays DEF OpenPairs
  <2> QED
      BY <2>1, <2>2
<1> QED
    BY <1>1, <1>2, <1>3, <1>4, PairsUnchanged

LEMMA ResultPairs ==
    ASSUME SessionInv, OpenPairs, TellInv', NEW r \in DOMAIN agent_runs,
           agent_runs[r].pc = "running", agent_runs[r].next = 1,
           NEW result, TransportReturned(r, result), tools' = tools, web' = web, told' = told
    PROVE  OpenPairs'
<1> DEFINE v == agent_runs'[r]
           x == agent_runs[r].execution_id
<1>1. OneMoves(agent_runs, agent_runs', r) /\ v.next = 1
    BY TransportReturnedIs DEF SessionInv
<1>2. RunShape(v)
    BY <1>1 DEF TellInv, RunTells, OneMoves
<1>3. ASSUME NEW reply \in {"TOOL_COMPLETED", "WEB_RESPONSE"}
      PROVE  ~Awaits(v, reply, told)
  <2> SUFFICES ASSUME Awaits(v, reply, told) PROVE FALSE
      OBVIOUS
  <2> HIDE DEF v
  <2> DEFINE m == 1
  <2>1. /\ PlanShape(v.plan, v.execution_id, v.step_index) /\ m \in DOMAIN v.plan
        /\ v.plan[m].type = reply /\ DOMAIN v.plan = 1 .. Len(v.plan)
      BY <1>1, <1>2, ShapeIs DEF RunShape, Awaits
  <2>2. m - 1 \notin DOMAIN v.plan
      BY <2>1
  <2>3. PICK call : <<call, reply>> \in Kinds
      BY DEF Kinds
  <2> HIDE DEF m
  <2> QED
      BY <2>1, <2>2, <2>3, TypesAre
<1>4. \A reply : ~Awaits(agent_runs[r], reply, told)
    BY DEF Awaits
<1>5. x \in AgentExecutions /\ Remembers(told, told)
    BY DEF SessionInv, RunsType, RunType, Remembers
<1> HIDE DEF v, x
<1>6. Answered(x, agent_runs', told)
  <2>1. \A id : Asking(x, id, agent_runs) => Asking(x, id, agent_runs')
      BY <1>1, AskingElsewhere
  <2> QED
      BY <1>5, <2>1, AnsweredStays DEF OpenPairs
<1> QED
    BY <1>1, <1>3, <1>4, <1>6, MovePairs DEF Ended, v, x

-----------------------------------------------------------------------------
(***************************************************************************)
(* A run publishes.                                                        *)
(***************************************************************************)
\* What the bus knows when it accepted one event more.
LEMMA AcceptedIs ==
    ASSUME IsSeq(told), NEW e, NEW r, NEW raised, told' = Accepted(e, r, raised)
    PROVE  /\ \A id : Has(told', id) <=> Has(told, id) \/ id = e.event_id
           /\ raised = TRUE /\ QuestionsPass' => e.type \notin {"TOOL_CALLED", "WEB_REQUEST"}
<1> DEFINE rec == [event |-> e, run |-> r, raised |-> raised]
           m == Len(told) + 1
<1>1. rec.event = e /\ rec.raised = raised /\ told' = Grown(told, rec)
    BY DEF Accepted, Grown
<1> HIDE DEF rec
<1>2. /\ Extends(told, told') /\ m \in DOMAIN told' /\ told'[m] = rec
      /\ \A i \in DOMAIN told' : i \in DOMAIN told \/ i = m
    BY <1>1, GrownIs, GrownExtends
<1> HIDE DEF m
<1>3. \A i \in DOMAIN told : i \in DOMAIN told' /\ told'[i] = told[i]
    BY <1>2 DEF Extends
<1>4. \A id : Has(told', id) <=> Has(told, id) \/ id = e.event_id
    BY <1>1, <1>2, <1>3 DEF Has
<1>5. raised = TRUE /\ QuestionsPass' => e.type \notin {"TOOL_CALLED", "WEB_REQUEST"}
    BY <1>1, <1>2 DEF QuestionsPass
<1> QED
    BY <1>4, <1>5

\* The event that is due is the one at the place of the run, and the bus knows it
\* by its id.
LEMMA NextIs ==
    ASSUME SessionInv, TellInv, NEW r \in DOMAIN agent_runs, agent_runs[r].pc = "publishing",
           NEW u, u = agent_runs[r]
    PROVE  /\ u.execution_id \in AgentExecutions /\ u.step_index \in StepIndices
           /\ PlanShape(u.plan, u.execution_id, u.step_index)
           /\ u.next \in DOMAIN u.plan /\ DOMAIN u.plan \subseteq Nat
           /\ DOMAIN u.plan = 1 .. Len(u.plan) /\ Len(u.plan) \in Nat
           /\ Says(Due(r), u.plan[u.next]) /\ Due(r).execution_id = u.execution_id
           /\ Known(Due(r)) <=> Has(told, u.plan[u.next].event_id)
           /\ RunShape(u) /\ IsSeq(told)
<1>1. u.execution_id \in AgentExecutions /\ u.step_index \in StepIndices
    BY DEF SessionInv, RunsType, RunType
<1>2. RunShape(u) /\ IsSeq(told)
    BY DEF TellInv, RunTells, TellType
<1>3. /\ PlanShape(u.plan, u.execution_id, u.step_index)
      /\ u.next \in DOMAIN u.plan /\ DOMAIN u.plan = 1 .. Len(u.plan) /\ Len(u.plan) \in Nat
    BY <1>2, ShapeIs DEF RunShape
<1>4. Says(Due(r), u.plan[u.next]) /\ Due(r).execution_id = u.execution_id
    BY <1>3, DueIs DEF Due, Says
<1>5. Known(Due(r)) <=> Has(told, u.plan[u.next].event_id)
    BY <1>4 DEF Known, Has, Says
<1> QED
    BY <1>1, <1>2, <1>3, <1>4, <1>5

\* A call that was accepted is followed by its reply, which the bus does not know.
LEMMA CallGoesOn ==
    ASSUME SessionInv, TellInv, NEW r \in DOMAIN agent_runs, agent_runs[r].pc = "publishing",
           NEW raised \in Raises, Accepts(Due(r)), told' = Accepted(Due(r), r, raised),
           Passes(r, raised), QuestionsPass'
    PROVE  GoesOn(agent_runs, agent_runs', r, told')
<1> DEFINE u == agent_runs[r]
           n == u.next
           m == n + 1
           c == u.plan[n]
           d == u.plan[m]
           e == Due(r)
<1>1. /\ PlanShape(u.plan, u.execution_id, u.step_index) /\ n \in DOMAIN u.plan
      /\ DOMAIN u.plan \subseteq Nat /\ Says(e, c) /\ IsSeq(told)
      /\ Known(e) <=> Has(told, c.event_id)
    BY NextIs
<1>2. ~Has(told, c.event_id)
    BY <1>1 DEF Accepts
<1>3. /\ \A id : Has(told', id) <=> Has(told, id) \/ id = e.event_id
      /\ raised = TRUE => e.type \notin {"TOOL_CALLED", "WEB_REQUEST"}
    BY <1>1, AcceptedIs
<1>4. e.event_id = c.event_id /\ e.type = c.type
    BY <1>1 DEF Says
<1>5. raised \in BOOLEAN
    BY DEF Raises
<1>6. agent_runs'[r].pc = IF raised \/ n = Len(u.plan) THEN "done" ELSE "publishing"
    BY DEF Passes
<1> SUFFICES ASSUME c.type \in {"TOOL_CALLED", "WEB_REQUEST"}
             PROVE  /\ n # Len(u.plan) => agent_runs'[r].pc = "publishing"
                    /\ ~Has(told', d.event_id)
    BY DEF GoesOn
<1> HIDE DEF e
<1>7. PICK reply : <<c.type, reply>> \in Kinds
    BY DEF Kinds
<1> HIDE DEF u, m
<1>8. m \in DOMAIN u.plan /\ Paired(c, d, u.execution_id, u.step_index)
    BY <1>1, <1>7, TypesAre DEF m
<1>9. ~Has(told, d.event_id)
    BY <1>2, <1>8, ReplyIsNew
<1>10. d.event_id # c.event_id
  <2>1. m # n
      BY <1>1 DEF m
  <2> QED
      BY <1>1, <1>8, <2>1 DEF PlanShape
<1>11. raised = FALSE
    BY <1>3, <1>4, <1>5
<1> QED
    BY <1>3, <1>4, <1>6, <1>9, <1>10, <1>11

\* The bus accepts the event that is due: the pairs of the execution of the run.
LEMMA OwnPairs ==
    ASSUME SessionInv, TellInv, OpenPairs, NEW r \in DOMAIN agent_runs,
           NEW x, NEW k, Publishes(agent_runs, agent_runs', r, x, k),
           x \in AgentExecutions, k \in StepIndices,
           NEW d, IsNext(agent_runs, r, d), NEW e, Says(e, d), Remembers(told, told'),
           ~Has(told, d.event_id), GoesOn(agent_runs, agent_runs', r, told'),
           \A id : Has(told', id) <=> Has(told, id) \/ id = d.event_id,
           tools'[x] = ToolNow(tools[x], e), web'[x] = WebNow(web[x], e)
    PROVE  ToolPairs(x)' /\ WebPairs(x)' /\ Answered(x, agent_runs', told')
<1> DEFINE a == tools[x]
           b == tools'[x]
           c == web[x]
           g == web'[x]
<1>1. /\ InvocationsAre(a.invocations)
      /\ PairsOf(ToolView(a.invocations), a.seen, NoTool, "TOOL_COMPLETED", x,
                 agent_runs, told)
      /\ ActivitiesAre(c.activities)
      /\ PairsOf(WebView(c.activities), c.seen, NoWeb, "WEB_RESPONSE", x, agent_runs, told)
      /\ Answered(x, agent_runs, told)
    BY DEF OpenPairs, ToolPairs, WebPairs
<1>2. d.event_id \notin a.seen /\ d.event_id \notin c.seen
    BY <1>1 DEF PairsOf
<1>3. b = ToolNow(a, e) /\ g = WebNow(c, e) /\ Has(told', d.event_id)
    OBVIOUS
<1> HIDE DEF a, b, c, g
<1>4. /\ InvocationsAre(b.invocations)
      /\ PairsOf(ToolView(b.invocations), b.seen, NoTool, "TOOL_COMPLETED", x,
                 agent_runs', told')
    BY <1>1, <1>2, <1>3, ToolEventPairs
<1>5. /\ ActivitiesAre(g.activities)
      /\ PairsOf(WebView(g.activities), g.seen, NoWeb, "WEB_RESPONSE", x,
                 agent_runs', told')
    BY <1>1, <1>2, <1>3, WebEventPairs
<1>6. Answered(x, agent_runs', told')
  <2>1. d.type \in {"TOOL_CALLED", "WEB_REQUEST"} =>
           (agent_runs[r].next # Len(agent_runs[r].plan) => agent_runs'[r].pc = "publishing")
      BY DEF GoesOn, IsNext
  <2>2. \A id : Has(told', id) => Has(told, id) \/ id = d.event_id
      OBVIOUS
  <2> QED
      BY <1>1, <1>3, <2>1, <2>2, AnsweredOn
<1> QED
    BY <1>4, <1>5, <1>6 DEF ToolPairs, WebPairs, b, g

\* The pairs of another execution.
LEMMA OtherPairs ==
    ASSUME SessionInv, TellInv, OpenPairs, NEW r \in DOMAIN agent_runs,
           OneMoves(agent_runs, agent_runs', r),
           NEW x \in AgentExecutions, x # agent_runs[r].execution_id,
           NEW id, \A i : Has(told', i) <=> Has(told, i) \/ i = id,
           id[2] = agent_runs[r].execution_id, Remembers(told, told'),
           tools'[x] = tools[x], web'[x] = web[x]
    PROVE  ToolPairs(x)' /\ WebPairs(x)' /\ Answered(x, agent_runs', told')
<1>1. ASSUME NEW q \in DOMAIN agent_runs, agent_runs[q].execution_id = x,
             agent_runs[q].pc = "publishing"
      PROVE  Has(told', agent_runs[q].plan[agent_runs[q].next].event_id)
                <=> Has(told, agent_runs[q].plan[agent_runs[q].next].event_id)
  <2> DEFINE u == agent_runs[q]
  <2>1. PlanShape(u.plan, x, u.step_index) /\ u.next \in DOMAIN u.plan
      BY <1>1, NextIs
  <2>2. u.plan[u.next].event_id[2] = x
      BY <2>1, EventIs
  <2> HIDE DEF u
  <2>3. u.plan[u.next].event_id # id
      BY <2>2
  <2> QED
      BY <2>3 DEF u
<1>2. agent_runs'[r].execution_id # x
    BY DEF OneMoves, SameRun
<1>3. /\ SameAwaiting(agent_runs, agent_runs', told, told', "TOOL_COMPLETED", x)
      /\ SameAwaiting(agent_runs, agent_runs', told, told', "WEB_RESPONSE", x)
    BY <1>1, <1>2, OthersAwait
<1> DEFINE w == ToolView(tools[x].invocations)
           v == WebView(web[x].activities)
<1>4. /\ PairsOf(w, tools[x].seen, NoTool, "TOOL_COMPLETED", x, agent_runs, told)
      /\ PairsOf(v, web[x].seen, NoWeb, "WEB_RESPONSE", x, agent_runs, told)
      /\ InvocationsAre(tools[x].invocations) /\ ActivitiesAre(web[x].activities)
      /\ Answered(x, agent_runs, told)
    BY DEF OpenPairs, ToolPairs, WebPairs
<1> HIDE DEF w, v
<1>5. /\ PairsOf(w, tools[x].seen, NoTool, "TOOL_COMPLETED", x, agent_runs', told')
      /\ PairsOf(v, web[x].seen, NoWeb, "WEB_RESPONSE", x, agent_runs', told')
    BY <1>3, <1>4, PairsStay
<1>6. Answered(x, agent_runs', told')
  <2>1. ASSUME NEW c, NEW d, NEW k, Paired(c, d, x, k), Has(told', c.event_id)
        PROVE  Has(told, c.event_id)
    <3>1. c.event_id[2] = x
        BY <2>1 DEF Paired
    <3>2. c.event_id # id
        BY <3>1
    <3> QED
        BY <2>1, <3>2
  <2>2. \A i : Asking(x, i, agent_runs) => Asking(x, i, agent_runs')
      BY AskingElsewhere
  <2> QED
      BY <1>4, <2>1, <2>2, AnsweredStays
<1> QED
    BY <1>4, <1>5, <1>6 DEF ToolPairs, WebPairs, w, v

LEMMA NewEventPairs ==
    ASSUME SessionInv, TellInv, OpenPairs, ObserversAre, NEW r \in DOMAIN agent_runs,
           agent_runs[r].pc = "publishing", OneMoves(agent_runs, agent_runs', r),
           agent_runs'[r].plan = agent_runs[r].plan,
           NEW raised \in Raises, Accepts(Due(r)), told' = Accepted(Due(r), r, raised),
           Observed(Due(r)), Passes(r, raised), QuestionsPass', Remembers(told, told')
    PROVE  OpenPairs'
<1> DEFINE u == agent_runs[r]
           y == u.execution_id
           k == u.step_index
           d == u.plan[u.next]
           e == Due(r)
<1>1. /\ y \in AgentExecutions /\ k \in StepIndices /\ PlanShape(u.plan, y, k)
      /\ u.next \in DOMAIN u.plan /\ DOMAIN u.plan \subseteq Nat
      /\ Says(e, d) /\ e.execution_id = y /\ IsSeq(told) /\ ~Has(told, d.event_id)
    BY NextIs DEF Accepts
<1>2. GoesOn(agent_runs, agent_runs', r, told')
    BY CallGoesOn
<1>3. e.event_id = d.event_id /\ IsNext(agent_runs, r, d)
    BY <1>1 DEF Says, IsNext
<1>4. \A id : Has(told', id) <=> Has(told, id) \/ id = e.event_id
    BY <1>1, AcceptedIs
<1>5. \A id : Has(told', id) <=> Has(told, id) \/ id = d.event_id
    BY <1>3, <1>4
<1>6. d.event_id[2] = y
    BY <1>1, EventIs
<1>7. y \in ToolExecutions \cap WebExecutions /\ AgentExecutions \subseteq ToolExecutions
      /\ AgentExecutions \subseteq WebExecutions
    BY <1>1, AgentAssumption
<1>8. /\ \A x \in ToolExecutions :
            tools'[x] = IF x = y THEN ToolNow(tools[x], e) ELSE tools[x]
      /\ \A x \in WebExecutions :
            web'[x] = IF x = y THEN WebNow(web[x], e) ELSE web[x]
  <2> HIDE DEF e
  <2>1. e.execution_id \in ToolExecutions \cap WebExecutions
      BY <1>1, <1>7
  <2> QED
      BY <1>1, <2>1, ObservedIs DEF ObserversAre, e
<1>9. Publishes(agent_runs, agent_runs', r, y, k)
  <2>1. OneLive(agent_runs)
      BY DEF OpenPairs
  <2>2. /\ agent_runs'[r].next = u.next + 1
        /\ agent_runs'[r].pc = IF raised \/ u.next = Len(u.plan) THEN "done" ELSE "publishing"
      BY DEF Passes
  <2> QED
      BY <1>1, <2>1, <2>2 DEF Publishes
<1>10. OneLive(agent_runs')
  <2>1. OneLive(agent_runs) /\ u.pc \notin Ended
      BY DEF OpenPairs, Ended
  <2> QED
      BY <2>1, StillOneLives
<1>11. y = agent_runs[r].execution_id
    OBVIOUS
<1> HIDE DEF u, y, k, d, e
<1>12. ASSUME NEW x \in AgentExecutions
       PROVE  ToolPairs(x)' /\ WebPairs(x)' /\ Answered(x, agent_runs', told')
  <2>1. CASE x = y
    <3>1. tools'[y] = ToolNow(tools[y], e) /\ web'[y] = WebNow(web[y], e)
        BY <1>7, <1>8
    <3> QED
        BY <1>1, <1>2, <1>3, <1>5, <1>9, <2>1, <3>1, OwnPairs
  <2>2. CASE x # y
    <3>1. tools'[x] = tools[x] /\ web'[x] = web[x]
        BY <1>7, <1>8, <2>2
    <3> QED
        BY <1>5, <1>6, <1>11, <2>2, <3>1, OtherPairs
  <2> QED
      BY <2>1, <2>2
<1> QED
    BY <1>10, <1>12 DEF OpenPairs

\* The bus knows the event that is due already, and the run goes past it: a call
\* was answered then.
LEMMA RepeatPairs ==
    ASSUME SessionInv, TellInv, OpenPairs, NEW r \in DOMAIN agent_runs,
           agent_runs[r].pc = "publishing", OneMoves(agent_runs, agent_runs', r),
           agent_runs'[r].plan = agent_runs[r].plan, Known(Due(r)), Passes(r, FALSE),
           tools' = tools, web' = web, told' = told
    PROVE  OpenPairs'
<1> DEFINE u == agent_runs[r]
           v == agent_runs'[r]
           x == u.execution_id
           k == u.step_index
           n == u.next
           m == n + 1
           l == n - 1
           c == u.plan[n]
<1>1. /\ x \in AgentExecutions /\ PlanShape(u.plan, x, k) /\ n \in DOMAIN u.plan
      /\ DOMAIN u.plan = 1 .. Len(u.plan) /\ Len(u.plan) \in Nat /\ DOMAIN u.plan \subseteq Nat
      /\ Has(told, c.event_id) /\ OneLive(agent_runs) /\ Answered(x, agent_runs, told)
    BY NextIs DEF OpenPairs
<1>2. /\ v.next = m
      /\ v.pc = IF n = Len(u.plan) THEN "done" ELSE "publishing"
    BY DEF Passes
<1>3. Publishes(agent_runs, agent_runs', r, x, k)
    BY <1>1, <1>2 DEF Publishes
<1>4. agent_runs[r] = u /\ u.execution_id = x /\ agent_runs[r].pc = "publishing"
    OBVIOUS
<1>5. IsNext(agent_runs, r, c) /\ Remembers(told, told)
    BY DEF IsNext, Remembers
<1> HIDE DEF u, v, x, k
<1>6. Answered(x, agent_runs', told)
  <2>1. agent_runs[r].next # Len(agent_runs[r].plan) => agent_runs'[r].pc = "publishing"
      BY <1>2 DEF u, v
  <2> HIDE DEF c
  <2> QED
      BY <1>1, <1>3, <1>5, <2>1, AnsweredOn
<1>7. ASSUME NEW call, NEW reply, <<call, reply>> \in Kinds
      PROVE  ~Awaits(v, reply, told)
  <2>1. CASE c.type # call
      BY <1>3, <1>4, <1>7, <2>1, NoReplyFollows DEF v, u
  <2>2. CASE c.type = call
    <3> DEFINE d == u.plan[m]
    <3>1. m \in DOMAIN u.plan /\ Paired(c, d, x, k)
      <4> HIDE DEF c
      <4> QED
          BY <1>1, <1>7, <2>2, TypesAre DEF c
    <3>2. ~Asking(x, c.event_id, agent_runs)
      <4> SUFFICES ASSUME Asking(x, c.event_id, agent_runs) PROVE FALSE
          OBVIOUS
      <4>1. PICK q \in DOMAIN agent_runs :
               /\ agent_runs[q].execution_id = x /\ agent_runs[q].pc = "publishing"
               /\ agent_runs[q].next > 1 /\ Question(agent_runs[q]).event_id = c.event_id
          BY DEF Asking
      <4>2. q = r
          BY <1>1, <1>4, <4>1 DEF OneLive, Ended
      <4>3. n > 1 /\ u.plan[l].event_id = c.event_id
          BY <1>4, <4>1, <4>2 DEF Question
      <4>4. l \in DOMAIN u.plan /\ l # n
          BY <1>1, <4>3
      <4> HIDE DEF l
      <4> QED
          BY <1>1, <4>3, <4>4 DEF PlanShape
    <3>3. Has(told, d.event_id)
        BY <1>1, <3>1, <3>2 DEF Answered
    <3>4. v.plan = u.plan
        BY DEF u, v
    <3> QED
        BY <1>2, <3>3, <3>4 DEF Awaits
  <2> QED
      BY <2>1, <2>2
<1>8. \A reply \in {"TOOL_COMPLETED", "WEB_RESPONSE"} :
         ~Awaits(u, reply, told) /\ ~Awaits(v, reply, told)
  <2> TAKE reply \in {"TOOL_COMPLETED", "WEB_RESPONSE"}
  <2>1. PICK call : <<call, reply>> \in Kinds
      BY DEF Kinds
  <2>2. ~Awaits(v, reply, told)
      BY <1>7, <2>1
  <2>3. ~Awaits(u, reply, told)
      BY <1>1 DEF Awaits
  <2> QED
      BY <2>2, <2>3
<1>9. agent_runs[r].pc \notin Ended
    BY DEF Ended
<1> QED
    BY <1>6, <1>8, <1>9, MovePairs DEF u, v, x

LEMMA PublishPairs ==
    ASSUME SessionInv, TellInv, OpenPairs, ObserversAre, agent_bus # "closed",
           NEW r \in DOMAIN agent_runs, PublishNext(r), QuestionsPass',
           Remembers(told, told')
    PROVE  OpenPairs'
<1> DEFINE u == agent_runs[r]
           v == agent_runs'[r]
           x == u.execution_id
           e == Due(r)
<1>1. /\ u.pc = "publishing" /\ OneMoves(agent_runs, agent_runs', r) /\ v.plan = u.plan
      /\ \/ Refuses(e) /\ v.pc = "done" /\ UNCHANGED <<told, agent_observers>>
         \/ Repeats(e) /\ Passes(r, FALSE) /\ UNCHANGED <<told, agent_observers>>
         \/ \E raised \in Raises :
               /\ Accepts(e) /\ told' = Accepted(e, r, raised)
               /\ Observed(e) /\ Passes(r, raised)
    BY PublishNextIs DEF SessionInv
<1>2. CASE Refuses(e) /\ v.pc = "done" /\ UNCHANGED <<told, agent_observers>>
  <2>1. tools' = tools /\ web' = web /\ told' = told /\ Known(e)
      BY <1>2 DEF agent_observers, tool_vars, web_vars, Refuses
  <2>2. Has(told, u.plan[u.next].event_id) /\ RunShape(u)
      BY <1>1, <2>1, NextIs
  <2>3. \A reply : ~Awaits(u, reply, told) /\ ~Awaits(v, reply, told)
      BY <1>2, <2>2 DEF Awaits
  <2>4. x \in AgentExecutions /\ OneLive(agent_runs) /\ Answered(x, agent_runs, told)
      BY <1>1, NextIs DEF OpenPairs
  <2>5. Answered(x, agent_runs', told)
      BY <1>1, <2>2, <2>4, AnsweredStill
  <2> QED
      BY <1>1, <2>1, <2>3, <2>5, MovePairs DEF Ended
<1>3. CASE Repeats(e) /\ Passes(r, FALSE) /\ UNCHANGED <<told, agent_observers>>
  <2>1. tools' = tools /\ web' = web /\ told' = told /\ Known(e)
      BY <1>3 DEF agent_observers, tool_vars, web_vars, Repeats, Known
  <2> QED
      BY <1>1, <1>3, <2>1, RepeatPairs
<1>4. ASSUME NEW raised \in Raises, Accepts(e), told' = Accepted(e, r, raised),
             Observed(e), Passes(r, raised)
      PROVE  OpenPairs'
    BY <1>1, <1>4, NewEventPairs
<1> QED
    BY <1>1, <1>2, <1>3, <1>4

\* A step of the reference adapter tells no call, and no other step is open then.
LEMMA ReferencePairs ==
    ASSUME SessionInv, TellInv, OpenPairs, NEW t, NEW x, NEW k, NEW o, NEW time,
           ReferenceStep(t, x, k, o, time), Sequential', Remembers(told, told')
    PROVE  OpenPairs'
<1> DEFINE m == Len(agent_runs) + 1
           step == <<StepCompleted(x, k, time)>>
<1>1. PICK run : /\ Starts(run, x, k, adapter') /\ run.pc = "done"
                 /\ run.plan = IF agent_bus = "none" THEN <<>> ELSE step
                 /\ run.overlapped = Overlaps(agent_runs, x)
                 /\ agent_runs' = Append(agent_runs, run)
                 /\ TellsOne(run, Numbered(run.plan[1], run.object), m)
    BY ReferenceStepIs
<1> DEFINE e == Numbered(run.plan[1], run.object)
<1>2. tools' = tools /\ web' = web /\ setup.vendor = "reference"
    BY DEF ReferenceStep, Is, agent_observers, tool_vars, web_vars
<1>3. ASSUME run.plan # <<>>
      PROVE  e.event_id[1] = "step_ev"
  <2>1. run.plan = step
      BY <1>1, <1>3
  <2>2. PlanShape(step, x, k) /\ 1 \in DOMAIN step
      BY StepAloneIs
  <2>3. step[1].event_id = <<"step_ev", x, k, time>>
    <3> DEFINE d == StepCompleted(x, k, time)
    <3>1. d.event_id = <<"step_ev", x, k, time>>
        BY StepIs
    <3> HIDE DEF d
    <3>2. <<d>>[1] = d
        OBVIOUS
    <3> QED
        BY <3>1, <3>2 DEF d
  <2> HIDE DEF step
  <2>4. PlanShape(run.plan, x, k) /\ 1 \in DOMAIN run.plan
      BY <2>1, <2>2
  <2>5. e.event_id = run.plan[1].event_id
      BY <2>4, DueIs
  <2> HIDE DEF e
  <2> QED
      BY <2>1, <2>3, <2>5
<1>4. ASSUME NEW c, NEW d, NEW y, NEW l, Paired(c, d, y, l), Has(told', c.event_id)
      PROVE  Has(told, c.event_id)
  <2>1. c.event_id[1] \in {"tool_called", "web_req"}
      BY <1>4 DEF Paired
  <2>2. TellsOne(run, e, m) /\ IsSeq(told)
      BY <1>1 DEF TellInv, TellType
  <2> HIDE DEF e, m
  <2>3. ASSUME run.plan # <<>>, NEW raised \in Raises, told' = Accepted(e, m, raised)
        PROVE  Has(told, c.event_id)
    <3>1. \A id : Has(told', id) <=> Has(told, id) \/ id = e.event_id
        BY <2>2, <2>3, AcceptedIs
    <3>2. c.event_id # e.event_id
        BY <1>3, <2>1, <2>3
    <3> QED
        BY <1>4, <3>1, <3>2
  <2> QED
      BY <1>4, <2>2, <2>3 DEF TellsOne
<1>5. \A q \in DOMAIN agent_runs : agent_runs[q].pc # "publishing"
    BY <1>2 DEF TellInv
<1>6. run.overlapped = Overlaps(agent_runs, run.execution_id) /\ run.pc \in {"running", "done"}
    BY <1>1 DEF Starts
<1>7. agent_runs' = Append(agent_runs, run)
    BY <1>1
<1> HIDE DEF e, m, step
<1> QED
    BY <1>2, <1>4, <1>5, <1>6, <1>7, StartPairs

\* While the bus is not closed, every step of the adapter keeps the pairs.
LEMMA OpenGoesOn ==
    ASSUME SessionInv, TellInv, TellInv', OpenPairs, ObserversAre, agent_bus # "closed",
           [AgentNext]_<<agent_vars, agent_observers>>, Sequential', QuestionsPass'
    PROVE  OpenPairs'
<1>0. Remembers(told, told')
    BY BusRemembers
<1>1. ASSUME NEW t \in AgentThreads, NEW x \in AgentExecutions, NEW k \in StepIndices,
             NEW o \in Offers, NEW time \in Ticks, BeginStep(t, x, k, o, time)
      PROVE  OpenPairs'
  <2>1. PICK run : /\ Starts(run, x, k, adapter') /\ run.pc = "running"
                   /\ run.overlapped = Overlaps(agent_runs, x)
                   /\ agent_runs' = Append(agent_runs, run)
      BY <1>1, BeginStepIs
  <2>2. tools' = tools /\ web' = web /\ told' = told
      BY <1>1 DEF BeginStep, agent_observers, tool_vars, web_vars
  <2>3. run.overlapped = Overlaps(agent_runs, run.execution_id) /\ run.pc \in {"running", "done"}
      BY <2>1 DEF Starts
  <2> QED
      BY <1>0, <2>1, <2>2, <2>3, StartPairs
<1>2. ASSUME NEW t \in AgentThreads, NEW x \in AgentExecutions, NEW k \in StepIndices,
             NEW o \in Offers, NEW time \in Ticks, ReferenceStep(t, x, k, o, time)
      PROVE  OpenPairs'
    BY <1>0, <1>2, ReferencePairs
<1>3. ASSUME NEW r \in DOMAIN agent_runs,
             \/ CliFails(r) \/ \E stdout \in Stdouts : CliAnswers(r, stdout)
             \/ HttpReturns(r) \/ ReferenceReturns(r)
      PROVE  OpenPairs'
  <2>1. /\ \E result : TransportReturned(r, result)
        /\ agent_runs[r].pc = "running" /\ UNCHANGED agent_observers /\ told' = told
      BY <1>3 DEF CliFails, CliAnswers, CliEnds, HttpReturns, ReferenceReturns
  <2>2. tools' = tools /\ web' = web
      BY <2>1 DEF agent_observers, tool_vars, web_vars
  <2>3. RunShape(agent_runs[r]) /\ agent_runs[r].plan = <<>>
      BY <2>1 DEF TellInv, RunTells, RunShape
  <2>4. agent_runs[r].next = 1
      BY <2>3, ShapeIs
  <2> QED
      BY <2>1, <2>2, <2>4, ResultPairs
<1>4. ASSUME NEW r \in DOMAIN agent_runs, PublishNext(r)
      PROVE  OpenPairs'
    BY <1>0, <1>4, PublishPairs
<1>5. ASSUME tools' = tools, web' = web, told' = told, DOMAIN agent_runs' = DOMAIN agent_runs,
             \A r \in DOMAIN agent_runs : AsBefore(agent_runs[r], agent_runs'[r])
      PROVE  OpenPairs'
  <2>1. \A reply, x : SameAwaiting(agent_runs, agent_runs', told, told', reply, x)
    <3> TAKE reply, x
    <3>1. \A r \in DOMAIN agent_runs :
             /\ Awaits(agent_runs'[r], reply, told') <=> Awaits(agent_runs[r], reply, told)
             /\ agent_runs'[r].execution_id = agent_runs[r].execution_id
        BY <1>5 DEF Awaits, AsBefore
    <3> QED
        BY <1>5, <3>1 DEF SameAwaiting
  <2>2. OneLive(agent_runs')
      BY <1>5 DEF OneLive, AsBefore, OpenPairs
  <2>3. ASSUME NEW x \in AgentExecutions
        PROVE  Answered(x, agent_runs', told')
    <3>1. \A id : Asking(x, id, agent_runs) => Asking(x, id, agent_runs')
        BY <1>5 DEF Asking, AsBefore, Question
    <3> QED
        BY <1>0, <1>5, <3>1, AnsweredStays DEF OpenPairs
  <2> QED
      BY <1>0, <1>5, <2>1, <2>2, <2>3, PairsUnchanged
<1>6. CASE \/ \E x \in AgentExecutions : Attach(x) \/ Detach(x)
           \/ \E op \in AgentControls : Control(op)
           \/ attach_to_bus \/ CloseBus \/ ClearTransport
           \/ UNCHANGED <<agent_vars, agent_observers>>
  <2>1. agent_runs' = agent_runs /\ told' = told /\ UNCHANGED agent_observers
      BY <1>6 DEF Attach, Detach, Control, attach_to_bus, CloseBus, ClearTransport, Interferes,
               agent_vars
  <2>2. tools' = tools /\ web' = web
      BY <2>1 DEF agent_observers, tool_vars, web_vars
  <2> QED
      BY <1>5, <2>1, <2>2 DEF AsBefore
<1>7. CASE ClearReference
  <2>1. /\ agent_runs' = [r \in DOMAIN agent_runs |-> [agent_runs[r] EXCEPT !.object = 0]]
        /\ tools' = tools /\ web' = web /\ told' = told
      BY <1>7 DEF ClearReference, Interferes, agent_observers, tool_vars, web_vars
  <2>2. \A r \in DOMAIN agent_runs : AsBefore(agent_runs[r], agent_runs'[r])
    <3> TAKE r \in DOMAIN agent_runs
    <3> DEFINE u == agent_runs[r]
    <3>1. DOMAIN u = RunFields /\ agent_runs'[r] = [u EXCEPT !.object = 0]
        BY <2>1 DEF SessionInv, RunsType, RunType
    <3> HIDE DEF u
    <3> QED
        BY <3>1 DEF RunFields, u, AsBefore
  <2> QED
      BY <1>5, <2>1, <2>2
<1> QED
    BY <1>1, <1>2, <1>3, <1>4, <1>6, <1>7 DEF AgentNext

-----------------------------------------------------------------------------
(***************************************************************************)
(* The bus is closed: whatever was open then stays so, and waits.          *)
(***************************************************************************)
LEMMA OpenMatches ==
    ASSUME TellInv, OpenPairs, NEW x \in AgentExecutions
    PROVE  Matched(x)
<1>1. ToolPairs(x) /\ WebPairs(x)
    BY DEF OpenPairs
<1>2. ASSUME NEW q \in DOMAIN agent_runs, agent_runs[q].execution_id = x,
             NEW call, NEW reply, <<call, reply>> \in Kinds, Awaits(agent_runs[q], reply, told)
      PROVE  Waits(x, Question(agent_runs[q]).event_id)
  <2> DEFINE u == agent_runs[q]
             n == u.next
             l == n - 1
  <2>1. RunShape(u) /\ u.pc = "publishing" /\ u.plan[n].type = reply
      BY <1>2 DEF TellInv, RunTells, Awaits
  <2>2. /\ PlanShape(u.plan, u.execution_id, u.step_index)
        /\ Len(u.plan) \in Nat /\ DOMAIN u.plan = 1 .. Len(u.plan) /\ n \in DOMAIN u.plan
      BY <2>1, ShapeIs DEF RunShape
  <2> HIDE DEF u
  <2>3. l \in DOMAIN u.plan
      BY <1>2, <2>1, <2>2, TypesAre
  <2>4. n \in 2 .. Len(u.plan)
      BY <2>2, <2>3
  <2> QED
      BY <1>2, <2>1, <2>4 DEF Waits, Question, u
<1>3. ASSUME NEW w, NEW past, NEW none, NEW call, NEW reply, <<call, reply>> \in Kinds,
             NEW i \in DOMAIN w, PairsOf(w, past, none, reply, x, agent_runs, told)
      PROVE  \/ w[i].first # none /\ w[i].second # none /\ Pair(w[i].first, w[i].second)
             \/ w[i].second = none /\ Waits(x, w[i].first)
  <2>1. CASE w[i].open
    <3>1. PICK q \in DOMAIN agent_runs :
             /\ agent_runs[q].execution_id = x /\ Awaits(agent_runs[q], reply, told)
             /\ w[i].first = Question(agent_runs[q]).event_id
        BY <1>3, <2>1 DEF PairsOf
    <3>2. w[i].second = none
        BY <1>3, <2>1 DEF PairsOf
    <3>3. Waits(x, w[i].first)
        BY <1>2, <1>3, <3>1
    <3> QED
        BY <3>2, <3>3
  <2>2. CASE ~w[i].open
      BY <1>3, <2>2 DEF PairsOf
  <2> QED
      BY <2>1, <2>2
<1>4. /\ <<"TOOL_CALLED", "TOOL_COMPLETED">> \in Kinds
      /\ <<"WEB_REQUEST", "WEB_RESPONSE">> \in Kinds
    BY DEF Kinds
<1>5. ASSUME NEW i \in DOMAIN tools[x].invocations
      PROVE  LET v == tools[x].invocations[i]
             IN \/ v.call_event # NoTool /\ v.completion_event # NoTool
                   /\ Pair(v.call_event, v.completion_event)
                \/ v.completion_event = NoTool /\ Waits(x, v.call_event)
  <2> DEFINE w == ToolView(tools[x].invocations)
  <2>1. /\ i \in DOMAIN w /\ w[i].first = tools[x].invocations[i].call_event
        /\ w[i].second = tools[x].invocations[i].completion_event
      BY DEF ToolView
  <2>2. PairsOf(w, tools[x].seen, NoTool, "TOOL_COMPLETED", x, agent_runs, told)
      BY <1>1 DEF ToolPairs
  <2> HIDE DEF w
  <2>3. \/ w[i].first # NoTool /\ w[i].second # NoTool /\ Pair(w[i].first, w[i].second)
        \/ w[i].second = NoTool /\ Waits(x, w[i].first)
      BY <1>3, <1>4, <2>1, <2>2
  <2> QED
      BY <2>1, <2>3
<1>6. ASSUME NEW i \in DOMAIN web[x].activities
      PROVE  LET v == web[x].activities[i]
             IN \/ v.request_event # NoWeb /\ v.response_event # NoWeb
                   /\ Pair(v.request_event, v.response_event)
                \/ v.response_event = NoWeb /\ Waits(x, v.request_event)
  <2> DEFINE w == WebView(web[x].activities)
  <2>1. /\ i \in DOMAIN w /\ w[i].first = web[x].activities[i].request_event
        /\ w[i].second = web[x].activities[i].response_event
      BY DEF WebView
  <2>2. PairsOf(w, web[x].seen, NoWeb, "WEB_RESPONSE", x, agent_runs, told)
      BY <1>1 DEF WebPairs
  <2> HIDE DEF w
  <2>3. \/ w[i].first # NoWeb /\ w[i].second # NoWeb /\ Pair(w[i].first, w[i].second)
        \/ w[i].second = NoWeb /\ Waits(x, w[i].first)
      BY <1>3, <1>4, <2>1, <2>2
  <2> QED
      BY <2>1, <2>3
<1> QED
    BY <1>5, <1>6 DEF Matched

LEMMA MatchedStays ==
    ASSUME NEW x, Matched(x), tools' = tools, web' = web,
           \A id : Waits(x, id) => Waits(x, id)'
    PROVE  Matched(x)'
BY DEF Matched

\* A run stays at the place it is at.
Stays(u, v) ==
    v.execution_id = u.execution_id /\ (u.next > 1 => v.plan = u.plan /\ v.next = u.next)

LEMMA ClosedKeeps ==
    ASSUME SessionInv, TellInv, [AgentNext]_<<agent_vars, agent_observers>>,
           agent_bus' = "closed"
    PROVE  /\ tools' = tools /\ web' = web
           /\ \A q \in DOMAIN agent_runs : /\ q \in DOMAIN agent_runs'
                                           /\ Stays(agent_runs[q], agent_runs'[q])
<1> DEFINE Kept_ == \A q \in DOMAIN agent_runs : /\ q \in DOMAIN agent_runs'
                                                 /\ Stays(agent_runs[q], agent_runs'[q])
<1>1. ASSUME NEW run, agent_runs' = Append(agent_runs, run)
      PROVE  Kept_
  <2> DEFINE n == Len(agent_runs)
  <2>1. /\ n \in Nat /\ DOMAIN agent_runs = 1 .. n /\ DOMAIN agent_runs' = 1 .. (n + 1)
        /\ \A i \in 1 .. n : agent_runs'[i] = agent_runs[i]
      BY <1>1, SeqIs, AppendIs DEF SessionInv, RunsType
  <2> HIDE DEF n
  <2> QED
      BY <2>1 DEF Stays
<1>2. ASSUME NEW r \in DOMAIN agent_runs, OneMoves(agent_runs, agent_runs', r),
             agent_runs[r].next > 1 => /\ agent_runs'[r].plan = agent_runs[r].plan
                                       /\ agent_runs'[r].next = agent_runs[r].next
      PROVE  Kept_
    BY <1>2 DEF OneMoves, SameRun, Stays
<1>3. ASSUME NEW t \in AgentThreads, NEW x \in AgentExecutions, NEW k \in StepIndices,
             NEW o \in Offers, NEW time \in Ticks,
             BeginStep(t, x, k, o, time) \/ ReferenceStep(t, x, k, o, time)
      PROVE  Kept_ /\ UNCHANGED agent_observers
  <2>1. \E run : agent_runs' = Append(agent_runs, run)
      BY <1>3, BeginStepIs, ReferenceStepIs
  <2>2. UNCHANGED agent_observers
      BY <1>3 DEF BeginStep, ReferenceStep
  <2> QED
      BY <1>1, <2>1, <2>2
<1>4. ASSUME NEW r \in DOMAIN agent_runs,
             \/ CliFails(r) \/ \E stdout \in Stdouts : CliAnswers(r, stdout)
             \/ HttpReturns(r) \/ ReferenceReturns(r)
      PROVE  Kept_ /\ UNCHANGED agent_observers
  <2>1. /\ \E result : TransportReturned(r, result)
        /\ agent_runs[r].pc = "running" /\ UNCHANGED agent_observers
      BY <1>4 DEF CliFails, CliAnswers, CliEnds, HttpReturns, ReferenceReturns
  <2>2. RunShape(agent_runs[r]) /\ agent_runs[r].plan = <<>>
      BY <2>1 DEF TellInv, RunTells, RunShape
  <2>3. ~(agent_runs[r].next > 1)
      BY <2>2, ShapeIs
  <2>4. OneMoves(agent_runs, agent_runs', r)
      BY <2>1, TransportReturnedIs DEF SessionInv
  <2> QED
      BY <1>2, <2>1, <2>3, <2>4
<1>5. ASSUME NEW r \in DOMAIN agent_runs, PublishNext(r)
      PROVE  Kept_ /\ UNCHANGED agent_observers
  <2>1. agent_bus = "closed"
      BY <1>5 DEF PublishNext
  <2>2. ~Repeats(Due(r)) /\ ~Accepts(Due(r))
      BY <2>1 DEF Repeats, Accepts
  <2>3. /\ OneMoves(agent_runs, agent_runs', r)
        /\ agent_runs'[r].plan = agent_runs[r].plan
        /\ agent_runs'[r].next = agent_runs[r].next /\ UNCHANGED agent_observers
      BY <1>5, <2>2, PublishNextIs DEF SessionInv
  <2> QED
      BY <1>2, <2>3
<1>6. ASSUME \/ \E x \in AgentExecutions : Attach(x) \/ Detach(x)
             \/ \E op \in AgentControls : Control(op)
             \/ attach_to_bus \/ CloseBus \/ ClearTransport
             \/ UNCHANGED <<agent_vars, agent_observers>>
      PROVE  Kept_ /\ UNCHANGED agent_observers
  <2>1. agent_runs' = agent_runs /\ UNCHANGED agent_observers
      BY <1>6 DEF Attach, Detach, Control, attach_to_bus, CloseBus, ClearTransport, Interferes,
               agent_vars
  <2> QED
      BY <2>1 DEF Stays
<1>7. ASSUME ClearReference
      PROVE  Kept_ /\ UNCHANGED agent_observers
  <2>1. /\ agent_runs' = [r \in DOMAIN agent_runs |-> [agent_runs[r] EXCEPT !.object = 0]]
        /\ UNCHANGED agent_observers
      BY <1>7 DEF ClearReference, Interferes
  <2>2. \A q \in DOMAIN agent_runs : Stays(agent_runs[q], agent_runs'[q])
    <3> TAKE q \in DOMAIN agent_runs
    <3> DEFINE u == agent_runs[q]
    <3>1. DOMAIN u = RunFields /\ agent_runs'[q] = [u EXCEPT !.object = 0]
        BY <2>1 DEF SessionInv, RunsType, RunType
    <3> HIDE DEF u
    <3> QED
        BY <3>1 DEF RunFields, u, Stays
  <2> QED
      BY <2>1, <2>2
<1> HIDE DEF Kept_
<1>8. Kept_ /\ UNCHANGED agent_observers
    BY <1>3, <1>4, <1>5, <1>6, <1>7 DEF AgentNext
<1> QED
    BY <1>8 DEF Kept_, agent_observers, tool_vars, web_vars

LEMMA WaitsStay ==
    ASSUME SessionInv, TellInv, [AgentNext]_<<agent_vars, agent_observers>>,
           agent_bus' = "closed", NEW x, NEW id, Waits(x, id)
    PROVE  Waits(x, id)'
<1>1. PICK q \in DOMAIN agent_runs :
         /\ agent_runs[q].execution_id = x
         /\ agent_runs[q].next \in 2..Len(agent_runs[q].plan)
         /\ agent_runs[q].plan[agent_runs[q].next - 1].event_id = id
    BY DEF Waits
<1>2. q \in DOMAIN agent_runs' /\ Stays(agent_runs[q], agent_runs'[q])
    BY ClosedKeeps
<1>3. agent_runs[q].next > 1
  <2>1. Len(agent_runs[q].plan) \in Nat
      BY ShapeIs DEF TellInv, RunTells
  <2> QED
      BY <1>1, <2>1
<1>4. /\ agent_runs'[q].execution_id = x /\ agent_runs'[q].plan = agent_runs[q].plan
      /\ agent_runs'[q].next = agent_runs[q].next
    BY <1>1, <1>2, <1>3 DEF Stays
<1> QED
    BY <1>1, <1>2, <1>4 DEF Waits

-----------------------------------------------------------------------------
(***************************************************************************)
(* The pairs are kept.                                                     *)
(***************************************************************************)
LEMMA PairsBegin == AgentInit /\ ToolInit /\ WebInit => PairInv
<1> SUFFICES ASSUME AgentInit, ToolInit, WebInit PROVE PairInv
    OBVIOUS
<1>1. /\ tools = [x \in ToolExecutions |-> NoActivity] /\ web = [x \in WebExecutions |-> NoRequests]
      /\ agent_runs = <<>> /\ told = <<>> /\ AgentExecutions \subseteq ToolExecutions
      /\ AgentExecutions \subseteq WebExecutions
    BY AgentAssumption DEF AgentInit, ToolInit, WebInit
<1>2. OneLive(agent_runs)
    BY <1>1 DEF OneLive
<1>3. ASSUME NEW x \in AgentExecutions
      PROVE  ToolPairs(x) /\ WebPairs(x) /\ Answered(x, agent_runs, told) /\ Matched(x)
  <2>1. /\ tools[x].invocations = <<>> /\ tools[x].seen = {}
        /\ web[x].activities = <<>> /\ web[x].seen = {}
      BY <1>1 DEF NoActivity, NoRequests
  <2>2. InvocationsAre(<<>>) /\ ActivitiesAre(<<>>)
      BY EmptyIs DEF InvocationsAre, ActivitiesAre
  <2>3. DOMAIN ToolView(<<>>) = {} /\ DOMAIN WebView(<<>>) = {}
      BY DEF ToolView, WebView
  <2>4. DOMAIN agent_runs = {} /\ DOMAIN told = {}
      BY <1>1
  <2>5. \A w, none, reply : DOMAIN w = {} => PairsOf(w, {}, none, reply, x, agent_runs, told)
      BY <2>4 DEF PairsOf
  <2>6. Answered(x, agent_runs, told)
      BY <2>4 DEF Answered, Has
  <2>7. Matched(x)
      BY <2>1 DEF Matched
  <2> QED
      BY <2>1, <2>2, <2>3, <2>5, <2>6, <2>7 DEF ToolPairs, WebPairs
<1>4. ObserversAre
    BY <1>1 DEF ObserversAre
<1> QED
    BY <1>2, <1>3, <1>4 DEF PairInv, OpenPairs

LEMMA ObserversStay ==
    ASSUME SessionInv, TellInv, ObserversAre, [AgentNext]_<<agent_vars, agent_observers>>
    PROVE  ObserversAre'
<1>1. ASSUME NEW r \in DOMAIN agent_runs, PublishNext(r)
      PROVE  ObserversAre'
  <2> DEFINE e == Due(r)
  <2>1. /\ agent_runs[r].pc = "publishing"
        /\ UNCHANGED agent_observers \/ Observed(e)
      BY <1>1, PublishNextIs DEF SessionInv
  <2>2. e.execution_id \in AgentExecutions
      BY <2>1, NextIs
  <2> HIDE DEF e
  <2>3. e.execution_id \in ToolExecutions \cap WebExecutions
      BY <2>2, AgentAssumption
  <2>4. CASE UNCHANGED agent_observers
      BY <2>4 DEF ObserversAre, agent_observers, tool_vars, web_vars
  <2>5. CASE Observed(e)
      BY <2>3, <2>5, ObservedIs DEF ObserversAre
  <2> QED
      BY <2>1, <2>4, <2>5
<1>2. CASE UNCHANGED agent_observers
    BY <1>2 DEF ObserversAre, agent_observers, tool_vars, web_vars
<1>3. (\A r \in DOMAIN agent_runs : ~PublishNext(r)) => UNCHANGED agent_observers
  <2> SUFFICES ASSUME \A r \in DOMAIN agent_runs : ~PublishNext(r)
               PROVE  UNCHANGED agent_observers
      OBVIOUS
  <2>1. CASE \E t \in AgentThreads, x \in AgentExecutions, k \in StepIndices, o \in Offers :
                \E time \in Ticks :
                   BeginStep(t, x, k, o, time) \/ ReferenceStep(t, x, k, o, time)
      BY <2>1 DEF BeginStep, ReferenceStep
  <2>2. CASE \E r \in DOMAIN agent_runs :
                \/ CliFails(r) \/ \E stdout \in Stdouts : CliAnswers(r, stdout)
                \/ HttpReturns(r) \/ ReferenceReturns(r)
      BY <2>2 DEF CliFails, CliAnswers, CliEnds, HttpReturns, ReferenceReturns
  <2>3. CASE \/ \E x \in AgentExecutions : Attach(x) \/ Detach(x)
             \/ \E op \in AgentControls : Control(op)
             \/ attach_to_bus \/ CloseBus \/ ClearTransport \/ ClearReference
      BY <2>3 DEF Attach, Detach, Control, attach_to_bus, CloseBus, ClearTransport,
               ClearReference, Interferes
  <2>4. CASE UNCHANGED <<agent_vars, agent_observers>>
      BY <2>4
  <2> QED
      BY <2>1, <2>2, <2>3, <2>4 DEF AgentNext
<1> QED
    BY <1>1, <1>2, <1>3

LEMMA PairsGoOn ==
    SessionInv /\ TellInv /\ PairInv /\ TellInv'
        /\ [AgentNext]_<<agent_vars, agent_observers>> => PairInv'
<1> SUFFICES ASSUME SessionInv, TellInv, PairInv, TellInv',
                    [AgentNext]_<<agent_vars, agent_observers>>
             PROVE  PairInv'
    OBVIOUS
<1>1. ObserversAre /\ ObserversAre'
    BY ObserversStay DEF PairInv
<1>2. SUFFICES ASSUME Sequential', QuestionsPass'
               PROVE  IF agent_bus' # "closed" THEN OpenPairs'
                      ELSE \A x \in AgentExecutions : Matched(x)'
    BY <1>1 DEF PairInv
<1>3. Sequential /\ QuestionsPass
    BY <1>2, SequentialStays, BusRemembers
<1>4. agent_bus = "closed" => agent_bus' = "closed"
  <2>1. CASE \E t \in AgentThreads, x \in AgentExecutions, k \in StepIndices, o \in Offers :
                \E time \in Ticks :
                   BeginStep(t, x, k, o, time) \/ ReferenceStep(t, x, k, o, time)
      BY <2>1 DEF BeginStep, ReferenceStep
  <2>2. CASE \E r \in DOMAIN agent_runs :
                \/ CliFails(r) \/ \E stdout \in Stdouts : CliAnswers(r, stdout)
                \/ HttpReturns(r) \/ ReferenceReturns(r) \/ PublishNext(r)
      BY <2>2 DEF CliFails, CliAnswers, CliEnds, HttpReturns, ReferenceReturns, PublishNext
  <2>3. CASE \/ \E x \in AgentExecutions : Attach(x) \/ Detach(x)
             \/ \E op \in AgentControls : Control(op)
             \/ ClearTransport \/ ClearReference
      BY <2>3 DEF Attach, Detach, Control, ClearTransport, ClearReference
  <2>4. CASE attach_to_bus \/ CloseBus \/ UNCHANGED <<agent_vars, agent_observers>>
      BY <2>4 DEF attach_to_bus, CloseBus, agent_vars
  <2> QED
      BY <2>1, <2>2, <2>3, <2>4 DEF AgentNext
<1>5. CASE agent_bus' # "closed"
  <2>1. agent_bus # "closed" /\ OpenPairs
      BY <1>3, <1>4, <1>5 DEF PairInv
  <2> QED
      BY <1>1, <1>2, <1>5, <2>1, OpenGoesOn
<1>6. CASE agent_bus' = "closed"
  <2>1. \A x \in AgentExecutions : Matched(x)
      BY <1>3, OpenMatches DEF PairInv
  <2>2. /\ tools' = tools /\ web' = web
        /\ \A x, id : Waits(x, id) => Waits(x, id)'
      BY <1>6, ClosedKeeps, WaitsStay
  <2>3. \A x \in AgentExecutions : Matched(x)'
      BY <2>1, <2>2, MatchedStays
  <2> QED
      BY <1>6, <2>3
<1> QED
    BY <1>5, <1>6

LEMMA InvPairsIt == SessionInv /\ TellInv /\ PairInv => ActivityIsPaired
<1> SUFFICES ASSUME SessionInv, TellInv, PairInv, Sequential, QuestionsPass,
                    NEW x \in {agent_runs[r].execution_id : r \in DOMAIN agent_runs}
             PROVE  Matched(x)
    BY DEF ActivityIsPaired
<1>1. x \in AgentExecutions
    BY DEF SessionInv, RunsType, RunType
<1> QED
    BY <1>1, OpenMatches DEF PairInv

\* While no steps of an execution overlap and no handler raises on a call or a
\* request, the observers pair the two events of every tool call and of every web
\* request its adapter reports, whatever else the bus refuses.  What is unpaired
\* was published last by a run that still publishes, or that the closing of the
\* bus cut short.
THEOREM PairsAreMatched == AgentSpec => []ActivityIsPaired
<1> DEFINE Inv == SessionInv /\ TellInv /\ PairInv
<1>1. AgentInit /\ ToolInit /\ WebInit => Inv
    BY SessionsBegin, TellsBegin, PairsBegin
<1>2. Inv /\ [AgentNext]_<<agent_vars, agent_observers>> => Inv'
    BY SessionsGoOn, TellsGoOn, PairsGoOn
<1>3. Inv => ActivityIsPaired
    BY InvPairsIt
<1> QED
    BY <1>1, <1>2, <1>3, PTL DEF AgentSpec
=============================================================================
