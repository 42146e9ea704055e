----------------------------- MODULE NatSession ------------------------------
(***************************************************************************)
(* One ACS session of the NAT middleware (acs/integrations/nat/adapter.py): *)
(* a root Runner's, a run's seen only from its calls, or the middleware's   *)
(* own.  In one process the event loop runs the tool calls, each of which   *)
(* does its Guardian work on a worker thread; one thread, the lane, sends   *)
(* the session's lifecycle hooks in order; and close() ends what is open.   *)
(* One action is what a thread does under one lock or between two waits.    *)
(* The Guardian is external.                                                *)
(***************************************************************************)
EXTENDS Integers, Sequences, FiniteSets

CONSTANTS
  Calls,     \* the tool calls made in the session's context
  Kinds,     \* the kinds of session: see Settings
  Postures,  \* <<default_deny, whether ACS_STARTUP_POSTURE is proceed>>
  Hellos,    \* the handshake answers a Guardian can give: see Decision
  None

Methods == {"steps/sessionStart", "steps/userMessage", "steps/toolCallRequest",
            "steps/toolCallResult", "steps/agentResponse", "steps/sessionEnd"}
Requests == {"handshake/hello"} \cup Methods
Settings == [kind : {"workflow", "stream", "own"}, deny : BOOLEAN, startup : BOOLEAN]

\* Negotiated, with the posture and the methods its ServerHello declares and whether
\* its sessionStart got no decision; SessionRefused; NoAnswer.
Negotiated == [kind : {"negotiated"}, deny : BOOLEAN, evaluates : SUBSET Methods, start_failure : BOOLEAN]
SessionRefused == [kind |-> "refused"]
NoAnswer == [kind |-> "no_answer"]
Decision == Negotiated \cup {SessionRefused, NoAnswer}

\* What a request to the Guardian can come to: a verdict that lets the step go on,
\* as it is or modified; any other verdict; no decision; a refusal.
Answers == {"allow", "deny", "undecided", "refused"}

ASSUME KindsAssumption == Kinds \subseteq {"workflow", "stream", "own"}
ASSUME PosturesAssumption == Postures \subseteq BOOLEAN \X BOOLEAN
ASSUME HellosAssumption ==
  Hellos \subseteq {d \in Decision : d.kind = "negotiated" => ~d.start_failure}
ASSUME CallsAssumption == IsFiniteSet(Calls) /\ Calls \cap Methods = {}

Lane == "lane"
Threads == Calls \cup {Lane}
ASSUME LaneAssumption == Lane \notin Calls
ASSUME NoneAssumption == None \notin Decision \cup Requests \cup Threads \cup {"blocked", "proceed"}

VARIABLES
  settings, \* the session's kind, and the middleware's postures
  run,      \* the run: idle, its Runner opened and started, running, returned, or stopped
  shut,     \* close(): not called, refusing new sessions, ending this one, waiting, done
  pending, sealed, \* the lane's queue, and whether it takes no more
  item,     \* what the lane is sending
  lock,     \* the thread inside the session's lock
  decision, \* the session's decision
  ended, closed, in_flight, failures, \* what the session keeps under idle
  input_refusal,
  sent,     \* the requests sent for the session, in order
  reported, \* the failures its sessionEnd reports
  pc,       \* each thread's control point
  stage,    \* each call: which of its two hooks is next or under way
  late,     \* that hook began after the session ended, or after close()
  ran       \* the tool ran, and its output was released

session == <<ended, closed, in_flight, failures, input_refusal, decision, lock>>
queue == <<pending, sealed, item>>
vars == <<settings, run, shut, queue, session, sent, reported, pc, stage, late, ran>>

-----------------------------------------------------------------------------
(* Settling a decision: Config.gate and FailPosture.                        *)

posture(d) == settings.deny \/ d.deny

\* None when the step goes to the Guardian.
gate(d, method) ==
  CASE d.kind = "negotiated" ->
         IF d.start_failure /\ method # "steps/sessionEnd" /\ posture(d) THEN "blocked" ELSE None
    [] d.kind = "refused" -> "blocked"
    [] d.kind = "no_answer" -> IF settings.startup THEN "proceed" ELSE "blocked"

Goto(t, label) == pc' = [pc EXCEPT ![t] = label]

method_of(t) ==
  IF t = Lane THEN item
  ELSE IF stage[t] = "pre" THEN "steps/toolCallRequest" ELSE "steps/toolCallResult"

\* A hook of a call is over: the tool runs, or its output is released, or neither.
Settle(c, proceeds) ==
  /\ ran' = [ran EXCEPT ![c] = IF proceeds THEN @ \cup {stage[c]} ELSE @]
  /\ Goto(c, IF proceeds /\ stage[c] = "pre" THEN "tool" ELSE "done")

Count == failures' = failures + 1

-----------------------------------------------------------------------------
(* The lane's queue. *)

submit(method) == pending' = Append(pending, method)

\* _queue: not once the session has ended.
Queue(method) == IF ended THEN UNCHANGED pending ELSE submit(method)

\* _workflow_started: a Runner's session is open before any call of it; then its
\* sessionStart is queued, and its input, unless close() has ended it by then.
RunnerStarts(text) ==
  /\ settings.kind = "workflow"
  /\ \/ run = "idle" /\ shut = "no" /\ run' = "opened" /\ UNCHANGED pending
     \/ run = "opened" /\ run' = "started" /\ Queue("steps/sessionStart")
     \/ run = "started" /\ run' = "running" /\ (IF text THEN Queue("steps/userMessage") ELSE UNCHANGED pending)
  /\ UNCHANGED <<settings, shut, sealed, item, session, sent, reported, pc, stage, late, ran>>

\* _workflow_ended: the output is queued, unless the session has ended.
RunnerReturns(text) ==
  /\ run = "running" /\ settings.kind # "own"
  /\ run' = "returned"
  /\ IF text THEN Queue("steps/agentResponse") ELSE UNCHANGED pending
  /\ UNCHANGED <<settings, shut, sealed, item, session, sent, reported, pc, stage, late, ran>>

\* _end_session: a session ends once, and its sessionEnd is the last thing queued.
EndSession ==
  IF ended THEN UNCHANGED <<pending, ended>>
  ELSE ended' = TRUE /\ submit("steps/sessionEnd")

\* _runner_stopped, whether the run returned, raised or was cancelled.
RunnerStops ==
  /\ run \in {"running", "returned"} /\ settings.kind # "own"
  /\ run' = "stopped"
  /\ EndSession
  /\ UNCHANGED <<settings, shut, sealed, item, closed, in_flight, failures, input_refusal, decision, lock,
                 sent, reported, pc, stage, late, ran>>

\* close: no session is opened any more; then this one ends, if it is open; then
\* its lane runs dry.
Close ==
  /\ \/ shut = "no" /\ shut' = "refusing" /\ UNCHANGED <<pending, ended>>
     \/ /\ shut = "refusing"
        /\ IF run = "idle" \/ sealed THEN shut' = "done" /\ UNCHANGED <<pending, ended>>
           ELSE shut' = "draining" /\ EndSession
     \/ /\ shut = "draining" /\ pending = <<>> /\ item = None
        /\ shut' = "done" /\ UNCHANGED <<pending, ended>>
  /\ UNCHANGED <<settings, run, sealed, item, closed, in_flight, failures, input_refusal, decision, lock,
                 sent, reported, pc, stage, late, ran>>

-----------------------------------------------------------------------------
(* A call: pre_invoke, the tool, post_invoke. *)

\* A hook of a call begins; the first makes a session no Runner made, and with no
\* session it is refused. waits: it goes through the lane's queue.
Joins(c, waits) ==
  /\ pc[c] \in {"idle", "tool"}
  /\ settings.kind = "workflow" => run \notin {"idle", "opened", "started"}
  /\ stage' = [stage EXCEPT ![c] = IF pc[c] = "idle" THEN "pre" ELSE "post"]
  /\ late' = [late EXCEPT ![c] = ended \/ shut # "no"]
  /\ IF run = "idle" /\ shut # "no"
     THEN Goto(c, "done") /\ UNCHANGED <<run, pending>>
     ELSE /\ run' = IF run = "idle" THEN "running" ELSE run
          /\ Goto(c, IF waits THEN "wait" ELSE "open")
          /\ pending' = IF waits THEN Append(pending, c) ELSE pending
  /\ UNCHANGED <<settings, shut, sealed, item, session, sent, reported, ran>>

\* Mutant: a call does not wait for the hooks queued before it.
BeginAtOnce(c) == Joins(c, FALSE)

\* _session_of_call and _step_of: the call waits until the hooks queued so far have
\* gone out.
Begin(c) == Joins(c, pending # <<>> \/ item # None)

\* Mutant: a call of an ended session goes by the decision it has.
OpenEnded(t) ==
  /\ pc[t] = "open" /\ lock = None
  /\ \/ /\ decision # None
        /\ Goto(t, "gate") /\ UNCHANGED <<decision, lock, sent, ran>>
     \/ /\ decision = None
        /\ lock' = t /\ Goto(t, "hello") /\ sent' = Append(sent, "handshake/hello")
        /\ UNCHANGED <<decision, ran>>
  /\ UNCHANGED <<settings, run, shut, queue, ended, closed, in_flight, failures, input_refusal, reported, stage, late>>

\* _open: a call of an ended session, or after close(), is refused; the first
\* thread sends the handshake, or finds its records cannot be locked or the
\* handshake switched off.
Open(t) ==
  /\ pc[t] = "open" /\ lock = None
  /\ \/ /\ t # Lane /\ (ended \/ shut # "no")
        /\ Settle(t, FALSE) /\ UNCHANGED <<decision, lock, sent>>
     \/ /\ t = Lane \/ (~ended /\ shut = "no")
        /\ \/ /\ decision # None
              /\ Goto(t, "gate") /\ UNCHANGED <<decision, lock, sent, ran>>
           \/ /\ decision = None
              /\ \/ lock' = t /\ Goto(t, "hello") /\ sent' = Append(sent, "handshake/hello") /\ UNCHANGED decision
                 \/ decision' \in {SessionRefused, NoAnswer} /\ Goto(t, "gate") /\ UNCHANGED <<lock, sent>>
              /\ UNCHANGED ran
  /\ UNCHANGED <<settings, run, shut, queue, ended, closed, in_flight, failures, input_refusal, reported, stage, late>>

\* The handshake is answered: the session is refused or unanswered, or its
\* sessionStart is sent, unless the Guardian does not evaluate it.
HelloReturns(t, d) ==
  /\ pc[t] = "hello"
  /\ IF d.kind = "negotiated" /\ "steps/sessionStart" \in d.evaluates
     THEN Goto(t, "start") /\ sent' = Append(sent, "steps/sessionStart") /\ UNCHANGED lock
     ELSE Goto(t, "gate") /\ lock' = None /\ UNCHANGED sent
  /\ decision' = d
  /\ UNCHANGED <<settings, run, shut, queue, ended, closed, in_flight, failures, input_refusal, reported, stage, late, ran>>

\* _send_session_start and session_start_outcome: a deny or a refusal refuses the
\* session, and so does an outcome that cannot be recorded.
StartReturns(t, a) ==
  /\ pc[t] = "start"
  /\ IF a \in {"undecided", "refused"} THEN Count ELSE UNCHANGED failures
  /\ \/ /\ a = "allow" /\ UNCHANGED decision
     \/ /\ a = "undecided" /\ decision' = [decision EXCEPT !.start_failure = TRUE]
     \/ decision' = SessionRefused
  /\ lock' = None /\ Goto(t, "gate")
  /\ UNCHANGED <<settings, run, shut, queue, ended, closed, in_flight, input_refusal, sent, reported, stage, late, ran>>

-----------------------------------------------------------------------------
(* A step of an opened session, a call's or the lane's. *)

\* The step is over. The lane is free again, unless the session is now to be finished.
Over(t, proceeds) ==
  \/ t # Lane /\ Settle(t, proceeds) /\ UNCHANGED item
  \/ t = Lane /\ item = "steps/sessionEnd" /\ Goto(Lane, "finish") /\ UNCHANGED <<item, ran>>
  \/ t = Lane /\ item # "steps/sessionEnd" /\ Goto(Lane, "idle") /\ item' = None /\ UNCHANGED ran

\* pre_invoke, post_invoke and _emit_lifecycle_hook up to the exchange: the gate, the
\* refused input (before the tool only), the methods the Guardian does not evaluate;
\* a request that cannot be built is counted, and fails closed or by the posture.
Gate(t) ==
  /\ pc[t] = "gate"
  /\ LET m == method_of(t)
         g == gate(decision, m)
         input == m = "steps/toolCallRequest" /\ input_refusal
         asks == g = None /\ ~input /\ m \in decision.evaluates
     IN \/ /\ m = "steps/sessionStart" /\ Over(t, TRUE) /\ UNCHANGED failures
        \/ /\ m # "steps/sessionStart" /\ ~asks
           /\ Over(t, IF g = None THEN ~input ELSE g = "proceed") /\ UNCHANGED failures
        \/ /\ m # "steps/sessionStart" /\ asks
           /\ Goto(t, "exchange") /\ UNCHANGED <<item, ran, failures>>
        \/ /\ t # Lane /\ asks /\ Count
           /\ \E closes \in BOOLEAN : Over(t, ~closes /\ ~posture(decision))
  /\ UNCHANGED <<settings, run, shut, pending, sealed, ended, closed, in_flight, input_refusal, decision, lock,
                 sent, reported, stage, late>>

\* _exchange up to the wait: nothing joins a session whose sessionEnd is being sent.
\* The request goes out, or it cannot be signed or addressed.
Exchange(t) ==
  /\ pc[t] = "exchange"
  /\ IF closed /\ method_of(t) # "steps/sessionEnd"
     THEN Over(t, FALSE) /\ UNCHANGED <<in_flight, sent>>
     ELSE /\ in_flight' = IF method_of(t) = "steps/sessionEnd" THEN in_flight ELSE in_flight + 1
          /\ \/ Goto(t, "sent") /\ sent' = Append(sent, method_of(t))
             \/ Goto(t, "unsent") /\ UNCHANGED sent
          /\ UNCHANGED <<item, ran>>
  /\ UNCHANGED <<settings, run, shut, pending, sealed, ended, closed, failures, input_refusal, decision, lock,
                 reported, stage, late>>

proceeds(a) == a = "allow" \/ (a = "undecided" /\ ~posture(decision))

\* The exchange ends: a missing decision is counted, a refused input recorded.
Answered(t, a) ==
  /\ pc[t] = "sent" \/ (pc[t] = "unsent" /\ a \in {"undecided", "refused"})
  /\ IF a \in {"undecided", "refused"} /\ method_of(t) # "steps/sessionEnd" THEN Count ELSE UNCHANGED failures
  /\ input_refusal' = (input_refusal \/ (method_of(t) = "steps/userMessage" /\ ~proceeds(a)))
  /\ Over(t, proceeds(a))
  /\ UNCHANGED <<settings, run, shut, pending, sealed, ended, closed, decision, lock, sent, reported, stage, late>>

\* Mutant: only an exchange that got a decision is taken off, and no sessionEnd.
ReturnsInFlight(t, a) ==
  /\ Answered(t, a)
  /\ in_flight' = IF a \in {"undecided", "refused"} \/ method_of(t) = "steps/sessionEnd" THEN in_flight ELSE in_flight - 1
\* _exchange after the wait, whatever came of it.
Returns(t, a) ==
  /\ Answered(t, a)
  /\ in_flight' = IF method_of(t) = "steps/sessionEnd" THEN in_flight ELSE in_flight - 1

-----------------------------------------------------------------------------
(* The lane. *)

\* _run: a call that waited goes on; a hook is sent. sessionEnd lets nothing more join.
Take ==
  /\ pc[Lane] = "idle" /\ pending # <<>>
  /\ LET m == Head(pending) IN
     \/ m \in Calls /\ Goto(m, "open") /\ UNCHANGED <<item, closed>>
     \/ m = "steps/sessionEnd" /\ item' = m /\ closed' = TRUE /\ Goto(Lane, "drain")
     \/ m \in Methods \ {"steps/sessionEnd"} /\ item' = m /\ Goto(Lane, "open") /\ UNCHANGED closed
  /\ pending' = Tail(pending)
  /\ UNCHANGED <<settings, run, shut, sealed, ended, in_flight, failures, input_refusal, decision, lock,
                 sent, reported, stage, late, ran>>

\* Mutant: the sessionEnd does not wait for the exchanges under way.
DrainAtOnce ==
  /\ pc[Lane] = "drain"
  /\ reported' = failures /\ Goto(Lane, "decision")
  /\ UNCHANGED <<settings, run, shut, queue, session, sent, stage, late, ran>>

\* _send_session_end under idle: when nothing is in flight, the failures are read.
Drain ==
  /\ pc[Lane] = "drain" /\ in_flight = 0
  /\ reported' = failures /\ Goto(Lane, "decision")
  /\ UNCHANGED <<settings, run, shut, queue, session, sent, stage, late, ran>>

\* _send_session_end under the session's lock: a session nobody opened sends nothing.
ReadDecision ==
  /\ pc[Lane] = "decision" /\ lock = None
  /\ Goto(Lane, IF decision = None THEN "finish" ELSE "gate")
  /\ UNCHANGED <<settings, run, shut, queue, session, sent, reported, stage, late, ran>>

\* _finish: the queue takes no more, and the session's records are removed.
Finish ==
  /\ pc[Lane] = "finish"
  /\ sealed' = TRUE /\ item' = None /\ Goto(Lane, "idle")
  /\ UNCHANGED <<settings, run, shut, pending, session, sent, reported, stage, late, ran>>

-----------------------------------------------------------------------------
Init ==
  /\ settings \in {[kind |-> k, deny |-> p[1], startup |-> p[2]] : k \in Kinds, p \in Postures}
  /\ run = "idle" /\ shut = "no"
  /\ pending = <<>> /\ sealed = FALSE /\ item = None
  /\ lock = None /\ decision = None
  /\ ended = FALSE /\ closed = FALSE /\ in_flight = 0 /\ failures = 0 /\ input_refusal = FALSE
  /\ sent = <<>> /\ reported = 0
  /\ pc = [t \in Threads |-> "idle"]
  /\ stage = [c \in Calls |-> "pre"]
  /\ late = [c \in Calls |-> FALSE]
  /\ ran = [c \in Calls |-> {}]

\* What a thread does of its own accord, and the end of each wait for the Guardian.
Own(t) ==
  \/ Open(t) \/ Gate(t) \/ Exchange(t)
  \/ \E d \in Hellos : HelloReturns(t, d)
  \/ \E a \in Answers : StartReturns(t, a) \/ Returns(t, a)
Sends == Own(Lane) \/ Take \/ Drain \/ ReadDecision \/ Finish

Next ==
  \/ \E text \in BOOLEAN : RunnerStarts(text) \/ RunnerReturns(text)
  \/ RunnerStops \/ Close
  \/ \E c \in Calls : Begin(c) \/ Own(c)
  \/ Sends

\* The threads run, a request ends at its timeout at the latest, and close() goes on
\* once called; nobody has to start a run, call a tool, stop a run or call close().
Fairness ==
  /\ WF_vars(Sends)
  /\ \A c \in Calls : WF_vars(Own(c))
  /\ WF_vars(shut # "no" /\ Close)

Spec == Init /\ [][Next]_vars /\ Fairness

-----------------------------------------------------------------------------
(* Properties *)

\* Type correctness of the session, its lane and its calls.
NatTypeOK ==
  /\ settings \in Settings
  /\ run \in {"idle", "opened", "started", "running", "returned", "stopped"} /\ shut \in {"no", "refusing", "draining", "done"}
  /\ pending \in Seq(Methods \cup Calls) /\ sealed \in BOOLEAN /\ item \in Methods \cup {None}
  /\ lock \in Threads \cup {None} /\ decision \in Decision \cup {None}
  /\ ended \in BOOLEAN /\ closed \in BOOLEAN /\ in_flight \in Nat /\ failures \in Nat /\ input_refusal \in BOOLEAN
  /\ sent \in Seq(Requests) /\ reported \in Nat
  /\ pc \in [Threads -> {"idle", "wait", "open", "hello", "start", "gate", "exchange", "sent", "unsent", "tool",
                         "done", "drain", "decision", "finish"}]
  /\ stage \in [Calls -> {"pre", "post"}] /\ late \in [Calls -> BOOLEAN]
  /\ ran \in [Calls -> SUBSET {"pre", "post"}]

\* What the Guardian is sent for one session is one session: a hello, then at most one
\* sessionStart, directly after it, and at most one sessionEnd, after which nothing is
\* sent and before which every other exchange has ended, whatever the calls, the lane
\* and close() race on (_open, _exchange and _send_session_end).
SentAsOneSession ==
  /\ \A i \in DOMAIN sent :
       /\ sent[i] = "handshake/hello" <=> i = 1
       /\ sent[i] = "steps/sessionStart" => i = 2
       /\ sent[i] = "steps/sessionEnd" => i = Len(sent) /\ in_flight = 0
  /\ in_flight = Cardinality({t \in Threads : pc[t] \in {"sent", "unsent"} /\ method_of(t) # "steps/sessionEnd"})

\* When the Guardian refused a run's input, no tool of that run runs, even one called
\* at once: the calls wait for the input's answer (_step_of, input_refusal).
RefusedInputHolds ==
  input_refusal => \A c \in Calls : "pre" \notin ran[c]

\* A hook begun after its session ended, or after close(), neither lets its tool run
\* nor releases its output, whatever the postures (_open, _refused).
LateCallsAreRefused ==
  \A c \in Calls : late[c] => stage[c] \notin ran[c]

\* Every hook that began settles, an ended session is finished, and close() returns:
\* the lane, the session's lock and the count in flight hold nobody up for ever.
NatEnds ==
  /\ \A c \in Calls : (pc[c] \notin {"idle", "tool", "done"}) ~> (pc[c] \in {"tool", "done"})
  /\ ended ~> sealed
  /\ (shut = "refusing") ~> (shut = "done")

=============================================================================
