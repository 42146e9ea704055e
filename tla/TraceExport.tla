---------------------------- MODULE TraceExport -----------------------------
(***************************************************************************)
(* The Guardian's trace: a span for each request it takes, opened and ended *)
(* by the request's handler (server.ts, otel-trace-exporter.ts), batched to *)
(* each output on its own, and closed at shutdown (server.ts, main.ts); and *)
(* the audit log of the hosts that asked, converted to the same events      *)
(* (audit-to-otlp.ts).  Two readers' views of one step, its Guardian's and  *)
(* its host's, that must not contradict each other.                         *)
(***************************************************************************)
EXTENDS Naturals, Sequences, SequencesExt, FiniteSets

CONSTANTS Requests,       \* the requests, each with a host of its own
          Genuine,        \* one of them that is a step, and trusted
          Outputs,        \* where spans go: the file, the endpoint
          Signals,        \* SIGINT, SIGTERM
          Timeout,        \* the negotiated timeout, in ticks
          ExportTimeout,  \* EXPORT_TIMEOUT_MS, in ticks
          QueueSize,      \* maxQueueSize of a batch processor
          Scenarios,      \* which requests, outputs and signals a behaviour has
          None

ASSUME TraceAssumption ==
  /\ Genuine \in Requests
  /\ Scenarios \subseteq [requests : SUBSET Requests, outputs : SUBSET Outputs, signals : SUBSET Signals]
  /\ Timeout \in Nat \ {0} /\ ExportTimeout \in Nat /\ QueueSize \in Nat \ {0}
  /\ None \notin Requests \cup {"decision", "error"}

VARIABLES
  kind, pair,    \* what the Guardian makes of a request, and the ids it claims
  host, waited,  \* what became of the request at its host, and how long it has waited
  audit,         \* the entries of the hosts' audit log
  handler, elapsed, \* the request's handler, and the time since its arrival
  response,      \* the answer on its way
  open,          \* openSpans
  stopped,       \* the exporter takes no more spans
  queue,         \* of each output's processor, a batch in flight included
  dead, written, \* of each output
  sig, closing,  \* each signal's close(), and how long it has drained
  shutdown, flushing, \* the shutdown promise, and how long it has been pending
  exited,        \* the process is gone
  ended, dropped \* history: spans in the order they ended, and those a full queue dropped

clients == <<host, waited, audit>>
handlers == <<handler, elapsed, response>>
exporter == <<open, stopped, queue, dead, written, ended, dropped>>
process == <<sig, closing, shutdown, flushing, exited>>
vars == <<kind, pair, clients, handlers, exporter, process>>

Kinds == {"step", "invalid", "fault", "other"}
Failures == {"timeout", "transport", "error_without_decision"}
signalled == {s \in Signals : sig[s] \notin {"none", "absent"}}
Closed == exited \/ signalled # {}

-----------------------------------------------------------------------------
(* Spans (otel-mapping.ts, begin, finish, finishRejected).                  *)

Decided == [event |-> "acs.decision"]
Failure(class) == [event |-> "acs.decision.failure", class |-> class]

RejectionReason == [invalid |-> "envelope_invalid", fault |-> "guardian_fault"]

\* A rejected request keeps its ids under names of their own.
rejectedSpan(r) ==
  [of |-> r, pair |-> None, claimed |-> pair[r],
   events |-> IF RejectionReason[kind[r]] = "guardian_fault" THEN {Failure("guardian_error")} ELSE {}]

stepSpan(r, events) == [of |-> r, pair |-> pair[r], claimed |-> None, events |-> events]

\* A request the Guardian trusted and does not evaluate has no span.
recorded(r) == kind[r] # "other"

\* Mutant: a rejected request's span is named as its step.
finishTrusting(r, answer) ==
  stepSpan(r, CASE answer = "error" -> {Failure("guardian_error")}
                [] answer = "decision" -> {Decided} \cup (IF elapsed[r] > Timeout THEN {Failure("timeout")} ELSE {})
                [] OTHER -> {Failure("other")})

\* How a span ends: answered, or (None) still open when the Guardian shut down.
finish(r, answer) ==
  IF kind[r] \in DOMAIN RejectionReason THEN rejectedSpan(r)
  ELSE stepSpan(r, CASE answer = "error" -> {Failure("guardian_error")}
                     [] answer = "decision" -> {Decided} \cup (IF elapsed[r] > Timeout THEN {Failure("timeout")} ELSE {})
                     [] OTHER -> {Failure("other")})

-----------------------------------------------------------------------------
(* convertAuditLog: one event for each posture entry that has a method.     *)

FAILURE_CLASS_BY_KIND ==
  [timeout |-> "timeout", transport |-> "unreachable", error_without_decision |-> "guardian_error"]

entry(r, k) == [outcome |-> "posture", pair |-> r, kind |-> k, replay |-> FALSE]

convertAuditLog(log) ==
  {[pair |-> e.pair, class |-> FAILURE_CLASS_BY_KIND[e.kind]] : e \in {x \in log : x.outcome = "posture" /\ ~x.replay}}

-----------------------------------------------------------------------------
(* The hosts.  A host's timer goes off on time, and its failures are on its *)
(* audit log; a request may fail to arrive, and a server that stops closes  *)
(* its connections.                                                         *)

hostEnds(r, outcome) ==
  /\ host[r] = "asking" /\ host' = [host EXCEPT ![r] = outcome]
  /\ audit' = IF outcome \in Failures /\ pair[r] = r THEN audit \cup {entry(r, outcome)} ELSE audit
  /\ waited' = [waited EXCEPT ![r] = 0] /\ response' = [response EXCEPT ![r] = None]
  /\ UNCHANGED <<kind, pair, handler, elapsed, exporter, process>>

Send(r) ==
  /\ host[r] = "idle" /\ host' = [host EXCEPT ![r] = "asking"]
  /\ UNCHANGED <<kind, pair, waited, audit, handlers, exporter, process>>

Receive(r) ==
  /\ response[r] # None
  /\ hostEnds(r, IF response[r] = "decision" THEN "honoured" ELSE "error_without_decision")

TimesOut(r) == waited[r] = Timeout /\ hostEnds(r, "timeout")

Unreachable(r) == (handler[r] = "none" \/ Closed) /\ hostEnds(r, "transport")

\* A step the host asks about again is refused as a replay (by a Guardian
\* that keeps replays), under the ids of the first.
ReplayRefused(r) ==
  /\ host[r] = "honoured"
  /\ audit' = audit \cup {[entry(r, "error_without_decision") EXCEPT !.replay = TRUE]}
  /\ UNCHANGED <<kind, pair, host, waited, handlers, exporter, process>>

-----------------------------------------------------------------------------
(* The handlers and the exporter.                                           *)

room(o) == QueueSize - Len(queue[o])

\* Ended spans go to every output's processor; a full queue drops them, and
\* so does an output that failed.
pushed(spans) ==
  /\ ended' = ended \o spans
  /\ queue' = [o \in Outputs |-> IF dead[o] THEN <<>> ELSE queue[o] \o SubSeq(spans, 1, Min({room(o), Len(spans)}))]
  /\ dropped' = [o \in Outputs |-> IF dead[o] THEN {} ELSE dropped[o] \cup {spans[i] : i \in {j \in DOMAIN spans : j > room(o)}}]

\* The request is taken, and its span opened.
Arrive(r) ==
  /\ host[r] = "asking" /\ handler[r] = "none" /\ ~Closed
  /\ handler' = [handler EXCEPT ![r] = "open"]
  /\ open' = IF recorded(r) /\ ~stopped THEN open \cup {r} ELSE open
  /\ UNCHANGED <<kind, pair, clients, elapsed, response, process>>
  /\ UNCHANGED <<stopped, queue, dead, written, ended, dropped>>

answers(r) == IF kind[r] \in {"step", "invalid"} THEN {"decision", "error"} ELSE {"error"}

answered(r, answer) ==
  /\ handler[r] = "open" /\ ~exited /\ handler' = [handler EXCEPT ![r] = "done"]
  /\ elapsed' = [elapsed EXCEPT ![r] = 0]
  /\ response' = IF Closed \/ host[r] # "asking" THEN response ELSE [response EXCEPT ![r] = answer]
  /\ UNCHANGED <<kind, pair, clients, process>>
  /\ UNCHANGED <<stopped, dead, written>>

\* Mutant: the span is looked up by the ids of its request.
AnswerByIds(r) ==
  \E answer \in answers(r) :
    /\ answered(r, answer)
    /\ LET found == {q \in open : pair[q] = pair[r]}
           q == CHOOSE x \in found : TRUE
       IN  IF found # {} /\ ~stopped
           THEN open' = open \ {q} /\ pushed(<<[finish(r, answer) EXCEPT !.of = q, !.pair = pair[q]]>>)
           ELSE UNCHANGED <<open, queue, ended, dropped>>

\* The request is answered and its span ended, by the handle it was opened with.
Answer(r) ==
  \E answer \in answers(r) :
    /\ answered(r, answer)
    /\ open' = open \ {r}
    /\ IF r \in open /\ ~stopped THEN pushed(<<finish(r, answer)>>)
       ELSE UNCHANGED <<queue, ended, dropped>>

-----------------------------------------------------------------------------
(* An output: its batch processor and the exporter it isolates.  A batch is *)
(* on the queue until the exporter is done with it.                         *)

output(o) == ~exited /\ UNCHANGED <<kind, pair, clients, handlers, sig, closing, flushing, exited, open, stopped, ended>>

exports(o) == output(o) /\ queue[o] # <<>>

Write(o) ==
  /\ exports(o) /\ queue' = [queue EXCEPT ![o] = <<>>]
  /\ written' = [written EXCEPT ![o] = @ \o queue[o]]
  /\ UNCHANGED <<dead, dropped, shutdown>>

\* The first failure disables the output, and no other.
Fail(o) ==
  /\ exports(o) /\ queue' = [queue EXCEPT ![o] = <<>>]
  /\ dead' = [dead EXCEPT ![o] = TRUE]
  /\ UNCHANGED <<written, dropped, shutdown>>

\* The SDK gives up on an export that takes too long, and a flush with it.
Abandon(o) ==
  /\ exports(o) /\ queue' = [queue EXCEPT ![o] = <<>>]
  /\ dropped' = [dropped EXCEPT ![o] = @ \cup ToSet(queue[o])]
  /\ shutdown' = IF shutdown = "flushing" THEN "failed" ELSE shutdown
  /\ UNCHANGED <<dead, written>>

-----------------------------------------------------------------------------
(* close() and shutdown().                                                  *)

\* A signal stops the server, which closes every connection.
Signal(s) ==
  /\ sig[s] = "none" /\ ~exited /\ sig' = [sig EXCEPT ![s] = "draining"]
  /\ UNCHANGED <<kind, pair, clients, handlers, exporter, closing, shutdown, flushing, exited>>

\* Mutant: the drain waits for every handler.
drainedWhenAnswered(s) == sig[s] = "draining" /\ ~exited /\ \A r \in Requests : handler[r] # "open"

drained(s) == sig[s] = "draining" /\ ~exited /\ (closing[s] = Timeout \/ \A r \in Requests : handler[r] # "open")

\* Mutant: a second call finds the exporter stopped, and is done.
ShutdownAgain(s) ==
  /\ drained(s) /\ shutdown # "none" /\ sig' = [sig EXCEPT ![s] = "gone"] /\ exited' = TRUE
  /\ UNCHANGED <<kind, pair, clients, handlers, exporter, closing, shutdown, flushing>>

\* A second call waits for the first.
ShutdownJoin(s) ==
  /\ drained(s) /\ shutdown # "none" /\ sig' = [sig EXCEPT ![s] = "flushing"]
  /\ UNCHANGED <<kind, pair, clients, handlers, exporter, closing, shutdown, flushing, exited>>

\* Steps still open are ended as failures, and the outputs flushed.
Shutdown(s) ==
  /\ drained(s) /\ shutdown = "none" /\ sig' = [sig EXCEPT ![s] = "flushing"]
  /\ shutdown' = "flushing" /\ stopped' = TRUE /\ open' = {}
  /\ LET rest == SetToSeq(open) IN pushed([i \in DOMAIN rest |-> finish(rest[i], None)])
  /\ UNCHANGED <<kind, pair, clients, handlers, dead, written, closing, flushing, exited>>

\* Every output is flushed, or their time is up.
Flushed ==
  /\ shutdown = "flushing" /\ ~exited
  /\ \/ (\A o \in Outputs : queue[o] = <<>>) /\ shutdown' = "done"
     \/ flushing = ExportTimeout /\ shutdown' = "timeout"
  /\ UNCHANGED <<kind, pair, clients, handlers, exporter, sig, closing, flushing, exited>>

Exit(s) ==
  /\ sig[s] = "flushing" /\ shutdown \in {"done", "timeout", "failed"} /\ ~exited
  /\ sig' = [sig EXCEPT ![s] = "gone"] /\ exited' = TRUE
  /\ UNCHANGED <<kind, pair, clients, handlers, exporter, closing, shutdown, flushing>>

-----------------------------------------------------------------------------
\* A tick passes for every timer, once none is due.
Tick ==
  LET older(age, running, limit) == [i \in DOMAIN age |-> IF running[i] /\ age[i] < limit THEN age[i] + 1 ELSE age[i]]
      asking == [r \in Requests |-> host[r] = "asking"]
      draining == [s \in Signals |-> sig[s] = "draining" /\ ~exited]
  IN  /\ \A r \in Requests : asking[r] => waited[r] < Timeout
      /\ \A s \in Signals : draining[s] => closing[s] < Timeout
      /\ shutdown = "flushing" /\ ~exited => flushing < ExportTimeout
      /\ waited' = older(waited, asking, Timeout)
      /\ elapsed' = older(elapsed, [r \in Requests |-> handler[r] = "open"], Timeout + 1)
      /\ closing' = older(closing, draining, Timeout)
      /\ flushing' = IF shutdown = "flushing" /\ ~exited THEN flushing + 1 ELSE flushing
      /\ <<waited, elapsed, closing, flushing>>' # <<waited, elapsed, closing, flushing>>
      /\ UNCHANGED <<kind, pair, host, audit, handler, response, exporter, sig, shutdown, exited>>

\* A step has ids of its own; a request that was not trusted claims another's.
\* An output that could not be constructed is one that has failed.
Init == \E scenario \in Scenarios :
  /\ kind \in [Requests -> Kinds] /\ pair \in [Requests -> Requests]
  /\ kind[Genuine] = "step"
  /\ \A r \in Requests : pair[r] = IF kind[r] \in {"step", "other"} THEN r ELSE Genuine
  /\ host = [r \in Requests |-> IF r \in scenario.requests THEN "idle" ELSE "absent"]
  /\ waited = [r \in Requests |-> 0]
  /\ audit = {[outcome |-> "ungoverned", pair |-> None, kind |-> None, replay |-> FALSE]}
  /\ handler = [r \in Requests |-> "none"] /\ elapsed = [r \in Requests |-> 0]
  /\ response = [r \in Requests |-> None]
  /\ open = {} /\ stopped = FALSE
  /\ queue = [o \in Outputs |-> <<>>] /\ written = queue
  /\ dead = [o \in Outputs |-> o \notin scenario.outputs]
  /\ sig = [s \in Signals |-> IF s \in scenario.signals THEN "none" ELSE "absent"] /\ closing = [s \in Signals |-> 0]
  /\ shutdown = "none" /\ flushing = 0 /\ exited = FALSE
  /\ ended = <<>> /\ dropped = [o \in Outputs |-> {}]

Client(r) == Send(r) \/ Receive(r) \/ TimesOut(r) \/ Unreachable(r) \/ ReplayRefused(r)
Output(o) == Write(o) \/ Fail(o) \/ Abandon(o)
Close(s) == Shutdown(s) \/ ShutdownJoin(s) \/ Exit(s)

Next ==
  \/ \E r \in Requests : Client(r) \/ Arrive(r) \/ Answer(r)
  \/ \E o \in Outputs : Output(o)
  \/ \E s \in Signals : Signal(s) \/ Close(s)
  \/ Flushed \/ Tick

\* Timers go off and the event loop turns; nothing is assumed of the policy
\* engine, the network or the outputs.
Fairness ==
  /\ WF_vars(Tick) /\ WF_vars(Flushed)
  /\ \A r \in Requests : WF_vars(TimesOut(r))
  /\ \A s \in Signals : WF_vars(Close(s))

Spec == Init /\ [][Next]_vars /\ Fairness

-----------------------------------------------------------------------------
(* Properties. *)

spansOf(r) == {i \in DOMAIN ended : ended[i].of = r}

(* Type invariant: a span is open exactly while its handler is and the      *)
(* exporter runs, and each timer stays within its limit (openSpans, start,  *)
(* end, shutdown).                                                          *)
TraceTypeOK ==
  /\ host \in [Requests -> {"absent", "idle", "asking", "honoured"} \cup Failures]
  /\ open = IF stopped THEN {} ELSE {r \in Requests : handler[r] = "open" /\ recorded(r)}
  /\ \A r \in Requests : waited[r] \in 0..Timeout /\ elapsed[r] \in 0..(Timeout + 1)
  /\ \A s \in Signals : closing[s] \in 0..Timeout
  /\ \A o \in Outputs : Len(queue[o]) <= QueueSize
  /\ \A r \in Requests : Cardinality(spansOf(r)) <= 1

failedPairs == {ended[i].pair : i \in {j \in DOMAIN ended : \E e \in ended[j].events : e.event = "acs.decision.failure"}}
               \cup {e.pair : e \in convertAuditLog(audit)}

(* The two files never contradict what the host did.  The ACS ids of a step *)
(* are on that step's own span only, whatever another request claims; a     *)
(* failure is recorded under them, by either writer, only if the host did   *)
(* not act on the decision; and if it did, no other decision is (begin,     *)
(* finish, shutdown, convertAuditLog).                                      *)
TraceAgreesWithTheHost ==
  /\ \A i \in DOMAIN ended : ended[i].pair # None => kind[ended[i].pair] = "step" /\ ended[i].of = ended[i].pair
  /\ \A r \in Requests : kind[r] = "step" /\ host[r] = "honoured" =>
       /\ r \notin failedPairs
       /\ \E i \in spansOf(r) : ended[i].events = {Decided}

\* An output holds spans but the lost ones, once each and in their order.
carries(log, spans, lost) ==
  /\ \A k \in DOMAIN log : \E i \in DOMAIN spans : spans[i] \notin lost /\ log[k] = spans[i]
  /\ \A i \in DOMAIN spans : spans[i] \notin lost => \E k \in DOMAIN log : log[k] = spans[i]
  /\ \A k, l \in DOMAIN log, i, j \in DOMAIN spans :
       k < l /\ log[k] = spans[i] /\ log[l] = spans[j] => i < j

(* Once the process has exited, unless its flush failed or took too long,   *)
(* every step it took is in every output that had not failed, once and in   *)
(* the order of their ends, as decided or as failed, but for what a full    *)
(* queue or a stalled export dropped; and no step that its host took        *)
(* undecided looks decided to the reader of both files (shutdown, isolated, *)
(* createFileSpanExporter).                                                 *)
NothingIsLostAtExit ==
  exited /\ shutdown \notin {"timeout", "failed"} =>
    /\ \A o \in Outputs : ~dead[o] => carries(written[o], ended, dropped[o])
    /\ \A r \in Requests : kind[r] = "step" /\ handler[r] # "none" =>
         /\ \E i \in spansOf(r) : ended[i].events # {}
         /\ host[r] \in Failures => r \in failedPairs

(* A signal ends the process, whether or not the policy engine ever answers *)
(* and whatever the outputs do (close, shutdown).                           *)
CloseEnds == signalled # {} ~> exited
=============================================================================
