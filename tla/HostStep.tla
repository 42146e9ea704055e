------------------------------ MODULE HostStep -------------------------------
(***************************************************************************)
(* Governing one step on a host (host-adapter: govern-step.ts,              *)
(* handshake.ts, session-config.ts, guardian-client.ts, validate-decision.ts, *)
(* failure-posture.ts, audit-sink.ts) under its two shims: each Claude Code  *)
(* hook is a process of its own, and the OpenCode plugin is one process that *)
(* runs every step.  The steps share the stored session config and the audit *)
(* log.  One action is what a process does between two awaits, except that   *)
(* the read and the append of an audit entry are two, since other processes  *)
(* may append in between.  The Guardian is external.                         *)
(***************************************************************************)
EXTENDS Integers, Sequences, FiniteSets

CONSTANTS
  Steps,       \* the hook events
  Events,      \* what each may be: see Event
  Deployments, \* what they may run under: see Deployment
  Configs,     \* the usable session configs a ServerHello may carry: see Config
  Decisions,   \* the decisions a Guardian may answer: see Decision
  DEFAULT_TIMEOUT_MS,
  OldLog,      \* the audit log before these steps: entries of an earlier process
  None

\* gate: what the hookmap entry declares; mapped: there is one; scope: whether the
\* tool is one the entry governs; builds: buildEnvelope succeeds; replaceable:
\* assertOutputIsReplaceable succeeds; call: the host's id for the tool call;
\* renders, answers: the decisions the entry renders without throwing, for what the
\* Guardian sends this step and for what its posture answers instead.  loadHookmap
\* requires an allow and a deny and looks at the shape of their fields: whether
\* place can write those fields depends on their paths, and on what the decision
\* carries.
Event == [gate : {"request", "result"}, mapped : BOOLEAN, scope : {"governed", "declined", "untold"},
          builds : BOOLEAN, replaceable : BOOLEAN, call : Nat,
          renders : SUBSET {"allow", "deny", "modify", "ask", "defer"}, answers : SUBSET {"allow", "deny"}]
\* plugin: the OpenCode plugin, one process, rather than Claude Code's hooks, a
\* process each; tears: a failed append may leave part of its line in the log.
Deployment == [plugin : BOOLEAN, tears : BOOLEAN]
Config == [on_decision_failure : {"proceed", "deny"}, default_ms : Nat]

\* A decision the Guardian sends: applies: its modifications can be applied;
\* window: its ask or defer timeout in ms, None when it states none;
\* expired: the decision it names for the time after.
Decision == [decision : {"allow", "deny", "modify", "ask", "defer", "other"}, applies : BOOLEAN,
             window : Nat \cup {None}, expired : {"allow", "deny", "ask"}]

\* What else may come back: REPLAY_DETECTED, a refusal code, another error, or
\* nothing, a lost connection or the timeout; and why a step was not asked about.
failed(why) == [failure |-> why]
Failures == {failed(why) : why \in {"replay", "refused", "error", "transport"}}
Answer == Decision \cup Failures \cup {failed("timeout"), failed("unbuilt"), failed("declined")}

ASSUME EventsAssumption == Events \subseteq Event
ASSUME ConfigsAssumption == Configs \subseteq Config
ASSUME DecisionsAssumption == Decisions \subseteq Decision
ASSUME TimeoutAssumption == DEFAULT_TIMEOUT_MS \in Nat
ASSUME DeploymentsAssumption == Deployments \subseteq Deployment
\* What the host is told.
Result == {"proceed", "block", "ask", "ungoverned", "stopped"}

ASSUME NoneAssumption ==
  None \notin Result \cup Nat \cup Steps \cup Config \cup Answer \cup Event

Outcome == {"proceeded", "blocked", "ungoverned"}
\* A line of the log: an entry, or bytes that are not one.
Garbage == [seq |-> 0, outcome |-> "none", step |-> None]
Line == [seq : Nat, outcome : Outcome, step : Steps \cup {None}] \cup {Garbage}
\* What earlier processes wrote: no number is ahead of its line.
ASSUME OldLogAssumption ==
  OldLog \in Seq(Line) /\ \A i \in 1..Len(OldLog) : OldLog[i].seq <= i /\ OldLog[i].step = None
ASSUME StepsAssumption == Steps \cap {"request", "result"} = {}

VARIABLES
  deployment, \* the one these steps run under
  stored,   \* the session config store
  log,      \* the audit log, and whether its last line is unfinished
  torn,
  sinks,    \* each process's sink: its seq, undefined (None) until it reads the log, or disabled
  seen,     \* the request ids the Guardian has seen
  pc, event, config, \* each step: its control point, its event, its ResolvedSessionConfig
  offers,   \* the usable config that answered its own handshake
  asked, repeat,     \* how often it asked, and whether the Guardian had seen that id
  elapsed, limit,    \* the time since it started, and when its request is aborted
  answer,   \* what came back last
  result    \* what the host was told

wire == <<seen, asked, repeat, elapsed, limit, answer>>
vars == <<deployment, stored, log, torn, sinks, pc, event, config, offers, result, wire>>

\* None is the plugin's.
Processes == Steps \cup {None}
process(h) == IF deployment.plugin THEN None ELSE h

Goto(h, label) == pc' = [pc EXCEPT ![h] = label]

\* One thread per process: no step runs inside another one's audit write.
Running(h) == \A q \in Steps \ {h} : process(q) = process(h) => pc[q] # "append"

Return(h, r) == Goto(h, "done") /\ result' = [result EXCEPT ![h] = r]

-----------------------------------------------------------------------------
(* The shim, and resolveSessionConfig. *)

\* runExchange, main: a tool the gate does not govern is recorded and left
\* alone; for the others the session's config is read.
Begin(h, e) ==
  /\ pc[h] = "idle" /\ Running(h)
  /\ event' = [event EXCEPT ![h] = e]
  /\ IF e.mapped /\ e.scope = "declined"
     THEN /\ Goto(h, "audit")
          /\ answer' = [answer EXCEPT ![h] = failed("declined")]
          /\ UNCHANGED config
     ELSE /\ Goto(h, IF stored = None THEN "hello" ELSE "build")
          /\ config' = [config EXCEPT ![h] = stored]
          /\ UNCHANGED answer
  /\ UNCHANGED <<stored, log, torn, sinks, offers, seen, asked, repeat, elapsed, limit, result>>

\* Mutant: a config that could not be stored is not applied.
negotiateSessionConfigStored(h, hello) ==
  /\ pc[h] = "hello" /\ Running(h)
  /\ IF hello \in Configs
     THEN /\ stored' = hello \/ (~deployment.plugin /\ UNCHANGED stored)
          /\ offers' = [offers EXCEPT ![h] = hello]
     ELSE UNCHANGED <<stored, offers>>
  /\ config' = [config EXCEPT ![h] = stored']
  /\ Goto(h, "build")
  /\ UNCHANGED <<log, torn, sinks, event, result, wire>>

\* The Guardian answers, None being an unusable config: a usable one is applied, whether or not the file
\* store takes it, and an unusable one leaves what another step has stored.
negotiateSessionConfig(h, hello) ==
  /\ pc[h] = "hello" /\ Running(h)
  /\ IF hello \in Configs
     THEN /\ stored' = hello \/ (~deployment.plugin /\ UNCHANGED stored)
          /\ config' = [config EXCEPT ![h] = hello]
          /\ offers' = [offers EXCEPT ![h] = hello]
     ELSE config' = [config EXCEPT ![h] = stored] /\ UNCHANGED <<stored, offers>>
  /\ Goto(h, "build")
  /\ UNCHANGED <<log, torn, sinks, event, result, wire>>

\* No ServerHello within the default timeout, or an error.
HelloFails(h) ==
  /\ pc[h] = "hello" /\ Running(h)
  /\ config' = [config EXCEPT ![h] = stored]
  /\ Goto(h, "build")
  /\ UNCHANGED <<stored, log, torn, sinks, offers, event, result, wire>>

posture(h) == IF config[h] = None THEN "proceed" ELSE config[h].on_decision_failure
timeoutMs(h) == IF config[h] = None THEN DEFAULT_TIMEOUT_MS ELSE config[h].default_ms

-----------------------------------------------------------------------------
(* governStep up to the request. *)

\* Mutant: a hook the hookmap lacks is answered by the posture.
BuildUnmapped(h) ==
  LET e == event[h]
  IN /\ pc[h] = "build" /\ Running(h)
     /\ IF e.mapped /\ e.builds /\ (e.gate = "result" => e.replaceable)
        THEN /\ Goto(h, "ask")
             /\ limit' = [limit EXCEPT ![h] = timeoutMs(h)]
             /\ UNCHANGED <<answer, result>>
        ELSE /\ Goto(h, "audit")
             /\ answer' = [answer EXCEPT ![h] = failed("unbuilt")]
             /\ UNCHANGED <<limit, result>>
     /\ UNCHANGED <<stored, log, torn, sinks, event, config, offers, seen, asked, repeat, elapsed>>

\* A hook with no entry, a scoped gate whose caller names no tool, and an output
\* no decision could replace stop the step; an envelope that cannot be built is
\* answered by the posture.
Build(h) ==
  LET e == event[h]
      usable == e.mapped /\ e.scope = "governed"
  IN /\ pc[h] = "build" /\ Running(h)
     /\ \/ /\ ~usable \/ (e.builds /\ e.gate = "result" /\ ~e.replaceable)
           /\ Return(h, "stopped")
           /\ UNCHANGED <<answer, limit>>
        \/ /\ usable /\ ~e.builds
           /\ Goto(h, "audit")
           /\ answer' = [answer EXCEPT ![h] = failed("unbuilt")]
           /\ UNCHANGED <<limit, result>>
        \/ /\ usable /\ e.builds /\ (e.gate = "result" => e.replaceable)
           /\ Goto(h, "ask")
           /\ limit' = [limit EXCEPT ![h] = timeoutMs(h)]
           /\ UNCHANGED <<answer, result>>
     /\ UNCHANGED <<stored, log, torn, sinks, event, config, offers, seen, asked, repeat, elapsed>>

\* Mutant: the second request has the first one's id.
requestIdDerived(h) == <<event[h].gate, event[h].call>>

\* The first request of a step takes its id from the host's call; the second a random one.
requestId(h) == IF asked[h] = 0 THEN <<event[h].gate, event[h].call>> ELSE <<h, asked[h]>>

\* The request goes out, and may be lost.
Ask(h) ==
  /\ pc[h] = "ask" /\ Running(h)
  /\ asked' = [asked EXCEPT ![h] = @ + 1]
  /\ \/ /\ seen' = seen \cup {requestId(h)}
        /\ repeat' = [repeat EXCEPT ![h] = requestId(h) \in seen]
     \/ UNCHANGED seen /\ repeat' = [repeat EXCEPT ![h] = FALSE]
  /\ Goto(h, "await")
  /\ UNCHANGED <<stored, log, torn, sinks, event, config, offers, result, elapsed, limit, answer>>

-----------------------------------------------------------------------------
(* What the host makes of the answer. *)

Deny == "deny"

\* resolveAsk, resolveDefer: a window that is not stated, or that has closed.
resolveAsk(d, t) ==
  IF d.window = None THEN Deny
  ELSE IF t > d.window THEN (IF d.expired = "allow" THEN "allow" ELSE Deny) ELSE "ask"

resolveDefer(d, t) == IF d.window = None \/ t > d.window THEN Deny ELSE "defer"

\* Mutant: a modify whose rewrite fails is passed through.
validateDecisionPassing(d, t) ==
  CASE d.decision = "ask" -> resolveAsk(d, t)
    [] d.decision = "defer" -> resolveDefer(d, t)
    [] OTHER -> d.decision

\* validateDecision: the decision the host carries out at time t.
validateDecision(d, t) ==
  CASE d.decision = "modify" -> IF d.applies THEN "modify" ELSE Deny
    [] d.decision = "ask" -> resolveAsk(d, t)
    [] d.decision = "defer" -> resolveDefer(d, t)
    [] OTHER -> d.decision

\* render with withResultOutput: a gate that sees a result has nothing to ask, and
\* withholds instead; None when the hookmap's entry cannot express the decision.
render(e, sayable, decision) ==
  IF ~e.mapped \/ decision \notin sayable THEN None
  ELSE IF decision \in {"deny", "ask", "defer"} /\ e.gate = "result"
       THEN (IF e.replaceable THEN "block" ELSE None)
  ELSE CASE decision \in {"allow", "modify"} -> "proceed"
         [] decision = "deny" -> "block"
         [] OTHER -> "ask"

\* requestDecision answers at time t: a decision is carried out, or answered by
\* the posture when it cannot be rendered; a replay is asked again, once, within
\* the same timeout; and anything else is a failure to deliver.
Answered(h, a, t) ==
  /\ pc[h] = "await" /\ Running(h) /\ t \in elapsed[h]..limit[h]
  /\ (a = failed("replay")) => repeat[h]
  /\ elapsed' = [elapsed EXCEPT ![h] = t]
  /\ answer' = [answer EXCEPT ![h] = a]
  /\ IF a \in Decisions
     THEN LET r == render(event[h], event[h].renders, validateDecision(a, t))
          IN IF r = None THEN Goto(h, "audit") /\ UNCHANGED result ELSE Return(h, r)
     ELSE /\ Goto(h, IF a = failed("replay") /\ asked[h] = 1 /\ event[h].gate = "request" /\ timeoutMs(h) - t > 0
                     THEN "ask" ELSE "audit")
          /\ UNCHANGED result
  /\ UNCHANGED <<stored, log, torn, sinks, event, config, offers, seen, asked, repeat, limit>>

\* Mutant: the second request has no timeout.
TimesOutOnce(h) ==
  /\ pc[h] = "await" /\ Running(h) /\ asked[h] = 1
  /\ elapsed' = [elapsed EXCEPT ![h] = limit[h]]
  /\ answer' = [answer EXCEPT ![h] = failed("timeout")]
  /\ Goto(h, "audit")
  /\ UNCHANGED <<stored, log, torn, sinks, event, config, offers, result, seen, asked, repeat, limit>>

\* The abort signal.
TimesOut(h) ==
  /\ pc[h] = "await" /\ Running(h)
  /\ elapsed' = [elapsed EXCEPT ![h] = limit[h]]
  /\ answer' = [answer EXCEPT ![h] = failed("timeout")]
  /\ Goto(h, "audit")
  /\ UNCHANGED <<stored, log, torn, sinks, event, config, offers, result, seen, asked, repeat, limit>>

-----------------------------------------------------------------------------
(* applyFailurePosture and the audit sink. *)

\* REFUSAL_RESOLUTION, RESOLUTION_BY_POSTURE: what the entry says became of the step.
resolution(h) ==
  IF answer[h] = failed("declined") THEN "ungoverned"
  ELSE IF answer[h] = failed("refused") \/ posture(h) = "deny" THEN "blocked" ELSE "proceeded"

\* Mutant: a step proceeds whether or not it was recorded.
ResolveUnaudited(h, audited) ==
  LET r == render(event[h], event[h].answers, IF resolution(h) = "proceeded" THEN "allow" ELSE "deny")
  IN Return(h, IF resolution(h) = "ungoverned" THEN "ungoverned"
               ELSE IF r = None THEN "stopped" ELSE r)

\* A proceed that is not on record is blocked; an answer that cannot be rendered
\* is thrown out of governStep, and the shim stops the step.
Resolve(h, audited) ==
  LET answers == event[h].answers
      r == render(event[h], answers, IF resolution(h) = "proceeded" /\ audited THEN "allow" ELSE "deny")
  IN Return(h, IF resolution(h) = "ungoverned" THEN "ungoverned"
               ELSE IF r = None THEN "stopped" ELSE r)

\* highestSeqIn: a line that is no entry counts too.
highestSeqIn ==
  LET seqs == {log[i].seq : i \in 1..Len(log)} \cup {Len(log)}
  IN CHOOSE n \in seqs : \A m \in seqs : m <= n

\* write: a disabled sink records nothing; the first write of a sink reads the log.
ReadLog(h) ==
  LET p == process(h)
  IN /\ pc[h] = "audit" /\ Running(h)
     /\ IF sinks[p].disabled
        THEN Resolve(h, FALSE) /\ UNCHANGED sinks
        ELSE /\ sinks' = [sinks EXCEPT ![p].seq = IF @ = None THEN highestSeqIn ELSE @]
             /\ Goto(h, "append")
             /\ UNCHANGED result
     /\ UNCHANGED <<stored, log, torn, event, config, offers, wire>>

entry(h) == [seq |-> sinks[process(h)].seq + 1, outcome |-> resolution(h), step |-> h]

\* appendFileSync: after an unfinished line, the entry becomes part of it.
AppendEntry(h) ==
  /\ pc[h] = "append"
  /\ log' = IF torn THEN log ELSE Append(log, entry(h))
  /\ torn' = FALSE
  /\ sinks' = [sinks EXCEPT ![process(h)].seq = @ + 1]
  /\ Resolve(h, TRUE)
  /\ UNCHANGED <<stored, event, config, offers, wire>>

\* It fails: the sink is disabled, and part of the line may be in the log.
AppendFails(h) ==
  /\ pc[h] = "append"
  /\ sinks' = [sinks EXCEPT ![process(h)].disabled = TRUE]
  /\ \/ UNCHANGED <<log, torn>>
     \/ deployment.tears /\ torn' = TRUE /\ log' = IF torn THEN log ELSE Append(log, Garbage)
  /\ Resolve(h, FALSE)
  /\ UNCHANGED <<stored, event, config, offers, wire>>

\* The host gives up on a hook process.
Killed(h) ==
  /\ ~deployment.plugin /\ pc[h] \notin {"idle", "done", "dead"}
  /\ Goto(h, "dead")
  /\ UNCHANGED <<stored, log, torn, sinks, event, config, offers, result, wire>>

-----------------------------------------------------------------------------
Init ==
  /\ deployment \in Deployments
  /\ stored = None /\ log = OldLog /\ torn = FALSE
  /\ sinks = [p \in Processes |-> [seq |-> None, disabled |-> FALSE]]
  /\ seen = {}
  /\ pc = [h \in Steps |-> "idle"] /\ event = [h \in Steps |-> None]
  /\ config = [h \in Steps |-> None] /\ offers = [h \in Steps |-> None] /\ result = [h \in Steps |-> None]
  /\ asked = [h \in Steps |-> 0] /\ repeat = [h \in Steps |-> FALSE]
  /\ elapsed = [h \in Steps |-> 0] /\ limit = [h \in Steps |-> 0]
  /\ answer = [h \in Steps |-> None]

\* What a step does by itself, or by a timer of its own.
Own(h) ==
  /\ UNCHANGED deployment
  /\ \/ HelloFails(h) \/ Build(h) \/ Ask(h) \/ TimesOut(h)
     \/ ReadLog(h) \/ AppendEntry(h) \/ AppendFails(h)

\* What the host and the Guardian do.
Given(h) ==
  /\ UNCHANGED deployment
  /\ \/ \E e \in Events : Begin(h, e)
     \/ \E hello \in Configs \cup {None} : negotiateSessionConfig(h, hello)
     \/ \E a \in Decisions \cup Failures, t \in elapsed[h]..limit[h] : Answered(h, a, t)
     \/ Killed(h)

Next == \E h \in Steps : Own(h) \/ Given(h)

\* A process runs, and its timers fire; the Guardian need never answer.
Spec == Init /\ [][Next]_vars /\ \A h \in Steps : WF_vars(Own(h))

-----------------------------------------------------------------------------
(* Properties. *)

HostTypeOK ==
  /\ deployment \in Deployment
  /\ stored \in Config \cup {None}
  /\ log \in Seq(Line) /\ torn \in BOOLEAN
  /\ sinks \in [Processes -> [seq : Nat \cup {None}, disabled : BOOLEAN]]
  /\ pc \in [Steps -> {"idle", "hello", "build", "ask", "await", "audit", "append", "done", "dead"}]
  /\ event \in [Steps -> Event \cup {None}]
  /\ config \in [Steps -> Config \cup {None}] /\ offers \in [Steps -> Config \cup {None}]
  /\ result \in [Steps -> Result \cup {None}]
  /\ seen \subseteq ({"request", "result"} \X Nat) \cup (Steps \X Nat)
  /\ asked \in [Steps -> 0..2] /\ repeat \in [Steps -> BOOLEAN]
  /\ elapsed \in [Steps -> Nat] /\ limit \in [Steps -> Nat]
  /\ answer \in [Steps -> Answer \cup {None}]

Recorded(h, outcome) == \E i \in 1..Len(log) : log[i].step = h /\ log[i].outcome = outcome

\* A decision that lets the step run at time t, and one that amounts to a deny: a
\* deny, a rewrite that fails, and a window that has closed or is unknown.
Allows(d, t) ==
  \/ d.decision = "allow" \/ (d.decision = "modify" /\ d.applies)
  \/ d.decision = "ask" /\ d.window # None /\ t > d.window /\ d.expired = "allow"
Denies(d, t) ==
  \/ d.decision = "deny" \/ (d.decision = "modify" /\ ~d.applies)
  \/ d.decision \in {"ask", "defer"} /\ d.window = None
  \/ d.decision = "ask" /\ t > d.window /\ d.expired # "allow"
  \/ d.decision = "defer" /\ t > d.window

Permitted(h) == answer[h] \in Decisions /\ Allows(answer[h], elapsed[h])
Denied(h) == answer[h] \in Decisions /\ Denies(answer[h], elapsed[h])

\* A step proceeds because the decision that arrived says so, at the time it
\* arrives, or because the posture does and the log has an entry that says so;
\* never on a refusal (govern-step.ts header, failure-posture.ts).
ProceedIsJustified ==
  \A h \in Steps : result[h] = "proceed" =>
    \/ Permitted(h)
    \/ posture(h) = "proceed" /\ answer[h] # failed("refused") /\ Recorded(h, "proceeded")

\* A decision that amounts to a deny is set aside only at a hook that cannot
\* render its deny, and only by a posture that lets the step proceed: no late,
\* expired, rewritten or withheld form of it lets the step run otherwise.
DenyStands ==
  \A h \in Steps : (Denied(h) /\ result[h] = "proceed")
                   => "deny" \notin event[h].renders /\ posture(h) = "proceed"

\* A deny that arrives is honoured regardless of what follows (acs-hook.ts), and no
\* posture may touch the outcome of a step whose decision arrived (govern-step.ts).
ArrivingDenyIsHonoured == \A h \in Steps : Denied(h) => result[h] # "proceed"

\* The log does not record what did not happen.  Unless its process was killed in
\* between, a step the log says proceeded did, or was stopped because its hook
\* cannot render an allow; one it says was blocked did not run; and a step is
\* recorded as ungoverned exactly when it was left alone.
AuditTellsTheTruth ==
  \A i \in 1..Len(log), h \in Steps : (log[i].step = h /\ pc[h] = "done") =>
    /\ log[i].outcome = "proceeded" => \/ result[h] = "proceed"
                                       \/ result[h] = "stopped" /\ "allow" \notin event[h].answers
    /\ log[i].outcome = "blocked" => result[h] \in {"block", "stopped"}
    /\ log[i].outcome = "ungoverned" <=> result[h] = "ungoverned"

\* The posture a Guardian answered a step's handshake with governs that step even
\* when it could not be stored, and whatever another step stored meanwhile: a step
\* told to deny does not proceed without a decision (handshake.ts, resolveSessionConfig).
OfferedDenyHolds ==
  \A h \in Steps : (offers[h] # None /\ result[h] = "proceed" /\ ~Permitted(h))
                   => offers[h].on_decision_failure = "proceed"

\* Asking again keeps to the step's one timeout.
StepKeepsItsTimeout == \A h \in Steps : elapsed[h] <= timeoutMs(h) \/ pc[h] \in {"idle", "hello", "build"}

\* A call the host asks about twice is not let through by the Guardian's refusal
\* to decide it twice: at the request gate a replay is the last word only when
\* the time is up.
ReplayIsNoBypass ==
  \A h \in Steps : (answer[h] = failed("replay") /\ pc[h] \in {"audit", "append", "done"} /\ event[h].gate = "request")
                   => elapsed[h] >= timeoutMs(h)

\* Asking twice neither outlives the step's timeout nor ends it early on a replay.
RepeatKeepsToTheTimeout == StepKeepsItsTimeout /\ ReplayIsNoBypass

\* A number in the log is never ahead of the number of lines.
SeqWithinLog == \A i \in 1..Len(log) : log[i].seq <= i

\* Every step ends, whatever the Guardian does.
StepsEnd == \A h \in Steps : pc[h] # "idle" ~> pc[h] \in {"done", "dead"}

=============================================================================
