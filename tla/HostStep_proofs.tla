--------------------------- MODULE HostStep_proofs ----------------------------
(* What holds of every step a host governs, for any steps, events, Guardian   *)
(* and posture: the decision stands, the posture answers only what it may,    *)
(* and a step that proceeds undecided is on record.                           *)
EXTENDS HostStep, TLAPS

Before == {"idle", "hello", "build"}
Asking == {"ask", "await"}
Recording == {"audit", "append"}

\* The event of a step that is asked about can be expressed to its host.
Expressible(e) == e.mapped /\ (e.gate = "result" => e.replaceable)

\* Up to its answer a step has no result, and it keeps its timeout.
ProgressInv(h) ==
  /\ pc[h] \in Before \cup Asking => answer[h] \notin Decisions
  /\ pc[h] # "done" => result[h] = None
  /\ pc[h] # "idle" => event[h] \in Events
  /\ pc[h] \in Asking => Expressible(event[h]) /\ limit[h] = timeoutMs(h)
  /\ pc[h] \in Recording => event[h].mapped /\ answer[h] \in Answer
  /\ pc[h] \in Before => elapsed[h] = 0
  /\ pc[h] \notin Before => elapsed[h] <= timeoutMs(h)

\* An entry that was appended can be read: a failed append leaves nothing in the
\* log, or no other process writes to it.
Readable == deployment.tears => deployment.plugin

\* What an answer that was not asked about again amounts to.
AnswerInv(h) ==
  /\ Denied(h) /\ (pc[h] \in Recording \/ result[h] = "proceed")
       => "deny" \notin event[h].renders /\ (result[h] = "proceed" => posture(h) = "proceed")
  /\ result[h] = "proceed" =>
       \/ Permitted(h)
       \/ /\ posture(h) = "proceed" /\ answer[h] # failed("refused")
          /\ Readable => Recorded(h, "proceeded")

\* Only the first request of a step can repeat an id.
RepeatInv(h) ==
  /\ pc[h] \in Before => asked[h] = 0 /\ answer[h] = None
  /\ pc[h] = "ask" => asked[h] \in {0, 1}
  /\ pc[h] = "await" => asked[h] \in {1, 2}
  /\ asked[h] < 2 => <<h, 1>> \notin seen
  /\ asked[h] = 2 => ~repeat[h]
  /\ (answer[h] = failed("replay") /\ pc[h] \in Recording \cup {"done"} /\ event[h].gate = "request")
       => elapsed[h] >= timeoutMs(h)

\* A step governs itself by what its own handshake was answered.
OfferInv(h) ==
  /\ pc[h] \in {"idle", "hello"} => offers[h] = None
  /\ offers[h] # None => config[h] = offers[h]

\* A step is in the log only once it has ended, with the outcome it had.
LogInv(h) ==
  \A i \in 1..Len(log) : log[i].step = h =>
    /\ pc[h] \in {"done", "dead"}
    /\ pc[h] = "done" =>
         /\ log[i].outcome = "proceeded" => \/ result[h] = "proceed"
                                            \/ result[h] = "stopped" /\ "allow" \notin event[h].answers
         /\ log[i].outcome = "blocked" => result[h] \in {"block", "stopped"}
         /\ log[i].outcome = "ungoverned" <=> result[h] = "ungoverned"

StepInv(h) == ProgressInv(h) /\ AnswerInv(h) /\ RepeatInv(h) /\ OfferInv(h) /\ LogInv(h)

\* While a process writes an entry its sink is up, and nothing else of it runs; an
\* unfinished line is the last one a single process leaves; and only the number of
\* an entry that nobody can read, its process's last, may be ahead of its line.
SinkInv ==
  /\ \A i \in 1..Len(log) : log[i].seq <= i
  /\ \A p \in Processes : \/ sinks[p].seq = None \/ sinks[p].seq <= Len(log)
                          \/ ~deployment.plugin /\ p \in Steps /\ pc[p] = "done"
  /\ torn /\ deployment.plugin => sinks[None].disabled
  /\ torn => deployment.tears
  /\ \A h \in Steps : pc[h] = "append" =>
       /\ ~sinks[process(h)].disabled /\ sinks[process(h)].seq # None
       /\ \A q \in Steps \ {h} : process(q) = process(h) => pc[q] # "append"

IInv == HostTypeOK /\ deployment \in Deployments /\ SinkInv /\ \A h \in Steps : StepInv(h)

-----------------------------------------------------------------------------
(* Facts about the data. *)

\* A failure is no decision, and neither is the absence of an answer.
LEMMA FailureIsNoDecision == \A x : failed(x) \notin Decisions
<1> SUFFICES ASSUME NEW x, failed(x) \in Decision PROVE FALSE
  BY DecisionsAssumption
<1>1. DOMAIN failed(x) = {"failure"}
  BY DEF failed
<1>2. "decision" \in DOMAIN failed(x)
  BY DEF Decision
<1> QED BY <1>1, <1>2

LEMMA NoAnswerIsNoFailure == \A x : x \in {"replay", "declined", "refused"} => failed(x) # None
BY NoneAssumption DEF Answer, Failures, failed

LEMMA NoneIsNothing ==
  /\ None \notin Decisions /\ None \notin Configs /\ None \notin Events
  /\ None \notin Nat /\ None \notin Steps /\ None # "proceed" /\ None # "block" /\ None # "ask"
BY NoneAssumption, DecisionsAssumption, ConfigsAssumption, EventsAssumption DEF Answer, Result

\* timeoutMs is a number, and posture one of the two.
LEMMA ConfigFacts ==
  ASSUME HostTypeOK, NEW h \in Steps
  PROVE  timeoutMs(h) \in Nat /\ posture(h) \in {"proceed", "deny"}
BY TimeoutAssumption, NoneAssumption DEF HostTypeOK, Config, timeoutMs, posture

\* A deny that can be rendered is shown to the host of an expressible step, an allow
\* that can be lets a mapped one proceed, and nothing but an allow or a modify does.
LEMMA RenderFacts ==
  ASSUME NEW e \in Event, NEW s
  PROVE  /\ Expressible(e) /\ "deny" \in s => render(e, s, "deny") = "block"
         /\ render(e, s, "deny") \in {"block", None}
         /\ e.mapped /\ "allow" \in s => render(e, s, "allow") = "proceed"
         /\ "allow" \notin s => render(e, s, "allow") = None
         /\ \A x : render(e, s, x) \in {"proceed", "block", "ask", None}
         /\ \A x : render(e, s, x) = "proceed" => x \in {"allow", "modify"}
BY NoneIsNothing DEF render, Expressible, Event

\* What a decision becomes: only what permits the step leaves an allow or a
\* modify, and what amounts to a deny is a deny.
LEMMA ValidateFacts ==
  ASSUME NEW d \in Decision, NEW t \in Nat
  PROVE  /\ Denies(d, t) => validateDecision(d, t) = "deny"
         /\ validateDecision(d, t) \in {"allow", "modify"} => Allows(d, t)
<1>1. d.window # None => d.window \in Nat
  BY DEF Decision
<1> QED BY <1>1 DEF Decision, Denies, Allows, validateDecision, resolveAsk, resolveDefer, Deny

\* With no number ahead of its line, the highest is the number of lines.
LEMMA HighestIsLast ==
  ASSUME HostTypeOK, \A i \in 1..Len(log) : log[i].seq <= i
  PROVE  highestSeqIn = Len(log)
<1> DEFINE seqs == {log[i].seq : i \in 1..Len(log)} \cup {Len(log)}
<1>1. Len(log) \in Nat /\ \A i \in 1..Len(log) : log[i] \in Line /\ log[i].seq \in Nat
  BY DEF HostTypeOK, Line, Garbage
<1>2. Len(log) \in seqs /\ \A n \in seqs : n <= Len(log) /\ n \in Nat
  BY <1>1
<1> HIDE DEF seqs
<1>3. \A n \in seqs : (\A m \in seqs : m <= n) => n = Len(log)
  BY <1>1, <1>2
<1>4. (CHOOSE n \in seqs : \A m \in seqs : m <= n) = Len(log)
  BY <1>2, <1>3
<1> QED BY <1>4 DEF highestSeqIn, seqs

-----------------------------------------------------------------------------
(* The steps that do not move. *)

Same(q) ==
  /\ pc'[q] = pc[q] /\ event'[q] = event[q] /\ config'[q] = config[q] /\ offers'[q] = offers[q]
  /\ asked'[q] = asked[q] /\ repeat'[q] = repeat[q] /\ elapsed'[q] = elapsed[q]
  /\ limit'[q] = limit[q] /\ answer'[q] = answer[q] /\ result'[q] = result[q]

LogStep(q) == log' = log \/ \E l \in Line : l.step # q /\ log' = Append(log, l)

\* A step that does not move keeps its invariant, whatever others record or ask.
LEMMA OthersKeep ==
  ASSUME IInv, UNCHANGED deployment, NEW q \in Steps, Same(q), LogStep(q), <<q, 1>> \in seen' => <<q, 1>> \in seen
  PROVE  StepInv(q)'
<1>1. StepInv(q) /\ log \in Seq(Line)
  BY DEF IInv, HostTypeOK
<1>2. timeoutMs(q)' = timeoutMs(q) /\ posture(q)' = posture(q)
  BY DEF Same, timeoutMs, posture
<1>3. Permitted(q)' = Permitted(q) /\ Denied(q)' = Denied(q)
  BY DEF Same, Permitted, Denied
<1>4. /\ Len(log) <= Len(log')
      /\ \A i \in 1..Len(log) : log'[i] = log[i]
      /\ \A i \in 1..Len(log') : log'[i].step = q => i \in 1..Len(log)
  <2>1. CASE log' = log
    BY <2>1, <1>1
  <2>2. CASE log' # log
    <3>1. PICK l \in Line : l.step # q /\ log' = Append(log, l)
      BY <2>2 DEF LogStep
    <3> QED BY <3>1, <1>1
  <2> QED BY <2>1, <2>2
<1>5. Recorded(q, "proceeded") => Recorded(q, "proceeded")'
  BY <1>1, <1>4 DEF Recorded
<1>6. ProgressInv(q)'
  BY <1>1, <1>2 DEF StepInv, ProgressInv, Same
<1>7. AnswerInv(q)'
  BY <1>1, <1>2, <1>3, <1>5 DEF StepInv, AnswerInv, Same, Readable
<1>8. RepeatInv(q)'
  BY <1>1, <1>2 DEF StepInv, RepeatInv, Same
<1>9. OfferInv(q)'
  BY <1>1 DEF StepInv, OfferInv, Same
<1>10. LogInv(q)'
  BY <1>1, <1>4 DEF StepInv, LogInv, Same
<1> QED BY <1>6, <1>7, <1>8, <1>9, <1>10 DEF StepInv

-----------------------------------------------------------------------------
(* The steps up to the request. *)

\* An action that writes nothing to the log and no sink, at a step that is not
\* recording before or after.
LEMMA SinksKeep ==
  ASSUME IInv, UNCHANGED deployment, NEW h \in Steps, UNCHANGED <<log, torn, sinks>>,
         \A q \in Steps \ {h} : pc'[q] = pc[q], pc[h] # "done", pc'[h] # "append"
  PROVE  SinkInv'
BY DEF IInv, SinkInv, Processes, process

LEMMA BeginKeeps ==
  ASSUME IInv, UNCHANGED deployment, NEW h \in Steps, NEW e \in Events, Begin(h, e)
  PROVE  IInv'
<1>1. HostTypeOK'
  BY EventsAssumption DEF IInv, HostTypeOK, Begin, Goto, Answer, Result
<1>2. pc[h] = "idle" /\ StepInv(h) /\ event'[h] = e /\ result'[h] = None
  BY DEF IInv, HostTypeOK, StepInv, ProgressInv, Begin
<1>3. \/ /\ e.mapped /\ pc'[h] = "audit" /\ answer'[h] = failed("declined") /\ config' = config
      \/ pc'[h] \in {"hello", "build"} /\ config'[h] = stored /\ answer' = answer
  BY DEF IInv, HostTypeOK, Begin, Goto
<1>4. StepInv(h)'
  <2>1. timeoutMs(h)' \in Nat
    BY <1>1, TimeoutAssumption, NoneAssumption DEF HostTypeOK, Config, timeoutMs
  <2>2. ~Permitted(h)' /\ ~Denied(h)'
    BY <1>2, <1>3, FailureIsNoDecision DEF StepInv, ProgressInv, Permitted, Denied, Before
  <2>3. ProgressInv(h)'
    BY <1>2, <1>3, <2>1, FailureIsNoDecision DEF StepInv, ProgressInv, Before, Asking, Recording, Answer, Begin
  <2>4. AnswerInv(h)'
    BY <1>2, <2>2, NoneIsNothing DEF AnswerInv
  <2>5. RepeatInv(h)'
    BY <1>2, <1>3 DEF StepInv, RepeatInv, Before, Recording, Begin, failed
  <2>6. OfferInv(h)' /\ LogInv(h)'
    BY <1>2, <1>3 DEF StepInv, OfferInv, LogInv, Begin
  <2> QED BY <2>3, <2>4, <2>5, <2>6 DEF StepInv
<1>5. SinkInv'
  <2>1. pc'[h] # "append" /\ \A q \in Steps \ {h} : pc'[q] = pc[q]
    BY <1>3 DEF IInv, HostTypeOK, Begin, Goto
  <2> QED BY <2>1, SinksKeep DEF Begin
<1>6. \A q \in Steps \ {h} : StepInv(q)'
  <2> SUFFICES ASSUME NEW q \in Steps \ {h} PROVE StepInv(q)'
    OBVIOUS
  <2>1. Same(q) /\ LogStep(q)
    BY DEF IInv, HostTypeOK, Begin, Goto, Same, LogStep
  <2> QED BY <2>1, OthersKeep DEF Begin
<1> QED BY <1>1, <1>4, <1>5, <1>6 DEF IInv

\* After the handshake the step is about to be built, under some config.
LEMMA HelloKeeps ==
  ASSUME IInv, UNCHANGED deployment, NEW h \in Steps, pc[h] = "hello", pc' = [pc EXCEPT ![h] = "build"],
         UNCHANGED <<log, torn, sinks, event, result, wire>>,
         NEW c \in Config \cup {None}, config' = [config EXCEPT ![h] = c],
         offers' = offers \/ offers' = [offers EXCEPT ![h] = c],
         stored' \in Config \cup {None}
  PROVE  IInv'
<1> USE DEF wire
<1>1. HostTypeOK'
  BY DEF IInv, HostTypeOK
<1>2. StepInv(h) /\ pc'[h] = "build" /\ config'[h] = c /\ answer' = answer /\ result' = result
  BY DEF IInv, HostTypeOK
<1>3. StepInv(h)'
  <2>1. timeoutMs(h)' \in Nat
    BY <1>1, TimeoutAssumption, NoneAssumption DEF HostTypeOK, Config, timeoutMs
  <2>2. ~Permitted(h)' /\ ~Denied(h)' /\ result'[h] = None
    BY <1>2 DEF StepInv, ProgressInv, Permitted, Denied, Before
  <2>3. ProgressInv(h)'
    BY <1>2, <2>1 DEF StepInv, ProgressInv, Before, Asking, Recording
  <2>4. AnswerInv(h)'
    BY <2>2, NoneIsNothing DEF AnswerInv
  <2>5. RepeatInv(h)'
    BY <1>2 DEF StepInv, RepeatInv, Before, Recording
  <2>6. OfferInv(h)'
    BY <1>2 DEF IInv, HostTypeOK, StepInv, OfferInv
  <2>7. LogInv(h)'
    BY <1>2 DEF StepInv, LogInv
  <2> QED BY <2>3, <2>4, <2>5, <2>6, <2>7 DEF StepInv
<1>4. SinkInv'
  <2>1. pc'[h] # "append" /\ \A q \in Steps \ {h} : pc'[q] = pc[q]
    BY DEF IInv, HostTypeOK
  <2> QED BY <2>1, SinksKeep
<1>5. \A q \in Steps \ {h} : StepInv(q)'
  <2> SUFFICES ASSUME NEW q \in Steps \ {h} PROVE StepInv(q)'
    OBVIOUS
  <2>1. Same(q) /\ LogStep(q)
    BY DEF IInv, HostTypeOK, Same, LogStep
  <2> QED BY <2>1, OthersKeep
<1> QED BY <1>1, <1>3, <1>4, <1>5 DEF IInv

LEMMA HandshakeKeeps ==
  ASSUME IInv, UNCHANGED deployment, NEW h \in Steps,
         HelloFails(h) \/ \E hello \in Configs \cup {None} : negotiateSessionConfig(h, hello)
  PROVE  IInv'
<1>0. stored \in Config \cup {None}
  BY DEF IInv, HostTypeOK
<1>1. CASE HelloFails(h)
  BY <1>0, <1>1, HelloKeeps DEF HelloFails, Goto
<1>2. CASE \E hello \in Configs \cup {None} : negotiateSessionConfig(h, hello)
  <2>1. PICK hello \in Configs \cup {None} : negotiateSessionConfig(h, hello)
    BY <1>2
  <2>2. CASE hello \in Configs
    BY <1>0, <2>1, <2>2, HelloKeeps, ConfigsAssumption DEF negotiateSessionConfig, Goto
  <2>3. CASE hello \notin Configs
    BY <1>0, <2>1, <2>3, HelloKeeps DEF negotiateSessionConfig, Goto
  <2> QED BY <2>2, <2>3
<1> QED BY <1>1, <1>2

LEMMA BuildKeeps ==
  ASSUME IInv, UNCHANGED deployment, NEW h \in Steps, Build(h)
  PROVE  IInv'
<1>1. StepInv(h) /\ pc[h] = "build" /\ event[h] \in Event
  BY EventsAssumption DEF IInv, HostTypeOK, StepInv, ProgressInv, Build
<1>2. timeoutMs(h) \in Nat /\ timeoutMs(h)' = timeoutMs(h) /\ posture(h)' = posture(h)
  BY ConfigFacts DEF IInv, Build, timeoutMs, posture
<1>3. HostTypeOK'
  <2>1. pc' \in [Steps -> {"idle", "hello", "build", "ask", "await", "audit", "append", "done", "dead"}]
    BY DEF IInv, HostTypeOK, Build, Goto, Return
  <2>2. answer' \in [Steps -> Answer \cup {None}]
    BY DEF IInv, HostTypeOK, Build, Answer
  <2>4. limit' \in [Steps -> Nat]
    BY <1>2 DEF IInv, HostTypeOK, Build
  <2>3. result' \in [Steps -> Result \cup {None}]
    BY DEF IInv, HostTypeOK, Build, Return, Result
  <2> QED BY <2>1, <2>2, <2>3, <2>4 DEF IInv, HostTypeOK, Build
<1>4. \/ pc'[h] = "done" /\ result'[h] = "stopped" /\ answer' = answer
      \/ /\ pc'[h] = "audit" /\ event[h].mapped /\ answer'[h] = failed("unbuilt") /\ result' = result
      \/ /\ pc'[h] = "ask" /\ Expressible(event[h]) /\ limit'[h] = timeoutMs(h)
         /\ answer' = answer /\ result' = result
  BY <1>1 DEF IInv, HostTypeOK, Build, Goto, Return, Expressible
<1>5. StepInv(h)'
  <2>1. ~Permitted(h)' /\ ~Denied(h)' /\ result'[h] # "proceed"
    BY <1>1, <1>4, FailureIsNoDecision, NoneIsNothing
       DEF StepInv, ProgressInv, Permitted, Denied, Before
  <2>2. ProgressInv(h)'
    BY <1>1, <1>2, <1>4, FailureIsNoDecision
       DEF StepInv, ProgressInv, Before, Asking, Recording, Answer, Build
  <2>3. AnswerInv(h)'
    BY <2>1 DEF AnswerInv
  <2>4. RepeatInv(h)'
    <3>1. answer'[h] # failed("replay") \/ pc'[h] \notin Recording
      BY <1>4 DEF failed, Recording
    <3>2. CASE pc'[h] = "done"
      <4>1. answer[h] # failed("replay")
        BY <1>1, NoAnswerIsNoFailure DEF StepInv, RepeatInv, Before
      <4> QED BY <1>1, <1>4, <3>2, <4>1 DEF StepInv, RepeatInv, Before, Recording, Build
    <3> QED BY <1>1, <1>4, <3>1, <3>2 DEF StepInv, RepeatInv, Before, Recording, Build
  <2>5. OfferInv(h)' /\ LogInv(h)'
    BY <1>1, <1>4 DEF StepInv, OfferInv, LogInv, Build
  <2> QED BY <2>2, <2>3, <2>4, <2>5 DEF StepInv
<1>6. SinkInv'
  <2>1. pc'[h] # "append" /\ \A q \in Steps \ {h} : pc'[q] = pc[q]
    BY <1>4 DEF IInv, HostTypeOK, Build, Goto, Return
  <2> QED BY <2>1, SinksKeep DEF Build
<1>7. \A q \in Steps \ {h} : StepInv(q)'
  <2> SUFFICES ASSUME NEW q \in Steps \ {h} PROVE StepInv(q)'
    OBVIOUS
  <2>1. Same(q) /\ LogStep(q)
    BY DEF IInv, HostTypeOK, Build, Goto, Return, Same, LogStep
  <2> QED BY <2>1, OthersKeep DEF Build
<1> QED BY <1>3, <1>5, <1>6, <1>7 DEF IInv

LEMMA AskKeeps ==
  ASSUME IInv, UNCHANGED deployment, NEW h \in Steps, Ask(h)
  PROVE  IInv'
<1>1. /\ StepInv(h) /\ pc[h] = "ask" /\ pc'[h] = "await" /\ event[h] \in Event
      /\ asked[h] \in {0, 1} /\ asked'[h] = asked[h] + 1
  BY EventsAssumption DEF IInv, HostTypeOK, StepInv, ProgressInv, RepeatInv, Ask, Goto
<1>2. timeoutMs(h)' = timeoutMs(h) /\ posture(h)' = posture(h)
  BY DEF Ask, timeoutMs, posture
<1>3. \/ asked[h] = 0 /\ requestId(h) = <<event[h].gate, event[h].call>>
      \/ asked[h] = 1 /\ requestId(h) = <<h, 1>>
  BY <1>1 DEF requestId
<1>4. /\ event[h].gate \in {"request", "result"} /\ event[h].call \in Nat
      /\ event[h].gate \notin Steps
  BY <1>1, StepsAssumption DEF Event
<1>5. requestId(h) \in ({"request", "result"} \X Nat) \cup (Steps \X Nat)
  BY <1>3, <1>4
<1>6. \A q \in Steps : <<q, 1>> = requestId(h) => q = h /\ asked[h] = 1
  BY <1>3, <1>4
<1>61. PICK b \in BOOLEAN : repeat' = [repeat EXCEPT ![h] = b] /\ (b => requestId(h) \in seen)
  <2>1. (requestId(h) \in seen) \in BOOLEAN
    OBVIOUS
  <2>2. CASE repeat' = [repeat EXCEPT ![h] = requestId(h) \in seen]
    BY <2>1, <2>2
  <2>3. CASE repeat' = [repeat EXCEPT ![h] = FALSE]
    BY <2>3
  <2>4. \/ repeat' = [repeat EXCEPT ![h] = requestId(h) \in seen]
        \/ repeat' = [repeat EXCEPT ![h] = FALSE]
    BY Zenon DEF Ask
  <2> QED BY <2>2, <2>3, <2>4, Zenon
<1>7. HostTypeOK'
  <2>1. asked' \in [Steps -> 0..2]
    BY <1>1 DEF IInv, HostTypeOK, Ask
  <2>2. repeat' \in [Steps -> BOOLEAN]
    BY <1>61 DEF IInv, HostTypeOK
  <2>3. seen' \subseteq ({"request", "result"} \X Nat) \cup (Steps \X Nat)
    BY <1>5 DEF IInv, HostTypeOK, Ask
  <2>4. pc' \in [Steps -> {"idle", "hello", "build", "ask", "await", "audit", "append", "done", "dead"}]
    BY DEF IInv, HostTypeOK, Ask, Goto
  <2> QED BY <2>1, <2>2, <2>3, <2>4 DEF IInv, HostTypeOK, Ask
<1>8. StepInv(h)'
  <2>1. ~Permitted(h)' /\ ~Denied(h)' /\ result'[h] = None
    BY <1>1 DEF StepInv, ProgressInv, Permitted, Denied, Before, Asking, Ask
  <2>2. ProgressInv(h)'
    BY <1>1, <1>2 DEF StepInv, ProgressInv, Before, Asking, Recording, Ask
  <2>3. AnswerInv(h)'
    BY <2>1, NoneIsNothing DEF AnswerInv
  <2>4. RepeatInv(h)'
    <3>1. <<h, 1>> \notin seen
      BY <1>1 DEF StepInv, RepeatInv
    <3>2. asked[h] = 1 => ~repeat'[h]
      <4>1. repeat'[h] => requestId(h) \in seen
        BY <1>61 DEF IInv, HostTypeOK
      <4> QED BY <1>3, <3>1, <4>1
    <3>3. asked'[h] < 2 => <<h, 1>> \notin seen'
      BY <1>1, <1>6, <3>1 DEF Ask
    <3> QED BY <1>1, <3>2, <3>3 DEF RepeatInv, Before, Recording
  <2>5. OfferInv(h)' /\ LogInv(h)'
    BY <1>1 DEF StepInv, OfferInv, LogInv, Ask
  <2> QED BY <2>2, <2>3, <2>4, <2>5 DEF StepInv
<1>9. SinkInv'
  <2>1. pc'[h] # "append" /\ \A q \in Steps \ {h} : pc'[q] = pc[q]
    BY <1>1 DEF IInv, HostTypeOK, Ask, Goto
  <2> QED BY <2>1, SinksKeep DEF Ask
<1>10. \A q \in Steps \ {h} : StepInv(q)'
  <2> SUFFICES ASSUME NEW q \in Steps \ {h} PROVE StepInv(q)'
    OBVIOUS
  <2>1. Same(q) /\ LogStep(q)
    BY DEF IInv, HostTypeOK, Ask, Goto, Same, LogStep
  <2>2. <<q, 1>> \in seen' => <<q, 1>> \in seen
    BY <1>6 DEF Ask
  <2> QED BY <2>1, <2>2, OthersKeep
<1> QED BY <1>7, <1>8, <1>9, <1>10 DEF IInv

-----------------------------------------------------------------------------
(* The answer. *)

\* What arrives, or the timeout, moves the step within its timeout: to its
\* result, to the posture, or to its second request.
LEMMA AnswerKeeps ==
  ASSUME IInv, UNCHANGED deployment, NEW h \in Steps, pc[h] = "await",
         NEW a \in Decisions \cup Failures \cup {failed("timeout")}, NEW t \in elapsed[h]..limit[h],
         elapsed' = [elapsed EXCEPT ![h] = t], answer' = [answer EXCEPT ![h] = a],
         UNCHANGED <<stored, log, torn, sinks, event, config, offers, seen, asked, repeat, limit>>,
         NEW l \in {"ask", "audit", "done"}, pc' = [pc EXCEPT ![h] = l],
         NEW r \in {"proceed", "block", "ask", None}, result' = [result EXCEPT ![h] = r],
         r # None <=> l = "done",
         l = "done" => a \in Decisions /\ r = render(event[h], event[h].renders, validateDecision(a, t)),
         (l = "audit" /\ a \in Decisions) => render(event[h], event[h].renders, validateDecision(a, t)) = None,
         l = "ask" => a \notin Decisions /\ asked[h] = 1,
         (a = failed("replay") /\ l = "audit" /\ event[h].gate = "request")
            => repeat[h] /\ (asked[h] = 1 => timeoutMs(h) - t <= 0)
  PROVE  IInv'
<1> DEFINE said == render(event[h], event[h].renders, validateDecision(a, t))
<1>1. /\ StepInv(h) /\ event[h] \in Event /\ Expressible(event[h]) /\ limit[h] = timeoutMs(h)
      /\ asked[h] \in {1, 2} /\ pc'[h] = l /\ answer'[h] = a /\ elapsed'[h] = t /\ result'[h] = r
  BY EventsAssumption DEF IInv, HostTypeOK, StepInv, ProgressInv, RepeatInv, Asking
<1>2. /\ timeoutMs(h) \in Nat /\ timeoutMs(h)' = timeoutMs(h) /\ t \in Nat /\ t <= timeoutMs(h)
  BY <1>1, ConfigFacts DEF IInv, HostTypeOK, timeoutMs
<1>3. a \in Answer
  BY DecisionsAssumption DEF Answer
<1>4. a \in Decisions =>
        /\ Denies(a, t) => \/ said = "block"
                           \/ said = None /\ "deny" \notin event[h].renders
        /\ said = "proceed" => Allows(a, t)
  <2> SUFFICES ASSUME a \in Decisions
               PROVE  /\ Denies(a, t) => \/ said = "block"
                                         \/ said = None /\ "deny" \notin event[h].renders
                      /\ said = "proceed" => Allows(a, t)
    OBVIOUS
  <2>1. /\ Denies(a, t) => validateDecision(a, t) = "deny"
        /\ validateDecision(a, t) \in {"allow", "modify"} => Allows(a, t)
    BY <1>2, DecisionsAssumption, ValidateFacts
  <2>2. /\ said = "proceed" => validateDecision(a, t) \in {"allow", "modify"}
        /\ validateDecision(a, t) = "deny" => \/ said = "block"
                                              \/ said = None /\ "deny" \notin event[h].renders
    BY <1>1, RenderFacts
  <2> QED BY <2>1, <2>2
<1>5. HostTypeOK'
  BY <1>2, <1>3 DEF IInv, HostTypeOK, Result
<1>6. StepInv(h)'
  <2>1. ProgressInv(h)'
    BY <1>1, <1>2, <1>3 DEF StepInv, ProgressInv, Before, Asking, Recording, Expressible
  <2>2. AnswerInv(h)'
    BY <1>1, <1>4, NoneIsNothing DEF AnswerInv, Permitted, Denied, Recording
  <2>3. RepeatInv(h)'
    <3>1. (a = failed("replay") /\ l \in Recording \cup {"done"} /\ event[h].gate = "request")
             => t >= timeoutMs(h)
      <4>1. a = failed("replay") => l # "done"
        BY FailureIsNoDecision
      <4>2. repeat[h] => asked[h] = 1
        BY <1>1 DEF StepInv, RepeatInv
      <4> QED BY <4>1, <4>2, <1>2 DEF Recording
    <3> QED BY <1>1, <1>2, <3>1 DEF StepInv, RepeatInv, Before, Recording
  <2>4. OfferInv(h)' /\ LogInv(h)'
    BY <1>1 DEF StepInv, OfferInv, LogInv
  <2> QED BY <2>1, <2>2, <2>3, <2>4 DEF StepInv
<1>7. SinkInv'
  <2>1. pc'[h] # "append" /\ \A q \in Steps \ {h} : pc'[q] = pc[q]
    BY <1>1 DEF IInv, HostTypeOK
  <2> QED BY <2>1, SinksKeep
<1>8. \A q \in Steps \ {h} : StepInv(q)'
  <2> SUFFICES ASSUME NEW q \in Steps \ {h} PROVE StepInv(q)'
    OBVIOUS
  <2>1. Same(q) /\ LogStep(q)
    BY DEF IInv, HostTypeOK, Same, LogStep
  <2> QED BY <2>1, OthersKeep
<1> QED BY <1>5, <1>6, <1>7, <1>8 DEF IInv

LEMMA AnsweredKeeps ==
  ASSUME IInv, UNCHANGED deployment, NEW h \in Steps, NEW a \in Decisions \cup Failures,
         NEW t \in elapsed[h]..limit[h], Answered(h, a, t)
  PROVE  IInv'
<1> DEFINE r == render(event[h], event[h].renders, validateDecision(a, t))
<1>1. /\ pc[h] = "await" /\ result = [result EXCEPT ![h] = None] /\ event[h] \in Event
      /\ timeoutMs(h) \in Nat /\ t \in Int
  BY EventsAssumption, ConfigFacts DEF IInv, HostTypeOK, StepInv, ProgressInv, Answered
<1>2. r \in {"proceed", "block", "ask", None}
  BY <1>1, RenderFacts
<1>3. CASE a \in Decisions /\ r # None
  <2>1. pc' = [pc EXCEPT ![h] = "done"] /\ result' = [result EXCEPT ![h] = r]
    BY <1>3 DEF Answered, Return, Goto
  <2> QED BY <1>1, <1>2, <1>3, <2>1, AnswerKeeps DEF Answered
<1>4. CASE a \in Decisions /\ r = None
  <2>1. pc' = [pc EXCEPT ![h] = "audit"] /\ result' = [result EXCEPT ![h] = None]
    BY <1>1, <1>4 DEF Answered, Goto
  <2>2. a # failed("replay")
    BY <1>4, FailureIsNoDecision
  <2> QED BY <1>1, <1>4, <2>1, <2>2, AnswerKeeps DEF Answered
<1>5. CASE a \notin Decisions
  <2> DEFINE again == /\ a = failed("replay") /\ asked[h] = 1 /\ event[h].gate = "request"
                      /\ timeoutMs(h) - t > 0
  <2>1. pc' = [pc EXCEPT ![h] = IF again THEN "ask" ELSE "audit"] /\ result' = [result EXCEPT ![h] = None]
    BY <1>1, <1>5 DEF Answered, Goto
  <2>2. CASE again
    BY <1>1, <1>5, <2>1, <2>2, AnswerKeeps DEF Answered
  <2>3. CASE ~again
    <3>1. (a = failed("replay") /\ event[h].gate = "request")
             => repeat[h] /\ (asked[h] = 1 => timeoutMs(h) - t <= 0)
      BY <1>1, <2>3 DEF Answered
    <3>2. pc' = [pc EXCEPT ![h] = "audit"]
      BY <2>1, <2>3
    <3> HIDE DEF again
    <3> QED BY <1>1, <1>5, <2>1, <3>1, <3>2, AnswerKeeps DEF Answered
  <2> QED BY <2>2, <2>3
<1> QED BY <1>3, <1>4, <1>5

LEMMA TimesOutKeeps ==
  ASSUME IInv, UNCHANGED deployment, NEW h \in Steps, TimesOut(h)
  PROVE  IInv'
<1>1. pc[h] = "await" /\ result[h] = None /\ elapsed[h] <= limit[h]
  BY DEF IInv, StepInv, ProgressInv, TimesOut, Before, Asking
<1>11. result = [result EXCEPT ![h] = None]
  BY <1>1 DEF IInv, HostTypeOK
<1>12. limit[h] \in elapsed[h]..limit[h]
  BY <1>1 DEF IInv, HostTypeOK
<1>2. failed("timeout") # failed("replay") /\ failed("timeout") \notin Decisions
  BY FailureIsNoDecision DEF failed
<1> QED BY <1>1, <1>11, <1>12, <1>2, AnswerKeeps DEF TimesOut, Goto

-----------------------------------------------------------------------------
(* The posture and the audit log. *)

LEMMA ResolutionFacts ==
  ASSUME HostTypeOK, NEW h \in Steps
  PROVE  /\ resolution(h) \in Outcome
         /\ resolution(h) = "proceeded" => posture(h) = "proceed" /\ answer[h] # failed("refused")
BY ConfigFacts DEF resolution, Outcome

\* The step proceeds, or is stopped for want of an allow it can be shown.
Granted(h, v) ==
  \/ v = "proceed"
  \/ v = "stopped" /\ "allow" \notin event[h].answers

\* What the host is told of a resolved step: it proceeds only if that is on record.
LEMMA ResolveFacts ==
  ASSUME IInv, NEW h \in Steps, pc[h] \in Recording, NEW audited \in BOOLEAN, Resolve(h, audited)
  PROVE  \E v \in {"proceed", "block", "ungoverned", "stopped"} :
           /\ pc' = [pc EXCEPT ![h] = "done"] /\ result' = [result EXCEPT ![h] = v]
           /\ v = "proceed" => resolution(h) = "proceeded" /\ audited
           /\ resolution(h) = "proceeded" /\ audited => Granted(h, v)
           /\ v = "ungoverned" <=> resolution(h) = "ungoverned"
<1> DEFINE s == event[h].answers
           r == render(event[h], s, IF resolution(h) = "proceeded" /\ audited THEN "allow" ELSE "deny")
           v == IF resolution(h) = "ungoverned" THEN "ungoverned" ELSE IF r = None THEN "stopped" ELSE r
<1>1. event[h] \in Event /\ event[h].mapped
  BY EventsAssumption DEF IInv, StepInv, ProgressInv, Recording
<1>2. resolution(h) \in Outcome
  BY ResolutionFacts DEF IInv
<1>3. /\ render(event[h], s, "deny") \in {"block", None}
      /\ render(event[h], s, "allow") = IF "allow" \in s THEN "proceed" ELSE None
  BY <1>1, RenderFacts
<1>4. /\ r \in {"proceed", "block", None}
      /\ r = "proceed" => resolution(h) = "proceeded" /\ audited
      /\ (resolution(h) = "proceeded" /\ audited /\ r # "proceed") => (r = None /\ "allow" \notin s)
  <2>1. CASE resolution(h) = "proceeded" /\ audited
    BY <1>3, <2>1, NoneIsNothing
  <2>2. CASE ~(resolution(h) = "proceeded" /\ audited)
    BY <1>3, <2>2, NoneIsNothing
  <2> QED BY <2>1, <2>2
<1>5. pc' = [pc EXCEPT ![h] = "done"] /\ result' = [result EXCEPT ![h] = v]
  BY DEF Resolve, Return, Goto
<1> HIDE DEF r
<1>6. /\ v \in {"proceed", "block", "ungoverned", "stopped"}
      /\ v = "proceed" => resolution(h) = "proceeded" /\ audited
      /\ resolution(h) = "proceeded" /\ audited => Granted(h, v)
      /\ v = "ungoverned" <=> resolution(h) = "ungoverned"
  BY <1>2, <1>4, NoneIsNothing DEF Outcome, Granted
<1> QED BY <1>5, <1>6

\* A step that ends with the posture's answer keeps its invariant: if it proceeds
\* the log has just gained its entry.
LEMMA EndKeeps ==
  ASSUME IInv, UNCHANGED deployment, NEW h \in Steps, pc[h] \in Recording,
         NEW v \in {"proceed", "block", "ungoverned", "stopped"},
         pc' = [pc EXCEPT ![h] = "done"], result' = [result EXCEPT ![h] = v],
         UNCHANGED <<stored, event, config, offers, wire>>,
         v = "ungoverned" <=> resolution(h) = "ungoverned",
         \/ log' = log /\ v # "proceed"
         \/ \E l \in Line : l.step \notin Steps /\ log' = Append(log, l) /\ v # "proceed"
         \/ ~Readable /\ log' = log /\ (v = "proceed" => resolution(h) = "proceeded")
         \/ \E l \in Line : /\ l.step = h /\ l.outcome = resolution(h) /\ log' = Append(log, l)
                            /\ v = "proceed" => resolution(h) = "proceeded"
                            /\ resolution(h) = "proceeded" => Granted(h, v)
  PROVE  StepInv(h)' /\ \A q \in Steps \ {h} : StepInv(q)'
<1> USE DEF wire
<1>1. /\ StepInv(h) /\ log \in Seq(Line) /\ pc'[h] = "done" /\ result'[h] = v
      /\ \A q \in Steps \ {h} : pc'[q] = pc[q] /\ result'[q] = result[q]
  BY DEF IInv, HostTypeOK
<1>2. /\ timeoutMs(h)' = timeoutMs(h) /\ posture(h)' = posture(h)
      /\ Permitted(h)' = Permitted(h) /\ Denied(h)' = Denied(h)
  BY DEF timeoutMs, posture, Permitted, Denied
<1>3. /\ resolution(h) \in Outcome
      /\ resolution(h) = "proceeded" => posture(h) = "proceed" /\ answer[h] # failed("refused")
  BY ResolutionFacts DEF IInv
<1>4. \A i \in 1..Len(log) : log[i].step # h
  BY <1>1 DEF StepInv, LogInv, Recording
<1>5. ProgressInv(h)'
  BY <1>1, <1>2 DEF StepInv, ProgressInv, Before, Asking, Recording
<1>6. v = "proceed" => resolution(h) = "proceeded" /\ (Readable => Recorded(h, "proceeded")')
  <2> SUFFICES ASSUME v = "proceed", Readable
               PROVE  resolution(h) = "proceeded" /\ Recorded(h, "proceeded")'
    OBVIOUS
  <2>1. PICK l \in Line : /\ l.step = h /\ l.outcome = resolution(h) /\ log' = Append(log, l)
                          /\ resolution(h) = "proceeded"
    OBVIOUS
  <2>2. Len(log) + 1 \in 1..Len(log') /\ log'[Len(log) + 1] = l
    BY <1>1, <2>1
  <2> QED BY <2>1, <2>2 DEF Recorded
<1>7. AnswerInv(h)'
  BY <1>1, <1>2, <1>3, <1>6 DEF StepInv, AnswerInv, Recording, Readable
<1>8. RepeatInv(h)'
  BY <1>1, <1>2 DEF StepInv, RepeatInv, Before, Recording
<1>9. OfferInv(h)'
  BY <1>1 DEF StepInv, OfferInv, Recording
<1>10. LogInv(h)'
  <2>1. CASE log' = log
    BY <1>1, <1>4, <2>1 DEF LogInv
  <2>2. CASE \E l \in Line : l.step \notin Steps /\ log' = Append(log, l)
    <3>1. \A i \in 1..Len(log') : log'[i].step # h
      BY <1>1, <1>4, <2>2
    <3> QED BY <3>1 DEF LogInv
  <2>3. CASE \E l \in Line : /\ l.step = h /\ l.outcome = resolution(h) /\ log' = Append(log, l)
                             /\ v = "proceed" => resolution(h) = "proceeded"
                             /\ resolution(h) = "proceeded" => Granted(h, v)
    <3>1. PICK l \in Line : /\ l.step = h /\ l.outcome = resolution(h) /\ log' = Append(log, l)
                            /\ v = "proceed" => resolution(h) = "proceeded"
                            /\ resolution(h) = "proceeded" => Granted(h, v)
      BY <2>3
    <3>2. \A i \in 1..Len(log') : log'[i].step = h => log'[i] = l
      BY <1>1, <1>4, <3>1
    <3> QED BY <1>1, <1>3, <3>1, <3>2 DEF LogInv, Outcome, Granted
  <2> QED BY <2>1, <2>2, <2>3
<1>11. \A q \in Steps \ {h} : StepInv(q)'
  <2> SUFFICES ASSUME NEW q \in Steps \ {h} PROVE StepInv(q)'
    OBVIOUS
  <2>1. Same(q) /\ LogStep(q)
    BY <1>1 DEF Same, LogStep
  <2> QED BY <2>1, OthersKeep
<1> QED BY <1>5, <1>7, <1>8, <1>9, <1>10, <1>11 DEF StepInv

LEMMA ProcessFacts == \A h \in Steps : process(h) \in Processes
BY DEF process, Processes

LEMMA ReadLogKeeps ==
  ASSUME IInv, UNCHANGED deployment, NEW h \in Steps, ReadLog(h)
  PROVE  IInv'
<1> DEFINE p == process(h)
<1>1. p \in Processes /\ sinks[p] \in [seq : Nat \cup {None}, disabled : BOOLEAN]
  BY ProcessFacts DEF IInv, HostTypeOK
<1>2. pc[h] = "audit" /\ pc[h] \in Recording
  BY DEF ReadLog, Recording
<1>3. CASE sinks[p].disabled
  <2>1. Resolve(h, FALSE) /\ UNCHANGED sinks
    BY <1>3 DEF ReadLog
  <2>2. PICK v \in {"proceed", "block", "ungoverned", "stopped"} :
           /\ pc' = [pc EXCEPT ![h] = "done"] /\ result' = [result EXCEPT ![h] = v]
           /\ v # "proceed" /\ (v = "ungoverned" <=> resolution(h) = "ungoverned")
    BY <1>2, <2>1, ResolveFacts
  <2>3. HostTypeOK'
    BY <2>1, <2>2 DEF IInv, HostTypeOK, ReadLog, wire, Result
  <2>4. StepInv(h)' /\ \A q \in Steps \ {h} : StepInv(q)'
    BY <1>2, <2>2, EndKeeps DEF ReadLog
  <2>5. SinkInv'
    <3>1. pc'[h] # "append" /\ \A q \in Steps \ {h} : pc'[q] = pc[q]
      BY <2>2 DEF IInv, HostTypeOK
    <3> QED BY <2>1, <3>1, SinksKeep DEF ReadLog
  <2> QED BY <2>3, <2>4, <2>5 DEF IInv
<1>4. CASE ~sinks[p].disabled
  <2> DEFINE n == IF sinks[p].seq = None THEN highestSeqIn ELSE sinks[p].seq
  <2>1. sinks' = [sinks EXCEPT ![p].seq = n]
    BY <1>4 DEF ReadLog
  <2>2. n \in Nat /\ n <= Len(log)
    <3>1. highestSeqIn = Len(log)
      BY HighestIsLast DEF IInv, SinkInv
    <3>2. Len(log) \in Nat
      BY DEF IInv, HostTypeOK
    <3>3. sinks[p].seq # None => sinks[p].seq \in Nat /\ sinks[p].seq <= Len(log)
      BY <1>1, <1>2 DEF IInv, SinkInv, process
    <3> QED BY <3>1, <3>2, <3>3
  <2> HIDE DEF n
  <2>3. /\ pc' = [pc EXCEPT ![h] = "append"]
        /\ UNCHANGED <<result, stored, log, torn, event, config, offers, wire>>
    BY <1>4 DEF ReadLog, Goto
  <2>4. /\ pc'[h] = "append" /\ \A q \in Steps \ {h} : pc'[q] = pc[q]
        /\ sinks'[p].seq = n /\ ~sinks'[p].disabled
        /\ \A x \in Processes \ {p} : sinks'[x] = sinks[x]
    BY <1>1, <1>4, <2>1, <2>3 DEF IInv, HostTypeOK
  <2>5. HostTypeOK'
    <3>1. sinks' \in [Processes -> [seq : Nat \cup {None}, disabled : BOOLEAN]]
      BY <1>1, <2>1, <2>2 DEF IInv, HostTypeOK
    <3> QED BY <2>3, <3>1 DEF IInv, HostTypeOK, wire
  <2>6. SinkInv'
    <3>1. \A x \in Processes : \/ sinks'[x].seq = None \/ sinks'[x].seq <= Len(log')
                               \/ ~deployment.plugin /\ x \in Steps /\ pc'[x] = "done"
      <4> SUFFICES ASSUME NEW x \in Processes \ {p}
                   PROVE  \/ sinks'[x].seq = None \/ sinks'[x].seq <= Len(log')
                          \/ ~deployment.plugin /\ x \in Steps /\ pc'[x] = "done"
        BY <2>2, <2>3, <2>4
      <4>1. ~deployment.plugin => x # h
        BY DEF process
      <4> QED BY <2>3, <2>4, <4>1 DEF IInv, SinkInv
    <3>2. ~(torn /\ deployment.plugin)
      BY <1>1, <1>4 DEF IInv, SinkInv, process
    <3>3. \A q \in Steps \ {h} : process(q) = p => pc[q] # "append"
      BY DEF ReadLog, Running
    <3>4. ASSUME NEW k \in Steps, pc'[k] = "append"
          PROVE  /\ ~sinks'[process(k)].disabled /\ sinks'[process(k)].seq # None
                 /\ \A q \in Steps \ {k} : process(q) = process(k) => pc'[q] # "append"
      <4>1. CASE k = h
        BY <2>2, <2>4, <3>3, <4>1, NoneIsNothing
      <4>2. CASE k # h
        <5>1. pc[k] = "append" /\ process(k) # p /\ process(k) \in Processes
          BY <2>4, <3>3, <3>4, <4>2, ProcessFacts
        <5> QED BY <2>4, <4>2, <5>1 DEF IInv, SinkInv
      <4> QED BY <4>1, <4>2
    <3> QED BY <2>3, <3>1, <3>2, <3>4 DEF IInv, SinkInv, process
  <2>7. StepInv(h)'
    <3>1. StepInv(h) /\ timeoutMs(h)' = timeoutMs(h) /\ posture(h)' = posture(h)
          /\ Permitted(h)' = Permitted(h) /\ Denied(h)' = Denied(h) /\ Recorded(h, "proceeded")' = Recorded(h, "proceeded")
      BY <2>3 DEF IInv, timeoutMs, posture, Permitted, Denied, Recorded, wire
    <3>2. ProgressInv(h)' /\ OfferInv(h)' /\ LogInv(h)'
      BY <1>2, <2>3, <2>4, <3>1 DEF StepInv, ProgressInv, OfferInv, LogInv, Before, Asking, Recording, wire
    <3>3. AnswerInv(h)' /\ RepeatInv(h)'
      BY <1>2, <2>3, <2>4, <3>1 DEF StepInv, AnswerInv, RepeatInv, Before, Recording, Readable, wire
    <3> QED BY <3>2, <3>3 DEF StepInv
  <2>8. \A q \in Steps \ {h} : StepInv(q)'
    <3> SUFFICES ASSUME NEW q \in Steps \ {h} PROVE StepInv(q)'
      OBVIOUS
    <3>1. Same(q) /\ LogStep(q) /\ seen' = seen
      BY <2>3, <2>4 DEF Same, LogStep, wire
    <3> QED BY <3>1, OthersKeep
  <2> QED BY <2>5, <2>6, <2>7, <2>8 DEF IInv
<1> QED BY <1>3, <1>4

\* What the append itself does: the entry is the log's next line, unless the
\* append fails, and then this process records nothing more.
LEMMA AppendKeeps ==
  ASSUME IInv, UNCHANGED deployment, NEW h \in Steps, AppendEntry(h) \/ AppendFails(h)
  PROVE  IInv'
<1> DEFINE p == process(h)
           n == sinks[p].seq
<1>1. /\ p \in Processes /\ pc[h] = "append" /\ pc[h] \in Recording
      /\ sinks[p] \in [seq : Nat \cup {None}, disabled : BOOLEAN]
  BY ProcessFacts DEF IInv, HostTypeOK, AppendEntry, AppendFails, Recording
<1>2. /\ ~sinks[p].disabled /\ n \in Nat /\ n <= Len(log)
      /\ torn \in BOOLEAN /\ (torn => deployment.tears /\ ~deployment.plugin)
      /\ \A q \in Steps \ {h} : process(q) = p => pc[q] # "append"
  <2>1. torn \in BOOLEAN /\ (torn => deployment.tears /\ ~deployment.plugin)
    BY <1>1 DEF IInv, HostTypeOK, SinkInv, process
  <2>2. n \in Nat /\ n <= Len(log)
    BY <1>1 DEF IInv, SinkInv, process
  <2> QED BY <1>1, <2>1, <2>2 DEF IInv, SinkInv
<1>3. log \in Seq(Line) /\ Len(log) \in Nat /\ resolution(h) \in Outcome
  BY ResolutionFacts DEF IInv, HostTypeOK
<1>4. entry(h) \in Line /\ entry(h).step = h /\ entry(h).outcome = resolution(h) /\ entry(h).seq = n + 1
  BY <1>2, <1>3 DEF entry, Line
<1>5. entry(h).seq \in Nat /\ entry(h).seq <= Len(log) + 1
  BY <1>2, <1>3, <1>4
<1>6. UNCHANGED <<stored, event, config, offers, wire>>
  BY DEF AppendEntry, AppendFails
<1>7. CASE AppendEntry(h)
  <2>1. /\ log' = (IF torn THEN log ELSE Append(log, entry(h)))
        /\ torn' = FALSE /\ Resolve(h, TRUE)
        /\ sinks' = [sinks EXCEPT ![p].seq = n + 1]
    BY <1>7 DEF AppendEntry
  <2>2. PICK v \in {"proceed", "block", "ungoverned", "stopped"} :
           /\ pc' = [pc EXCEPT ![h] = "done"] /\ result' = [result EXCEPT ![h] = v]
           /\ v = "proceed" => resolution(h) = "proceeded"
           /\ resolution(h) = "proceeded" => Granted(h, v)
           /\ v = "ungoverned" <=> resolution(h) = "ungoverned"
    BY <1>1, <2>1, ResolveFacts
  <2> HIDE DEF n
  <2>3. /\ sinks' \in [Processes -> [seq : Nat \cup {None}, disabled : BOOLEAN]]
        /\ sinks'[p].seq = n + 1 /\ \A x \in Processes \ {p} : sinks'[x] = sinks[x]
        /\ \A x \in Processes : sinks'[x].disabled = sinks[x].disabled
    <3>1. /\ sinks'[p] = [sinks[p] EXCEPT !.seq = n + 1]
          /\ \A x \in Processes \ {p} : sinks'[x] = sinks[x]
          /\ DOMAIN sinks' = Processes /\ sinks' = [x \in Processes |-> sinks'[x]]
      BY <1>1, <2>1 DEF IInv, HostTypeOK
    <3>2. /\ sinks'[p] \in [seq : Nat \cup {None}, disabled : BOOLEAN]
          /\ sinks'[p].seq = n + 1 /\ sinks'[p].disabled = sinks[p].disabled
      BY <1>1, <1>2, <3>1
    <3>3. \A x \in Processes : sinks'[x] \in [seq : Nat \cup {None}, disabled : BOOLEAN]
      BY <3>1, <3>2 DEF IInv, HostTypeOK
    <3> QED BY <3>1, <3>2, <3>3
  <2>4. /\ log' \in Seq(Line) /\ Len(log') \in Nat /\ Len(log) <= Len(log')
        /\ \A i \in 1..Len(log') : \/ i \in 1..Len(log) /\ log'[i] = log[i]
                                   \/ i = Len(log) + 1 /\ log'[i] = entry(h)
        /\ deployment.plugin => Len(log') = Len(log) + 1
    BY <1>2, <1>3, <1>4, <2>1
  <2>5. HostTypeOK'
    BY <1>6, <2>1, <2>2, <2>3, <2>4 DEF IInv, HostTypeOK, wire, Result
  <2>6. StepInv(h)' /\ \A q \in Steps \ {h} : StepInv(q)'
    <3>1. CASE torn
      <4>1. ~Readable /\ log' = log
        BY <1>2, <2>1, <3>1 DEF Readable
      <4> QED BY <1>1, <1>6, <2>2, <4>1, EndKeeps
    <3>2. CASE ~torn
      BY <1>1, <1>4, <1>6, <2>1, <2>2, <3>2, EndKeeps
    <3> QED BY <3>1, <3>2
  <2>7. SinkInv'
    <3>1. \A i \in 1..Len(log') : log'[i].seq <= i
      <4> SUFFICES ASSUME NEW i \in 1..Len(log') PROVE log'[i].seq <= i
        OBVIOUS
      <4>1. CASE i = Len(log) + 1 /\ log'[i] = entry(h)
        BY <1>5, <4>1
      <4>2. CASE i \in 1..Len(log) /\ log'[i] = log[i]
        BY <4>2 DEF IInv, SinkInv
      <4> QED BY <2>4, <4>1, <4>2
    <3>2. \A x \in Processes : \/ sinks'[x].seq = None \/ sinks'[x].seq <= Len(log')
                               \/ ~deployment.plugin /\ x \in Steps /\ pc'[x] = "done"
      <4> SUFFICES ASSUME NEW x \in Processes
                   PROVE  \/ sinks'[x].seq = None \/ sinks'[x].seq <= Len(log')
                          \/ ~deployment.plugin /\ x \in Steps /\ pc'[x] = "done"
        OBVIOUS
      <4>1. CASE x = p /\ deployment.plugin
        BY <1>2, <1>3, <2>3, <2>4, <4>1
      <4>2. CASE x = p /\ ~deployment.plugin
        <5>1. x = h /\ pc'[h] = "done"
          BY <2>2, <4>2 DEF process, IInv, HostTypeOK
        <5> QED BY <4>2, <5>1
      <4>3. CASE x # p
        <5>1. sinks'[x] = sinks[x] /\ sinks[x].seq \in Nat \cup {None}
          BY <2>3, <4>3 DEF IInv, HostTypeOK
        <5>2. ~deployment.plugin /\ x \in Steps /\ pc[x] = "done" => pc'[x] = "done"
          BY <2>2, <4>3 DEF process, IInv, HostTypeOK
        <5>3. \/ sinks[x].seq = None \/ sinks[x].seq <= Len(log)
              \/ ~deployment.plugin /\ x \in Steps /\ pc[x] = "done"
          BY DEF IInv, SinkInv
        <5> QED BY <1>3, <2>4, <5>1, <5>2, <5>3, NoneIsNothing
      <4> QED BY <4>1, <4>2, <4>3
    <3>3. ASSUME NEW k \in Steps, pc'[k] = "append"
          PROVE  /\ ~sinks'[process(k)].disabled /\ sinks'[process(k)].seq # None
                 /\ \A q \in Steps \ {k} : process(q) = process(k) => pc'[q] # "append"
      <4>1. k # h /\ pc[k] = "append" /\ process(k) # p /\ process(k) \in Processes
        BY <1>2, <2>2, <3>3, ProcessFacts DEF IInv, HostTypeOK
      <4>2. \A q \in Steps : pc'[q] = "append" => pc[q] = "append"
        BY <2>2 DEF IInv, HostTypeOK
      <4> QED BY <2>3, <4>1, <4>2 DEF IInv, SinkInv
    <3> QED BY <1>2, <2>1, <3>1, <3>2, <3>3 DEF SinkInv, process
  <2> QED BY <2>5, <2>6, <2>7 DEF IInv
<1>8. CASE AppendFails(h)
  <2>1. /\ sinks' = [sinks EXCEPT ![p].disabled = TRUE] /\ Resolve(h, FALSE)
        /\ \/ log' = log /\ torn' = torn
           \/ deployment.tears /\ torn' = TRUE /\ log' = (IF torn THEN log ELSE Append(log, Garbage))
    BY <1>8 DEF AppendFails
  <2>2. PICK v \in {"proceed", "block", "ungoverned", "stopped"} :
           /\ pc' = [pc EXCEPT ![h] = "done"] /\ result' = [result EXCEPT ![h] = v]
           /\ v # "proceed"
           /\ v = "ungoverned" <=> resolution(h) = "ungoverned"
    BY <1>1, <2>1, ResolveFacts
  <2> HIDE DEF n
  <2>3. /\ sinks' \in [Processes -> [seq : Nat \cup {None}, disabled : BOOLEAN]]
        /\ sinks'[p].disabled /\ \A x \in Processes \ {p} : sinks'[x] = sinks[x]
        /\ \A x \in Processes : sinks'[x].seq = sinks[x].seq
    BY <1>1, <2>1 DEF IInv, HostTypeOK
  <2>4. Garbage \in Line /\ Garbage.step \notin Steps /\ Garbage.seq = 0
    BY NoneIsNothing DEF Line, Garbage
  <2>5. /\ log' \in Seq(Line) /\ Len(log') \in Nat /\ Len(log) <= Len(log')
        /\ \A i \in 1..Len(log') : log'[i].seq = 0 \/ (i \in 1..Len(log) /\ log'[i] = log[i])
    BY <1>3, <2>1, <2>4
  <2>6. HostTypeOK'
    <3>1. torn' \in BOOLEAN
      BY <1>2, <2>1
    <3> QED BY <1>6, <2>2, <2>3, <2>5, <3>1 DEF IInv, HostTypeOK, wire, Result
  <2>7. StepInv(h)' /\ \A q \in Steps \ {h} : StepInv(q)'
    BY <1>1, <1>6, <2>1, <2>2, <2>4, EndKeeps
  <2>8. SinkInv'
    <3>1. \A i \in 1..Len(log') : log'[i].seq <= i
      <4> SUFFICES ASSUME NEW i \in 1..Len(log') PROVE log'[i].seq <= i
        OBVIOUS
      <4>1. CASE log'[i].seq = 0
        BY <2>5, <4>1
      <4>2. CASE i \in 1..Len(log) /\ log'[i] = log[i]
        BY <4>2 DEF IInv, SinkInv
      <4> QED BY <2>5, <4>1, <4>2
    <3>2. \A x \in Processes : \/ sinks'[x].seq = None \/ sinks'[x].seq <= Len(log')
                               \/ ~deployment.plugin /\ x \in Steps /\ pc'[x] = "done"
      <4> SUFFICES ASSUME NEW x \in Processes, sinks'[x].seq # None, 
                          ~(~deployment.plugin /\ x \in Steps /\ pc'[x] = "done")
                   PROVE  sinks'[x].seq <= Len(log')
        OBVIOUS
      <4>1. sinks[x].seq \in Nat /\ sinks'[x].seq = sinks[x].seq
        BY <2>3 DEF IInv, HostTypeOK
      <4>2. ~deployment.plugin /\ x \in Steps => pc[x] # "done"
        BY <1>1, <2>2 DEF IInv, HostTypeOK
      <4>3. sinks[x].seq <= Len(log)
        BY <4>1, <4>2, NoneIsNothing DEF IInv, SinkInv
      <4> QED BY <1>3, <2>5, <4>1, <4>3
    <3>3. /\ torn' /\ deployment.plugin => sinks'[None].disabled
          /\ torn' => deployment.tears
      <4>1. deployment.plugin => p = None
        BY DEF process
      <4> QED BY <1>2, <2>1, <2>3, <4>1
    <3>4. ASSUME NEW k \in Steps, pc'[k] = "append"
          PROVE  /\ ~sinks'[process(k)].disabled /\ sinks'[process(k)].seq # None
                 /\ \A q \in Steps \ {k} : process(q) = process(k) => pc'[q] # "append"
      <4>1. k # h /\ pc[k] = "append" /\ process(k) # p /\ process(k) \in Processes
        BY <1>2, <2>2, <3>4, ProcessFacts DEF IInv, HostTypeOK
      <4>2. \A q \in Steps : pc'[q] = "append" => pc[q] = "append"
        BY <2>2 DEF IInv, HostTypeOK
      <4> QED BY <2>3, <4>1, <4>2 DEF IInv, SinkInv
    <3> QED BY <3>1, <3>2, <3>3, <3>4 DEF SinkInv, process
  <2> QED BY <2>6, <2>7, <2>8 DEF IInv
<1> QED BY <1>7, <1>8

LEMMA KilledKeeps ==
  ASSUME IInv, UNCHANGED deployment, NEW h \in Steps, Killed(h)
  PROVE  IInv'
<1>1. /\ StepInv(h) /\ pc[h] \notin {"idle", "done", "dead"} /\ pc'[h] = "dead"
      /\ \A q \in Steps \ {h} : pc'[q] = pc[q]
      /\ UNCHANGED <<stored, log, torn, sinks, event, config, offers, result, wire>>
  BY DEF IInv, HostTypeOK, Killed, Goto
<1>2. HostTypeOK'
  BY DEF IInv, HostTypeOK, Killed, Goto, wire
<1>3. StepInv(h)'
  <2>1. /\ timeoutMs(h)' = timeoutMs(h) /\ result'[h] = None
        /\ timeoutMs(h) \in Nat /\ elapsed[h] <= timeoutMs(h)
    BY <1>1, ConfigFacts DEF IInv, StepInv, ProgressInv, Before, timeoutMs
  <2>2. ProgressInv(h)' /\ OfferInv(h)' /\ LogInv(h)'
    BY <1>1, <2>1 DEF StepInv, ProgressInv, OfferInv, LogInv, Before, Asking, Recording, wire
  <2>3. AnswerInv(h)' /\ RepeatInv(h)'
    BY <1>1, <2>1, NoneIsNothing DEF StepInv, AnswerInv, RepeatInv, Before, Recording, wire
  <2> QED BY <2>2, <2>3 DEF StepInv
<1>4. SinkInv'
  BY <1>1, SinksKeep
<1>5. \A q \in Steps \ {h} : StepInv(q)'
  <2> SUFFICES ASSUME NEW q \in Steps \ {h} PROVE StepInv(q)'
    OBVIOUS
  <2>1. Same(q) /\ LogStep(q) /\ seen' = seen
    BY <1>1 DEF Same, LogStep, wire
  <2> QED BY <2>1, OthersKeep
<1> QED BY <1>2, <1>3, <1>4, <1>5 DEF IInv

-----------------------------------------------------------------------------
(* The theorems. *)

LEMMA InitIInv == Init => IInv
<1> SUFFICES ASSUME Init PROVE IInv
  OBVIOUS
<1>1. HostTypeOK
  <2>1. log \in Seq(Line) /\ torn \in BOOLEAN /\ stored \in Config \cup {None}
    BY OldLogAssumption DEF Init
  <2>12. deployment \in Deployment
    BY DeploymentsAssumption DEF Init
  <2>2. sinks \in [Processes -> [seq : Nat \cup {None}, disabled : BOOLEAN]]
    BY DEF Init
  <2>3. /\ pc \in [Steps -> {"idle", "hello", "build", "ask", "await", "audit", "append", "done", "dead"}]
        /\ event \in [Steps -> Event \cup {None}] /\ result \in [Steps -> Result \cup {None}]
        /\ config \in [Steps -> Config \cup {None}] /\ offers \in [Steps -> Config \cup {None}]
        /\ answer \in [Steps -> Answer \cup {None}]
    BY DEF Init
  <2>4. /\ seen \subseteq ({"request", "result"} \X Nat) \cup (Steps \X Nat)
        /\ asked \in [Steps -> 0..2] /\ repeat \in [Steps -> BOOLEAN]
        /\ elapsed \in [Steps -> Nat] /\ limit \in [Steps -> Nat]
    BY DEF Init
  <2> QED BY <2>1, <2>12, <2>2, <2>3, <2>4 DEF HostTypeOK
<1>2. SinkInv /\ deployment \in Deployments
  BY OldLogAssumption, NoneIsNothing DEF Init, SinkInv
<1>3. ASSUME NEW h \in Steps PROVE StepInv(h)
  <2>1. /\ pc[h] = "idle" /\ answer[h] = None /\ result[h] = None /\ elapsed[h] = 0
        /\ asked[h] = 0 /\ seen = {} /\ offers[h] = None
        /\ \A i \in 1..Len(log) : log[i].step # h
    BY OldLogAssumption, NoneIsNothing DEF Init
  <2>2. ProgressInv(h)
    BY <2>1, NoneIsNothing DEF ProgressInv, Before, Asking, Recording
  <2>3. AnswerInv(h)
    BY <2>1, NoneIsNothing DEF AnswerInv, Denied
  <2>4. RepeatInv(h) /\ OfferInv(h) /\ LogInv(h)
    BY <2>1 DEF RepeatInv, OfferInv, LogInv, Before, Recording
  <2> QED BY <2>2, <2>3, <2>4 DEF StepInv
<1> QED BY <1>1, <1>2, <1>3 DEF IInv

LEMMA NextKeeps ==
  ASSUME IInv, [Next]_vars
  PROVE  IInv'
<1>1. CASE UNCHANGED vars
  <2>1. HostTypeOK' /\ SinkInv' /\ deployment' \in Deployments
    BY <1>1 DEF IInv, HostTypeOK, SinkInv, process, vars, wire
  <2>2. ASSUME NEW q \in Steps PROVE StepInv(q)'
    <3>1. Same(q) /\ LogStep(q) /\ seen' = seen /\ deployment' = deployment
      BY <1>1 DEF vars, wire, Same, LogStep
    <3> QED BY <3>1, OthersKeep
  <2> QED BY <2>1, <2>2 DEF IInv
<1>2. CASE Next
  <2>1. PICK h \in Steps : Own(h) \/ Given(h)
    BY <1>2 DEF Next
  <2> deployment' = deployment
    BY <2>1 DEF Own, Given
  <2>2. CASE HelloFails(h) \/ \E hello \in Configs \cup {None} : negotiateSessionConfig(h, hello)
    BY <2>2, HandshakeKeeps
  <2>3. CASE \E e \in Events : Begin(h, e)
    BY <2>3, BeginKeeps
  <2>4. CASE \E a \in Decisions \cup Failures, t \in elapsed[h]..limit[h] : Answered(h, a, t)
    BY <2>4, AnsweredKeeps
  <2>5. CASE AppendEntry(h) \/ AppendFails(h)
    BY <2>5, AppendKeeps
  <2>6. CASE Build(h)
    BY <2>6, BuildKeeps
  <2>7. CASE Ask(h)
    BY <2>7, AskKeeps
  <2>8. CASE TimesOut(h)
    BY <2>8, TimesOutKeeps
  <2>9. CASE ReadLog(h)
    BY <2>9, ReadLogKeeps
  <2>10. CASE Killed(h)
    BY <2>10, KilledKeeps
  <2> QED BY <2>1, <2>2, <2>3, <2>4, <2>5, <2>6, <2>7, <2>8, <2>9, <2>10 DEF Own, Given
<1> QED BY <1>1, <1>2

\* Every step preserves what the theorems below rest on.
THEOREM HostIInv == Spec => []IInv
<1>1. IInv /\ [Next]_vars => IInv'
  BY NextKeeps
<1> QED BY InitIInv, <1>1, PTL DEF Spec

\* Type correctness: every value the actions assign stays in its type.
THEOREM HostTypeCorrect == Spec => []HostTypeOK
<1>1. IInv => HostTypeOK
  BY DEF IInv
<1> QED BY <1>1, HostIInv, PTL

\* A step proceeds because the decision that arrived permits it, or because its
\* posture does, no Guardian refused it, and the audit log says so (govern-step.ts,
\* applyFailurePosture); provided no process appends behind another's torn line.
THEOREM ProceedIsJustifiedHolds ==
  ASSUME \A d \in Deployments : d.tears => d.plugin
  PROVE  Spec => []ProceedIsJustified
<1>1. IInv => ProceedIsJustified
  BY DEF IInv, StepInv, AnswerInv, ProceedIsJustified, Readable
<1> QED BY <1>1, HostIInv, PTL

\* A decision that amounts to a deny when it arrives is expressed wherever the hook
\* can render a deny, since a step whose output could not be replaced is never asked
\* about; where it cannot, only the proceed posture lets the step run (govern-step.ts).
THEOREM DenyStandsHolds == Spec => []DenyStands
<1>1. IInv => DenyStands
  BY DEF IInv, StepInv, AnswerInv, DenyStands
<1> QED BY <1>1, HostIInv, PTL

\* An audit entry agrees with what became of its step, once that step has ended; a
\* step that was to proceed is stopped only where its hook cannot render an allow.
THEOREM AuditTellsTheTruthHolds == Spec => []AuditTellsTheTruth
<1>1. IInv => AuditTellsTheTruth
  BY DEF IInv, StepInv, LogInv, AuditTellsTheTruth
<1> QED BY <1>1, HostIInv, PTL

\* A step governs itself by the config its own handshake was answered with,
\* whatever other steps store (resolveSessionConfig).
THEOREM OfferedDenyHoldsAlways == Spec => []OfferedDenyHolds
<1>1. ASSUME IInv PROVE OfferedDenyHolds
  <2> SUFFICES ASSUME NEW h \in Steps, offers[h] # None, result[h] = "proceed", ~Permitted(h)
               PROVE  offers[h].on_decision_failure = "proceed"
    BY DEF OfferedDenyHolds
  <2>1. config[h] = offers[h] /\ posture(h) = "proceed"
    BY <1>1 DEF IInv, StepInv, OfferInv, AnswerInv
  <2> QED BY <2>1 DEF posture
<1> QED BY <1>1, HostIInv, PTL

\* A step that asks twice keeps to the one timeout it had (requestWithReplayRetry).
THEOREM StepKeepsItsTimeoutHolds == Spec => []StepKeepsItsTimeout
<1>1. IInv => StepKeepsItsTimeout
  BY DEF IInv, StepInv, ProgressInv, StepKeepsItsTimeout, Before
<1> QED BY <1>1, HostIInv, PTL

\* A replay is the last word on a step only when its time is up: the second
\* request has an id no Guardian has seen.
THEOREM ReplayIsNoBypassHolds == Spec => []ReplayIsNoBypass
<1>1. IInv => ReplayIsNoBypass
  BY DEF IInv, StepInv, RepeatInv, ReplayIsNoBypass, Recording
<1> QED BY <1>1, HostIInv, PTL

\* Asking twice neither outlives the step's timeout nor ends it early on a replay.
THEOREM RepeatKeepsToTheTimeoutHolds == Spec => []RepeatKeepsToTheTimeout
  BY StepKeepsItsTimeoutHolds, ReplayIsNoBypassHolds, PTL DEF RepeatKeepsToTheTimeout

\* No number in the log is ahead of its line, so that the next number is read off
\* the line count (highestSeqIn).
THEOREM NumbersWithinLog == Spec => []SeqWithinLog
<1>1. IInv => SeqWithinLog
  BY DEF IInv, SinkInv, SeqWithinLog
<1> QED BY <1>1, HostIInv, PTL

=============================================================================
