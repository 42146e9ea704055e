# Agent Control Standard: a TLA+ verification of its reference code

The repository has two implementations of the Agent Control Standard (ACS). The
TypeScript one (`reference-implementations/agt`) is a **Guardian**, an HTTP server
that decides the steps of an agent, with two **hosts** that ask it (a Claude Code hook
and an OpenCode plugin) and an **Inspector** that reads the logs. The Python one
(`adapters/src/acs`) is a **client** with adapters for Claude Code, Cursor and the
NeMo Agent Toolkit (NAT), and an example Guardian. This directory holds TLA+ modules
translated from that code, TLC configurations that check them on small instances, and
TLAPS proofs of what holds for every size.

In this text `agt/` is `reference-implementations/agt/` and `acs/` is
`adapters/src/acs/`. `PROJECT.json` maps each definition to the source lines it stands
for, and lists the components, runs, findings, hazards, mutants and theorems.

To run: `tlc -workers 2 -config MCHostStep.cfg MCHostStep`, and so on for each run in
the table below; `tlapm HostStep_proofs.tla`, and so on for each `_proofs` module.

## 1. The system

### 1.1 The TypeScript reference implementation

| Component | State | Operations | What makes it correct |
|---|---|---|---|
| Guardian: session-context store (`agt/packages/guardian/src/session-context-store.ts`) | a Map from session id to a hash chain, two id sets, an intent and IFC labels; the Map's insertion order is the eviction order | `append`, `setIntent`, `replaceIfcLabels`, reads; eviction to a cap | a retained chain is never missing an entry; eviction takes the session written longest ago and is reported; the lookup sets agree with the chain |
| Guardian: request handling (`server.ts`, `envelope-log-sink.ts`, `ifc-labels.ts`) | requests in flight, the envelope log with its disable-on-failure flag, the session-context log | a handler per HTTP request: read, validate, dispatch, examine, append, evaluate (**await**), map, persist labels, answer | never open on a failure; a finding is exact and on record; labels change only by a verdict of the session's own step |
| Guardian: verdict mapping (`map-verdict.ts`, `mapping.yaml`) | none | AGT verdict to ACS decision | what cannot be expressed fails, and failing is a deny |
| Guardian: trace export (`otel-trace-exporter.ts`, `otel-mapping.ts`, `audit-to-otlp.ts`, `otlp-file-exporter.ts`) | open spans, a queue per output, the shutdown promise | `begin`, `finish`, `end`, `shutdown`; the audit log converted to the same events | no span is lost or told twice; what the Guardian and the host each write of a step agrees |
| Host adapter: governed step (`agt/packages/host-adapter/src`) | the stored session config, the audit log, a sink per process | `governStep`: resolve the config, build, ask, ask again on a replay, carry out or apply the posture, audit | a step proceeds only on a decision or on a recorded posture; a deny that can be rendered stands; the log tells what happened |
| Host adapter: documents (`build-envelope.ts`, `modifications.ts`, `result-output.ts`, `render-decision.ts`) | none: the hookmap is loaded once | payload to envelope, decision to the host's output | the question shows what will happen; a refusal that can be rendered refuses, a withheld output is gone, a rewrite lands, or the step fails |
| Hosts (`agt/hosts/claude-code`, `agt/hosts/opencode`) | Claude Code: one process per hook over shared files; OpenCode: one process, memory store | translate the host's event and the answer | as above, with the host able to kill a hook |
| Inspector (`agt/packages/inspector/src`) | the last hash seen per session; offsets into three files | `checkSessionChainLink`; three tails | a break in a chain is shown, and only then; every whole line is shown once and in order |
| Others | agt-bridge, conformance suite, policies | | see section 7 |

The host negotiates (`handshake/hello`), then sends each step as JSON-RPC over HTTP. The
Guardian's handlers run on one event loop and share the store and the log; the only
await between a step's append and its answer is the policy engine. The hosts share
files only (Claude Code) or memory only (OpenCode). The Inspector shares nothing but
the log files, and the trace exporter observes the Guardian's handlers from within its
process.

### 1.2 The Python client and adapters

| Component | State | Operations | What makes it correct |
|---|---|---|---|
| Session startup (`acs/client/_handshake.py`, `_config.py`, `_outcome.py`) | per session: a record file, a startup record (claim or outcome), a lock file, an `.ended` marker | `open_session`, `discard_session`, `current_session_id`, `mark_session_ended` | one handshake answer, one `sessionStart`, one outcome, whatever hooks race, die or fail to write |
| Session state (`acs/client/_store.py`) | failure counts, recorded steps, turns | count, record, once | `sessionEnd` reports the failures |
| Exchange (`acs/client/_exchange.py`) | none | send, verify, classify, deadline | a step ends by its deadline |
| Claude Code adapter (`acs/integrations/claude_code/adapter.py`) | the files above | one process per hook event | nothing joins a sealed session |
| NAT middleware (`acs/integrations/nat/adapter.py`) | per session: decision, lock, `in_flight`, `ended`, `closed`, `input_refusal`, `failures`; a lane thread with a queue | `pre_invoke`, `post_invoke`, workflow callbacks, `close` | the Guardian is sent one session in order; a refused input holds; nothing waits for ever |
| Cursor adapter, example Guardian, installation | | | see section 7 |

### 1.3 What is hard

* **Interleaving around an await or an unlock**: two steps of one session at the policy
  engine (`server.ts:1043`); two hooks at an unlocked audit log (`audit-sink.ts:321`); a
  `SessionEnd` that removes the records a hook is about to read (`_handshake.py:86`).
* **Crashes**: a hook killed between claim and outcome, or while it holds the lock
  (`_handshake.py:136`); the Guardian restarted with steps in flight.
* **Partial failure**: a log append that fails half way, and the next process that appends
  behind the fragment; a record that cannot be written after the message it records went
  out; a failure that cannot be counted (`_store.py:164`).
* **Timeouts and retries**: an ask or a defer whose window closes; a replay refusal
  retried within the same timeout (`govern-step.ts:736`).
* **Limits**: the store's cap, with sessions evicted while their steps are in flight; a
  batch queue that is full.
* **Configuration that fails open**: a hookmap whose deny renders to nothing its host
  reads (`acs-plugin.ts:345`) or cannot be rendered at all (`render-decision.ts:112`), a
  mirror of a withheld output that is left in place.
* **Shutdown**: handlers that never return, exports that never end, a second signal.
* **Liveness**: the startup lock, the NAT lane's queue, the count of exchanges in flight,
  the tail's wake-up.

`PROJECT.json` "hazards" lists each at its line with the properties that cover it.

## 2. The modules

| Module | Models | Built on |
|---|---|---|
| `SessionContextStore` | the store, its log appender and the Inspector's CHAIN BREAK check | |
| `VerdictMapping` | `mapVerdict` under `mapping.yaml`, as operators | |
| `RequestIntake` | what a body becomes: capped, parsed, validated, dispatched, addressed, assembled; as operators | `SessionContextStore` |
| `GuardianSteps` | the request handlers, interleaved at the await, over the store | `RequestIntake`, `VerdictMapping` |
| `AcsSession` | abstract: what the Python client promises of one session | |
| `AdapterSession` | the Claude Code hook processes over the shared files | refines `AcsSession` |
| `HostStep` | a governed step on either TypeScript host | |
| `NatSession` | one session of the NAT middleware: calls, lane and `close()` as threads | |
| `Documents` | JSON documents, modifications and the replacement of an output, as operators | |
| `Hookmap` | a hookmap: every check when it is loaded, the payload it builds, the output it renders | `Documents` |
| `GovernedCall` | tool calls through a loaded hookmap on either host, from the hook's payload to what the host does | `Hookmap` |
| `LogTail` | an Inspector tail against the writers and managers of its file, its queue, generator and badge | |
| `TraceExport` | hosts, handlers, spans, two outputs, signals and shutdown; the audit log's conversion | |
| `*_proofs` | the theorems about the module they are named after | TLAPS |
| `MC*` | constants for TLC | |

Operators keep the names of the functions they translate (`append`, `examineStep`,
`open_session`'s helpers, `negotiateSessionConfig`, `_send_session_end` as `Drain` and
`ReadDecision`). Operators preceded by a comment "Mutant:" are faulty variants of the
next definition. They are no part of the specification: substituting one for its
original is how each property is shown to depend on the code.

### SessionContextStore and GuardianSteps

A hash commits to everything before it, so it is modelled as the sequence it commits
to. `order` is the JavaScript Map's insertion order; `ensure` is delete, set, evict.
`lastWrite`, `evictions`, `writes` and `restarts` are history. The session-context log
is a sequence of whole rows with a flag for a torn last line: a row appended behind a
fragment becomes one malformed line with it. The appender disables itself for the
life of the process at its first failure.

`RequestIntake` reads a body the way the handler does. A body is a record of what the
code branches on: its declared and actual length against the cap, whether it parses, its
method, its JSON-RPC id (absent, empty or usable), whether it names a `request_id`, what the
general schema and the payload schema say of it, its tool and arguments. From these
`handleAcsRequest` computes the kind of request it is, `asDecisionResponse` whether a
refusal can be addressed, and `assembles` whether the request gate's snapshot can be built.
`GuardianSteps` takes every body through these operators. `ArriveOther` is a whole handler that never
awaits the policy engine. A valid step is `ArriveStep`, everything up to the await, and then
`Settle` (the bridge returned) or `Fail` (it threw). Rows are written to the envelope
log in the order of the code (`Writes`), and the sink may stop in between, behind a whole
row or behind a fragment of one. A fragment has no newline, so the first row the next
process writes shares its line and can be read no more than the fragment; `glued` keeps
those rows. `Crash` is the process ending with requests in flight, between two of a
handler's actions: a handler's own synchronous stretch is one action. The bridge may also
never answer, and the request stays in flight.

### AdapterSession and AcsSession

One action is one step on a shared file, or an arrival at the Guardian, or the return of
an answer. A request may reach the Guardian or not, and the exchange may in both cases
end with any answer or none. `os.link` (`store_first`, the claim) keeps the first file;
`os.replace` (the outcome) overwrites. The startup lock is `flock` on an **inode**, so
that a lock file removed by a `SessionEnd` and made again is a different lock; `lockfile`, `inodes` and
`fd` are there for that. A host session is a row of generations (`Gens`): each
`SessionEnd` ends one. `Killed` may strike at any control point and releases the lock.

`AcsSession` states what this machinery is for with four variables and four actions
(`Negotiate`, `Attempt`, `Conclude`, `Send`). `KeepsTheSession` maps each generation to it
until a `SessionEnd` removes its records:
the record file is the answer, the existence of the startup record is the attempt, its
content, once it is not the claim, is the outcome.

`Unwritable` names the writes that may be refused: the ended marker, the lock file, the
record, the claim, the outcome, and the session state with its failure counts. A count
that is refused is swallowed (`_store.py:89-90`, `:164-168`) and the hook goes on as if it
had counted; `missed` is the history of such a count of a failed start.

### HostStep

A behaviour begins with one of the `Deployments`: `plugin` is OpenCode (one process, one
sink, a memory store) rather than Claude Code (a process per hook, a file store whose
`set` may fail, hooks that may be killed), and `tears` says whether a failed append may
leave a part of its line. Events are reduced to what `governStep` branches on: the gate,
whether the hookmap has an entry, whether the tool is governed, whether the envelope can be
built, whether the output can be replaced, the call id, and which decisions the entry
can render, for what the Guardian sends (`renders`) and for what the posture answers
(`answers`). The last two are free for every entry: `loadHookmap` requires an allow and a
deny and looks at the shape of their fields, while `place` throws on their paths. Time is
a small integer per step, counted from its start; the answer arrives at any time up to the
limit. Reading the highest number from the audit log and appending the entry are two
actions, because another process may append in between.

### NatSession

Threads are the calls, the lane and `close()`; the event loop's callbacks (`RunnerStarts`,
`RunnerReturns`, `RunnerStops`) are actions of their own. One action is what a thread does
under one lock or between two waits. `Begin` either goes on at once or enqueues the call
behind the lifecycle hooks queued so far (`_step_of`). `Open` takes the session's lock and
keeps it over hello and `sessionStart`. `Exchange` and `Returns` keep the count in flight,
for which `Drain` waits. An exception in a hook is folded into the outcome the code gives
it (undecided or refused); an applied modification is an allow; a request that cannot be
signed or addressed is `unsent`.

### Documents, Hookmap and GovernedCall

A document is the function from the paths of its leaves to its leaves, so that setting,
redacting and merging are set operations on paths; empty objects and the order of keys
are not told apart, and a leaf that is an array is one leaf. `Throws` is the result of a
function that throws, `Absent` a field that is undefined or null, `IllTyped` one of the
wrong type. `Documents` has `applyModifications` with its checks in order
(well-formed, targets present, targets disjoint, something changed) and
`withResultOutput` with what withholds, patches and mirrors. `Hookmap` has `loadHookmap`,
both hosts' own gates (`assertOpenCodeAccepts`, `assertClaudeCodeAccepts`), `buildPayload`
and `renderDecision`.

`GovernedCall` runs calls through them. A behaviour begins with any hookmap of `Hookmaps`
that its host *accepts*, so each property quantifies over everything that can be loaded:
a weakened gate shows as a call that goes wrong. `arrived` keeps the decision that arrived
beside the one the step ended with, which is the posture's where the first could not be
rendered. `Fire` is a hook up to its question,
`Answered` the decision resolved, rendered and acted on, `Unanswered` a step without a
decision (`byPosture`), `AskAgain` the repeat after a replay refusal with ids of its own,
`Repeat` the host calling once more for a call that got no decision. Claude Code is
external: `claudeCodeReads` says which fields of the printed output it obeys. Time,
audit and stored config are `HostStep`'s. The id of a call that repeats within a session
derives to the same request id; hashing is an injection.

### LogTail

A line reaches the file in two pieces, so that a poll can land inside it, and offsets
count pieces. A poll is three actions (look, take the size, read), because the file may
change between any two of them; the drain of the queue and an abort never interrupt a
poll. `tracksAbsence` tells the audit and session-context tails, which look for the file
first, from the envelope tail, whose `sizeOf` takes a missing file for an empty one.
`stale` and `raced` are history: the file was replaced behind the tail's back (a
truncation or recreation that a size alone cannot show), or between the size and the read
of one poll. The properties except exactly those.

### TraceExport

Each request has a host that waits for it, times out or cannot reach the Guardian, and
writes its audit entry. A request can be a step, rejected, a fault of the Guardian or
none of these, and claims the ids of a step, its own or another's. `Answer` ends the
handler and its span. An output's `queue` is the queue and the batch in flight of the
SDK's processor, which is external; `Fail` and `Abandon` are an export that fails or takes
longer than the export timeout. `Abandon` counts the spans as dropped; that an abandoned
batch may still be written later is not modelled. `Signal` starts a close, `Close` waits for the handlers
or the deadline, `Shutdown` ends the open spans as failures and asks the outputs to flush,
`Exit` ends the process. One `Timeout` stands for the negotiated timeout of all methods. An output that
could not be constructed is dead from the start. `ReplayRefused` belongs to a Guardian
that keeps replays, which this one does not. Signals are handled only if an output
is configured (`main.ts:86`).

## 3. What TLC checks

Every property has a mutant of the mapped code that violates it, under the same
configuration.

| Run (`.cfg`) | Question |
|---|---|
| `session_store` (MCSessionContextStore) | 3 sessions, cap 2, 5 writes, 1 restart, a log that may fail or tear. `ChainEntire`: a retained chain has no missing front, middle or link. `EvictsOnlyTheIdle`. `BreaksAreExact`: no more CHAIN BREAK rows than evictions and restarts, and a row that is not a break is the successor of the row shown before, so a session that starts over is never shown as a continuation. |
| `guardian_steps` (MCGuardianSteps) | 2 requests of every kind, 2 sessions, cap 1, so that a session is evicted while its step is in flight, and 1 crash. `StepsAreOnRecord`: every step taken is on the chain; its rows follow its request's in the envelope log; its findings are readable there, or on stderr once the log refuses a row; and no more rows than restarts share a line with a fragment. Findings are exact however handlers overlap (`FindingsAreExact`); only a verdict permits (`OnlyVerdictsPermit`); labels move only with a verdict of the session's own step (`LabelsMoveWithVerdicts`); and the handlers implement `StoreSpec`. |
| `labels_lost` (MCGuardianLabels) | **violation**: `LabelsComeBack`. |
| `adapter_session` (MCAdapterSession) | 2 hooks, six events that differ in hook, posture, required profile and handshake setting, five handshake answers, every write of `Unwritable` refused, kills anywhere, 2 generations. `StartIsOnceAndFirst`: one `sessionStart`, and nothing but steps after a step. `StartOutcomeBinds`: a refused or failed start binds every later hook under its own posture. `SealedIsMarked`: a session whose `sessionEnd` was received is marked. `StartFailureCounted`: a failed start is in the count before its `sessionEnd` goes out, unless the file system refused the count. `HooksEnd`, and the refinement `KeepsTheSession`. |
| `host_steps` (MCHostStep) | Claude Code: one hook of any event, answer, time and posture beside a second that asks about a tool call. OpenCode: two steps in one process over an earlier log, with torn lines. Entries that cannot render the deny, the allow, or either. `ProceedIsJustified`: a step proceeds on a decision or on a posture with its entry. `DenyStands`: an arriving deny is set aside only by an entry that cannot render it and a posture that proceeds. `AuditTellsTheTruth`: the entry agrees with what the host was told, or says proceeded of a step that was stopped because the posture's allow cannot be rendered. `OfferedDenyHolds`, `RepeatKeepsToTheTimeout`. `StepsEnd`: every step ends, whatever the Guardian does. |
| `host_deny` (MCHostDeny) | **violation**: `ArrivingDenyIsHonoured`. |
| `host_torn` (MCHostTorn) | **violation**: `ProceedIsJustified` with torn lines between processes. |
| `nat_session` (MCNatSession) | A Runner's session, a stream's and the middleware's own, 2 calls. `SentAsOneSession`: hello first, `sessionStart` second if at all, `sessionEnd` last and only when nothing is in flight. `RefusedInputHolds`, `LateCallsAreRefused`, `NatEnds`. |
| `log_tail` (MCLogTail) | 3 lines, 2 faults, either kind of tail. `EachLineOnceInOrder`: what was taken is the parse of the file from where the tail began, and nothing is shown twice or out of order. `ReportsAreFew`: one report per incident. `BadgeIsWhatWasShown`, `LinesAreShown`, `TailEnds`. |
| `governed_call` (MCGovernedCall) | Each host's hookmap as shipped, and some thirty with one thing of it changed; every kind of payload, output, decision and modification for one call, and two calls of different sessions with one call id, lost and repeated. `RefusedStepsDoNotRun`: neither a step that ends in a refusal runs, nor one whose Guardian sent one, unless no output can be made of it and the posture proceeds. `WithheldIsGone`, `ModifyLands`, `AllowedIsWhatWasShown`, `ResultCitesItsRequest`. |
| `opencode_merge` (MCOpenCodeMerge) | **violation**: `ModifyLands` when an argument that is an object is overridden. |
| `trace_export` (MCTraceExport) | 2 requests, one of which may claim the other's ids, with one output and one signal; 1 request with two outputs and both signals. `TraceAgreesWithTheHost`: a step's ids are on its own span only, and neither the trace nor the converted audit log calls a step failed whose host acted on the decision. `NothingIsLostAtExit`: what the process took is in every working output, once, in order, and marked undecided if its host took it so. `CloseEnds`: a signal ends the process. |

### What the violations show

* `labels_lost`: `agt/README.md:447` says the labels AGT emits at one step come back as
  the input of the next. A handler reads the labels before it awaits the engine and
  replaces them after (`server.ts:1038-1049`), so of two overlapping steps the one
  answered last wins, and the next step is not given what its predecessor was answered.
* `host_torn`: `agt/README.md:468` says a proceed that cannot be audited is a block. The
  appender does not look at how the file ends: the entry of the next process joins a torn
  line, `write` returns true and the step proceeds with no readable entry.
* `host_deny`: `build-envelope.ts:301-304` says that every entry `loadHookmap` accepted is
  renderable, `govern-step.ts:761` that no posture may touch a step whose decision arrived,
  and `acs-hook.ts:59-60` that a deny that arrives is honoured regardless. But
  `assertRenderableDecisions` checks only that a field has a `value` or a `from`, and
  `place` (`render-decision.ts:112-137`) throws on an empty or reserved segment, on one
  path under another and on a path declared twice. A hook with such a deny loads, its deny
  arrives, and the posture answers: by default the step proceeds. The same holds of the
  other half of the claim, that the posture's own allow and deny always render
  (`govern-step.ts:607-614`, `acs-hook.ts:66-71`): an allow that does not is audited as
  proceeded, and then its step is stopped. No shipped hookmap has such a rule.
* `opencode_merge`: `agt/README.md:445` says a `transform` lands as the host's actual
  rewritten argument. The adapter computes it, the step is reported honoured, and the
  plugin merges it field by field into the live arguments (`apply-opencode-output.ts:193`),
  where a field the rewrite removed from a nested object survives and the tool runs
  with it. Arguments that are plain strings, as the shipped hookmap's are, are not affected.

Three more disagreements came up while modelling. No run stands for them, and the
properties and theorems are stated so that they hold beside them:

* `adapters/docs/claude_code/mapping.md:9` says `sessionStart` is sent once and nothing is
  sent into an ended session. A hook that looked its session up before a `SessionEnd`
  marked it (`adapter.py:673`) finds the records gone (`_handshake.py:86`) and starts it
  again; hence `~discarded[g]` in the statements about `AdapterSession`.
* `audit-sink.ts:52` says gaps mean lost writes. Three hooks that lose nothing can leave
  entries 1, 1, 3, since each reads the highest number and then appends without a lock.
* `adapters/docs/nat/mapping.md:36` says the `sessionEnd` reports a `sessionStart` that got
  no decision. `_send_session_end` reads the count (`adapter.py:883`) before it waits for
  the lock under which that start may still fail.

## 4. Bounds, and why they are enough

* **Two actors** where the hazard is a race between two (hooks, steps, calls), three where
  it takes three (`labels_lost`: the two that overlap and the next). The theorems of section 6 cover any number.
* `MaxSessions` is 2 with 3 sessions (an eviction leaves a survivor to compare with), and
  1 with 2 sessions (every interleaved step of the other session evicts). `MaxWrites` 5
  allows a session to be written, evicted, born again and written twice. `MaxRestarts` 1
  is one crash with state on both sides of it.
* `MaxGen` bounds the ACS sessions of a host session: 1 is one that ends and the next. A
  hook that would need one more cannot begin: a bound of the model, not of the code. An
  action constraint (`EndsArePlain`) lets the first hook only be a `SessionEnd`, beside a
  plain step under one Guardian; steps beside steps are unconstrained.
* `Unwritable` is all six writes in the passing run.
* In `HostStep` a timeout is 1 or 2, a window 1 and an answer comes at 0..2: before,
  at and after the closing of a window, with the second request's limit distinct from a
  fresh one. An action constraint (`SecondIsPlain`) keeps the second step of `host_steps`
  to a tool call that gets no decision: it can still store its config, take a request id,
  append between the other's read and append, and leave a torn line. The first step gets
  every decision at a gate that renders most of them, and allow and deny elsewhere; the
  plugin's are a governed tool, another and one with a mute deny. The theorems have no such
  constraint.
* `EarlierLog` starts with an entry and a malformed line, so that the number and the line
  count differ in origin.
* `LogTail`: three lines, so that one is shown, one taken and one half written; two faults,
  so that a truncation follows a recreation or an unreadable spell. The kinds of lines
  are one of each that the parser, the badge or the reporter treats differently.
* `GovernedCall`: one change to the hookmap at a time, since each check concerns one entry;
  payloads with a flat and a nested argument, without a session id, outputs with and
  without their mirror, with the secret repeated elsewhere, of another type. The second
  call (`SecondIsPlain`) exists to share a call id and the Guardian's memory, and follows
  shipped hookmaps with allowed or unanswered steps. `MaxFresh` 8 is more random ids than
  two calls can draw without repeats.
* `TraceExport`: timeouts of 1 tick distinguish before, at and after; a queue of 1 is full
  with the second span. The two `Scenarios` are the two questions; all of it at once (2
  requests, 2 outputs, 2 signals, 13 million states) was checked for safety and held.
* Symmetry is used on hooks, requests and sessions in runs without liveness only. `labels_lost`
  and `nat_session` use a VIEW. `StepView` drops the logs and write times. `uncounted` drops the counts
  of failures and keeps of `sent` only whether it is empty, whether its length is one and
  whether it ends in a `sessionEnd`. Both keep what every guard and every property of
  their run reads: the order in `sent` is checked as each request is added.
* Deadlock is not checked: in each of these systems everything may come to rest (all
  requests answered, all hooks ended, the bound on writes spent). That nothing stops
  before it should is what the liveness properties say.

## 5. Fairness

| Module | Assumed | Because |
|---|---|---|
| `AdapterSession` | WF of each hook's own steps | a live process runs, its exchanges end at their timeouts, and the kernel gives a free lock to one of finitely many waiters, each of which takes it once; the host need not start or kill anything |
| `HostStep` | WF of a step's own actions and timers (`Own`) | the process runs and its abort signals fire; the Guardian need never answer |
| `NatSession` | WF of the lane, of each call's own actions, and of `close()` once called | threads run and requests time out; nobody has to start a run, make a call, stop a run or call `close()` |
| `LogTail` | WF of a poll's steps and of the drain | the interval timer fires and the generator is resumed; nobody has to write, abort or repair the file |
| `TraceExport` | WF of the clock, of each host's time-out, of `Flushed` and of each `Close` | timers go off and the event loop turns; nothing is assumed of the policy engine, the network or the outputs |

`GovernedCall` has no liveness: what must end there is `HostStep`'s step. Nor has
`GuardianSteps`: a policy engine that never returns leaves its handler open
(`server.ts:482-485`), and what bounds a step is its host's timeout. What the Guardian
itself must bring to an end is its shutdown, `CloseEnds` in `TraceExport`.

## 6. What is proved

All theorems hold for every value of the constants that satisfies the named assumptions
of the module.

| Module | Theorems |
|---|---|
| `SessionContextStore_proofs` | `StoreTypeCorrect`, `RetainedChainIsEntire`, `IdSetsAgree`, `OrderTracksWrites`, `EvictionIsByRecency`, `UnbrokenRowsContinue`, `BreaksAreExactHolds` |
| `GuardianSteps_proofs` | `GuardianImplementsStore`, `GuardianKeepsChainsEntire`, `GuardianFailsClosed`, `StepsTypeCorrect`, `FindingsAreExactHolds`, `StepsAreOnTheChain`, `StepsAreOnRecordHolds`, `LabelsMoveOnlyWithVerdicts` |
| `AdapterSession_proofs` | `AdapterTypeCorrect`, `StartIsOnceAndFirstHolds` (from `StartSentOnceHolds` and `StepsComeLastHolds`), `RecordsStandHolds`, `StartupLockExcludes`, `SealedIsMarkedHolds`, `KeepsTheSessionHolds`, `StartOutcomeBindsHolds`, `StartFailureCountedHolds` |
| `HostStep_proofs` | `HostTypeCorrect`, `ProceedIsJustifiedHolds`, `DenyStandsHolds`, `AuditTellsTheTruthHolds`, `OfferedDenyHoldsAlways`, `RepeatKeepsToTheTimeoutHolds` (from `StepKeepsItsTimeoutHolds` and `ReplayIsNoBypassHolds`), `NumbersWithinLog` |
| `NatSession_proofs` | `NatTypeCorrect`, `SentAsOneSessionHolds`, `RefusedInputHoldsAlways`, `LateCallsAreRefusedHolds` |
| `LogTail_proofs` | `EachLineOnceInOrderHolds` (with `TakenExactlyHolds`), `ReportsAreFewHolds`, `BadgeHolds` |
| `TraceExport_proofs` | `TraceTypeOKHolds`, `TraceAgreesHolds`, `NothingIsLostHolds` |
| `GovernedCall_proofs` | `CallTypeOKHolds`, `ResultCitesItsRequestHolds`, `RefusedStepsDoNotRunHolds`, `WithheldIsGoneHolds`, `AllowedIsWhatWasShownHolds`, `ModifyLandsHolds` (with `OutputsLandHolds` and `ArgumentsLandOnClaudeCode`, which need less) |

**The store.** The inductive invariant `IInv` adds two things to the types: every
retained state is good (its chain is entire and its id sets are those of the chain), and
the order is the order of `lastWrite`, none of which lies in the future. The second is
what makes eviction by position eviction by age: without `lastWrite[s] <= writes` the
session just written could not be shown to be the youngest.

What a hash is worth is `HistoryInv`: the hash an entry continues is as long as the chain
before it and records the very steps of that chain (`Commits`). So equal hashes are equal
histories, and a row the Inspector does not flag is numbered next after the row shown
before it (`UnbrokenRowsContinue`). That the flags are no more than the evictions and
restarts is `BreakInv`: a session whose last row is not the tip of its chain still *owes*
a break, and has one more loss to its account than it has shown breaks. A torn last line
needs a conjunct of its own: the appender that left it is disabled, so when an appender
that works comes upon one, every chain is still empty.

**The Guardian.** `FlightInv` says that a request in flight is a valid step. From it
every handler's effect on the store is one store operation or none (`NextIsStoreStep`),
so `Spec => StoreSpec`, and the store's theorems hold of the Guardian under any
interleaving. That nothing but a verdict permits is the same invariant's last conjunct.
For the findings, `EntryInv` says of each entry taken that they are exact against the
history in its own `prev_hash`, which no later step can change; where the entry is on
the chain, `HistoryInv` turns that history into the chain in front of it. `LogInv` says
that while the envelope log still takes rows, a request being evaluated has its row in
it; it is what puts a finding's row behind its request's. `GlueInv` counts the rows that
share a line with a fragment: a process loses at most the first it writes, which is a
request's or a response's and never a finding's, and as long as it may still lose it there
is a restart to spare. `LabelsMoveOnlyWithVerdicts` is an
action property: of all the steps only the arrival of a verdict writes labels, and it
writes those of its own session.
Assumed besides: `Steps` is every step there is (`AllStepsAssumption`).

**The adapter.** Until a `SessionEnd` begins to remove a session's records, its lock file
names one inode: every hook at `flock` or in the critical section holds it, and at most
one is inside (`LockHeldOnce`). So what a hook learned of the records under the lock is
still true at its control point (`RecordsKnown`): no handshake record while it sends a
hello, one by the time it reads the startup record, a claim without an outcome while it
sends the start, an outcome when it sends its step. And what has arrived at the Guardian
agrees with the records (`ArrivalsKnown`): no `sessionStart` before a claim and at most
one after, no step before an outcome, steps last. None of these is inductive without the other two. That the hooks implement
`AcsSession` rests on the same invariant and on `Relied`: a hook that is about to claim
the start relies on an answer that was negotiated, one that is about to send a step on
such an outcome. Every action then changes a generation in one of a few ways
(`Changes`), and each of these is a step of `AcsSession` or leaves it alone
(`ChangesImplement`), for any number of hooks. `~discarded[g]` is in each statement because of the first of the disagreements in section 3.

What binds a later hook is the same argument carried into the records themselves.
`Ledger` says what can be on record of a session: an outcome only after a negotiated
answer, no step received after a refused start, and an outcome that failed for a reason
that is reported only if the failure was counted or its count refused. `Bound` says what a hook with a given
decision may then do: it sends, or its host proceeds, only by a decision whose posture
and profiles let it. Neither is inductive alone, since a hook's decision is what it read
of the ledger and the ledger is what hooks wrote of their decisions. `SealedIsMarked`
needs only that a session's records are removed by the `SessionEnd` that marked it, and
that a step is one hook's (`OneHookMoves`). For `StartFailureCounted` a failed start is
`Reckoned`: counted, or its count was refused.

**The host.** `StepInv` relates a step's control point to its answer, its elapsed time,
its event and the log; `SinkInv` relates the sinks to the log: the sink of a process
that is appending is up, a torn line in a single process disables the only sink, and a
number is ahead of its line only if its entry was lost behind another's fragment, in a
process that writes no more. Only `ProceedIsJustifiedHolds` assumes
something of the deployments, that only a single process tears lines
(`\A d \in Deployments : d.tears => d.plugin`); `host_torn` is the counterexample without
it. `DenyStandsHolds` and `AuditTellsTheTruthHolds` assume nothing of what an entry can
render.

**The NAT session.** Seven facts are inductive together. The session's lock excludes
every step past opening while a decision is being made (`LockInv`), so a hello is sent
only when nothing was, and a decision once followed stands. A closed session's lane is
sending the `sessionEnd` or is finished (`LaneInv`), its queue holds nothing but waiting
calls (`QueueInv`), and nothing joins what is in flight (`FlightInv`); `SentInv` follows
from these. `CallInv` says what a late hook can be doing. `InputInv` is the argument for
refused input: while the input is queued or being sent every call waits behind it in the
queue, so none has a tool running when the answer comes. That the calls are finitely many
and none is named like a method is assumed (`CallsAssumption`).

**The log tail.** The first half is about parsing and has no state in it. An entry's
number is its rank among the ends of lines; ranks are bounded, have an inverse (`nth`)
and enumerate (`RankBounds`, `NthInverts`, `Enumerates`, each by the least
counterexample, `LeastOf`). From these, what a tail parses of a text to which more is
appended is what it parsed of the first part, followed by what it parses of the
unfinished line with the rest (`LinesGoOn`, `ParsedGoesOn`): the fact a poll that keeps
its remainder relies on. The second half is three invariants. `TakenInv` says that unless
the file was replaced unnoticed, what the tail read is the file from where it began, up
to its offset, and what it took is the parse of that. `OrderInv` relates that to what was
shown: what is queued comes after what was shown and before what is still to be read, in
the order of the lines. `ReportsInv` gives each report a removal or an incident of its
own: the report not yet made is owed by a fault that has not been reported.

**The trace.** A request that was taken has exactly one span, open or ended (`Opened`,
`Spanned`), since a span is ended by the handle it was opened with. That no failure is on
the span of a decision the host acted on is a race of two clocks: a handler's clock
starts after its host's, so as long as the host still waits the handler is not late
(`Handlers`), and a decision that was on its way when the host took it is on a span that
says decided and nothing else (`Honoured`). An answer is on its way only if the Guardian
was not closing, and so its exporter had not stopped (`Closing`). For the exit, `Batched`
says of each output that has not failed that what it wrote and what it has queued are,
together, the spans that ended and were not dropped, once each and in order (`carries`);
pushing more spans than there is room for, writing a batch and abandoning one each keep
that (`CarriesOn`, `CarriesLess`). Assumed besides: `None` is neither a request nor an
answer.

**The governed call.** `TypeInv` adds to the types that a step at the result gate is one
of a call that ran (`ResultsFollowRuns`): without it a `Repeat`, which takes back a refused
request, could take back one that has a result. `Traced` and `Numbered` say which ids were
sent: every message on the wire came from a payload of its call, with an id hashed from
what identifies that call or drawn before now, and a question that carries no derived id is
one whose derived id the Guardian has already. A hook that waits could build its envelope
again (`Rebuildable`); with `OneIdentity`, that is what shows that the repeat after a
replay refusal gives up a derived id only when that id is on record.

That a refusal does not run is an argument about documents. A path is a sequence of names
and a document a prefix-free function on paths; what `resolve` and `setAtPath` leave is
again a document, whose leaves `ResolveIs` and `SetAtPathIs` name. Both folds of the
model (`setAll`, `renderDecision`) are the last of a sequence of documents each made from
the one before (`FoldedRuns`), which turns what they compute into an invariant over
their length (`SetAllIsDocument`, `Rendered`: every literal a rule declares is in the
output, where it was declared, or the rendering threw). So an unconditional `refuse` or
a permission that is `deny` or `ask` is still there when the host reads the output, whatever else
the rule places (`RefusalIsRefused`). Of the decision a step *ends* with that is all, and
the invariant needs no more of the interleaving than that a host's payload is a document.
Of the decision that *arrived* it is not: where its rendering throws, the step ends with
the posture, and `ArrivedRefusals` says what is left, that the tool then runs only if the
posture is to proceed (a hook of the request gate has no `outputs` that could change the
decision on its way: `DeployedShows`). It also says that nothing has arrived for a step that is not over
or got no decision, without which a `Repeat` could answer an older refusal.

That a withheld output is gone is the same argument at the other gate, with two more
steps. `OutputIsReplaced` follows the writes of `replacingOutput` one by one: each puts the
notice in a leaf and leaves the paths of the document as they were, so that what is left is
the tool's own output with the leaf and its mirrors replaced (`OutputIsMasked`). `SinkHoldsField` shows that
the host finds exactly this document where its rule declares the output: a field placed
after another one never lands where the other has left something (`fieldsPlaced`), so
nothing is added to the output and nothing takes its place. OpenCode's merge of a document
into one of the same fields is that document (`MergeReplaces`), and Claude Code's test of
the shape passes since no leaf changed its type. One invariant, `SettledInv`, says of both
gates what the refusal a step ended with came to. The first attempt at this proof failed on an output
that reads as the notice itself, of which the property as it stood claimed that it had
disappeared; it now speaks of the fields that do not hold the notice.

That what was allowed is what was shown joins the two halves of a call. While a hook waits,
its envelope says of the payload it was handed what `buildPayload` reads there (`Shown`),
also when the question is asked again, since the payload is kept and the envelope built
from it (`Rebuildable`, `BuiltShows`). When an allow is rendered, nothing lands where
the host looks for a replacement (`SinkIsEmpty`), so the host acts on its own object
(`AllowLeavesAlone`); and the hookmap read the step from that object, or from a leaf of it
(`DeployedShows`, `ResolveTwice`).

That a modify lands is those arguments put in a row, with one about modifications first.
The edits of a modify that passes `assertValidModifications` are prefix-free
(`EditsAre`: redactions against redactions, overrides and redactions, and the keys of the
overrides, which are handed out in an order of their own, once each: `KeysAre`). So no
edit undoes another: after the first `k` each of them still reads back and no other path
has changed (`SetAllEdits`), and the document that `applyModifications` returns is the one
that was asked for (`AppliedIs`). At the request gate that document is what the host finds
(`ModifyReaches`); Claude Code takes it whole, OpenCode merges it into the live arguments,
which comes to the same if nothing is left behind (`MergesAll`). At the result gate only
the output's leaf may have changed, so the document is the old one with that leaf put in
(`ProjectedIs`), and the new leaf, a string like the old one, goes where a withheld notice
would go (`OutputIsReplaced`). `LandsInv` adds to the invariant of the allowed step that a
hook that waits at the result gate has an output that can be replaced (`Replaceable`),
which was tested when it asked: the output took the withheld notice then, so it is a
string, and what takes its place must be one too. Without it the invariant is not
inductive: a replacement that is an object would move the paths of the output.

`ModifyLandsHolds` has a hypothesis, `MergesWhole`: no modification replaces an object of
OpenCode's arguments by one that lacks a field of it. That is not an assumption about the
code but the very thing `opencode_merge` violates it by. The two halves that need no such
hypothesis are theorems of their own: outputs on both hosts, and arguments on Claude Code.
TLC checks `MergesWhole` of the documents of `governed_call` (`OneChangedAssumption`).

Its assumptions are about what is given to the model: `DeploymentAssumption`, that the
paths and literals of a hookmap that loads are of their types; `DecisionAssumption` and
`PayloadAssumption`, that decisions and payloads are documents, and that the payloads of
one call have one identity at both hooks and different calls different ones, which is what
a host's call id and session id are for. `NameAssumption` says that the field names a
proof meets are strings, which the provers cannot see. TLC evaluates all of them on the
run. Some things are assumed of a hookmap that its gate does not check. Claude Code's gate
(`acs-hook.ts:214-230`) asks that the permission of every decision be `allow`, `deny` or
`ask`, so a hookmap that declares `allow` for `deny` loads, and runs what it should
refuse. And at the result gate it asks that a rule that withholds declare
`updatedToolOutput` (`acs-hook.ts:266-292`), not that it be read from `applied_output`, and
not that the output be patched into `tool_response`; neither gate refuses a rule that also writes a
field of its own inside the output (`WithholdingAssumption`). `ShowingAssumption` is of the
same kind: OpenCode's gate fixes the paths a step is read from and Claude Code's does not,
so there the tool's name and arguments must be read from `tool_name` and `tool_input`;
and neither gate looks at the rule of an allow, which must write nothing in the place of a
replacement. `RewritingAssumption` is the same for a modify: neither gate refuses a rule
that writes a field of its own inside the rewritten document, and Claude Code's does not
look at the rule of a modify, which must be read from `applied_input` or `applied_output`
and placed where Claude Code looks. The shipped hookmaps do none of this. `ArgumentsAssumption` says of a host that
the arguments of a tool are an object; others are shown to the Guardian as an empty one. It
and `DecisionAssumption` also say what the model cannot tell by itself: that documents are
not the value `Absent`, and that what a modify carries came as JSON, with finitely many
overrides and no value that is an empty object (`isJson`), which a document of leaves
cannot hold.

Only model-checked: every liveness property (`HooksEnd`,
`StepsEnd`, `NatEnds`, `LinesAreShown`, `TailEnds`, `CloseEnds`), which is beyond TLAPS
here. Every other property of a passing run is a theorem.

## 7. What is not modelled

* **Inside the modelled components**: JSON-schema validation (a body is a kind), wording,
  hash and signature computation, the reading of policy and mapping files, records that
  are tampered with, and the `recorded_at` of an entry. A hookmap is a value, not YAML.
  Documents with reserved segments (`__proto__`) occur only as paths that are refused.
* **Guardian**: a process that dies inside one synchronous stretch of a handler (it dies
  between two of them, and a row may then be torn by a failed write only); the listener's
  opening; the start-up failure of the whole exporter; the
  SDK's batch processor beyond its queue, failure and timeout; the outgoing schema check,
  which only logs.
* **Inspector**: how the three streams are merged on the screen, and the layout.
* **Python**: a file that cannot be removed, and the lock of the session state, under
  which a count is one step; the deadline's helper threads; recorded steps, once-marks and turns; the
  Cursor adapter's hooks (it opens sessions through the same `open_session`); how a NAT
  call finds its session among several, and the race of two threads to make the
  middleware's own (`adapter.py:742`); a failed start counted twice when a hook is killed
  between counting and recording it (`_handshake.py:141`), since counts are not bounded
  above by any property; installation; the example Guardian.
* **Not to be modelled**: conformance suite (its checks read a finished run), policies
  (evaluated by an external engine), site and repository tooling, documents.

External to the models: the policy engine, the Guardian as seen by hosts and clients, the
hosts that start and kill hooks, what Claude Code makes of a hook's output, the telemetry
SDK, and the file system, which may refuse a write.

## 8. Plan

1. `SessionState`: turns, once-marks and recorded steps as read-modify-write on shared
   files (`acs/client/_store.py`, `claude_code/adapter.py:722-830`, the Cursor adapter).
2. `ExampleGuardian`: the replay window against the clock-skew check, the chain head and
   the state file shared between instances (`acs/guardian/example_guardian.py`).
