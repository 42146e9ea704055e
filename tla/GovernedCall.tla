---------------------------- MODULE GovernedCall ----------------------------
(***************************************************************************)
(* Tool calls of a host that loaded a hookmap, each governed before it runs *)
(* and after it: the hook's payload becomes an envelope (build-envelope.ts),*)
(* the Guardian's decision is resolved, rendered through the hookmap        *)
(* (govern-step.ts, render-decision.ts), and acted on by the host           *)
(* (apply-opencode-output.ts, acs-hook.ts).  HostStep has the same steps    *)
(* with their time, postures, audit and stored configuration, and without   *)
(* their documents.                                                        *)
(***************************************************************************)
EXTENDS Hookmap

CONSTANTS Calls,        \* the tool calls, by the host's own id
          Hookmaps,     \* deployments: a host and the hooks of its hookmap
          Starts, Ends, \* what a tool may be called with, and leave, by host
          Decisions,    \* the Guardian's decisions, by gate
          MaxFresh      \* random ids drawn

Hosts == {"opencode", "claude-code"}
Gates == {"request", "result"}

hookAt(h, gate) ==
  CASE h = "opencode" -> IF gate = "request" THEN "tool.execute.before" ELSE "tool.execute.after"
    [] OTHER -> IF gate = "request" THEN "PreToolUse" ELSE "PostToolUse"

accepts(deployment) ==
  /\ loadHookmap(deployment.hooks)
  /\ IF deployment.host = "opencode" THEN assertOpenCodeAccepts(deployment.hooks)
     ELSE assertClaudeCodeAccepts(deployment.hooks)

ASSUME CallAssumption ==
  /\ MaxFresh \in Nat
  /\ \A d \in Hookmaps : d.host \in Hosts /\ \A gate \in Gates : hookAt(d.host, gate) \in DOMAIN d.hooks

\* The field names the proofs need to know for strings.
ASSUME NameAssumption ==
  {"refuse", "result", "args", "tool", "tool_name", "tool_input", "hookSpecificOutput", "permissionDecision",
   "updatedToolOutput", "updatedInput", "outputs", "0", "value", "exit_status", "request_id_ref"} \subseteq STRING

\* Leaves by their paths, none of which is on the way to another.
isDocument(v) ==
  /\ DOMAIN v \subseteq Seq(STRING) /\ v = [p \in DOMAIN v |-> v[p]]
  /\ \A p, q \in DOMAIN v : IsPrefix(p, q) => p = q

\* The fields of a decision that hold documents, and so may be rendered.
Renderable == {"reasoning", "applied_input", "applied_output"}

Refusals == {"deny", "ask", "defer"}

\* The paths and literals of a hookmap that is accepted, each of its type.
\* Claude Code's gate only asks that a permission be one of the three it
\* reads: a hookmap that declares the permission allow for a refusal loads,
\* runs what it should refuse, and is left out here.
ASSUME DeploymentAssumption ==
  /\ Absent \notin AcceptedPermissions
  /\ \A d \in {e \in Hookmaps : accepts(e)} :
       /\ \A h \in DOMAIN d.hooks :
            LET entry == d.hooks[h]
            IN  /\ entry.outputs = Absent \/
                     /\ entry.outputs.from \in Seq(STRING) /\ entry.outputs.within \in Seq(STRING)
                     /\ entry.outputs.mirrors \in Seq(Seq(STRING))
                /\ \A name \in DOMAIN entry.decisions :
                     LET rule == entry.decisions[name]
                     IN  /\ Len(rule) \in Nat /\ DOMAIN rule = 1..Len(rule)
                         /\ \A i \in DOMAIN rule :
                              /\ rule[i].path \in Seq(STRING) \ {<<>>}
                              /\ rule[i].from \in {Absent} \cup Renderable
                              /\ rule[i].value # Absent => isDocument(rule[i].value) /\ DOMAIN rule[i].value # {}
       /\ d.host = "claude-code" =>
            \A name \in Refusals \cap DOMAIN d.hooks["PreToolUse"].decisions :
              Str("allow") \notin declaredAt(d.hooks["PreToolUse"].decisions[name], PermissionDecision)

\* Where a host looks for what is to take the place of the step's own.
sinkAt(h, gate) ==
  CASE h = "opencode" -> IF gate = "request" THEN <<"args">> ELSE <<"result">>
    [] OTHER -> IF gate = "request" THEN UpdatedInput ELSE UpdatedToolOutput

\* How a hookmap that is accepted withholds.  The gates let through more: rules
\* that write fields of their own into the output they replace and, to Claude
\* Code, a replacement that is not the withheld output, or that is patched into
\* something other than what it takes for the output.
ASSUME WithholdingAssumption ==
  \A d \in {e \in Hookmaps : accepts(e)} :
    LET entry == d.hooks[hookAt(d.host, "result")]
        sink == sinkAt(d.host, "result")
        location(payload) == [payload |-> payload, outputs |-> entry.outputs]
    IN  /\ \A name \in Refusals \cap DOMAIN entry.decisions :
             /\ \A i \in DOMAIN entry.decisions[name] : ~IsStrictPrefix(sink, entry.decisions[name][i].path)
             /\ d.host = "claude-code" => declaresSinkFrom(entry.decisions[name], sink, "applied_output")
        /\ d.host = "claude-code" => entry.outputs # Absent /\ entry.outputs.within = <<"tool_response">>
        /\ \A c \in Calls : \A payload \in Ends[d.host][c] :
             location(payload) # Absent /\ replacingOutput(location(payload), Withheld) # Absent

\* What a hookmap that is accepted shows of a step, and what its allow leaves
\* alone.  OpenCode's gate checks where a step is read from, Claude Code's does
\* not; neither looks at what an allow writes.
ASSUME ShowingAssumption ==
  \A d \in {e \in Hookmaps : accepts(e)} : \A gate \in Gates :
    LET entry == d.hooks[hookAt(d.host, gate)]
        allow == entry.decisions["allow"]
    IN  /\ \A i \in DOMAIN allow : ~Overlap(sinkAt(d.host, gate), allow[i].path)
        /\ d.host = "claude-code" =>
             /\ entry.tool_name = <<"tool_name">>
             /\ gate = "request" => entry.arguments = <<"tool_input">> /\ entry.outputs = Absent

\* Which field of a decision carries what is to take that place.
carriedAt(gate) == IF gate = "request" THEN "applied_input" ELSE "applied_output"

\* How a hookmap that is accepted lands a rewrite.  Neither gate looks for a
\* rule that writes into the rewritten document, and Claude Code's does not look
\* at the rule of a modify.
ASSUME RewritingAssumption ==
  \A d \in {e \in Hookmaps : accepts(e)} : \A gate \in Gates :
    LET decisions == d.hooks[hookAt(d.host, gate)].decisions
        sink == sinkAt(d.host, gate)
    IN  "modify" \in DOMAIN decisions =>
          /\ \A i \in DOMAIN decisions["modify"] : ~IsStrictPrefix(sink, decisions["modify"][i].path)
          /\ d.host = "claude-code" => declaresSinkFrom(decisions["modify"], sink, carriedAt(gate))

\* Modifications as JSON has them, of values that are not empty objects.
isJson(mods) ==
  LET isValue(v) == isDocument(v) /\ DOMAIN v # {}
  IN  /\ Len(mods.redactions) \in Nat /\ DOMAIN mods.redactions = 1..Len(mods.redactions)
      /\ \A i \in DOMAIN mods.redactions :
           /\ mods.redactions[i].path \in Seq(STRING)
           /\ mods.redactions[i].replacement = Absent \/ isValue(mods.redactions[i].replacement)
      /\ IsFiniteSet(DOMAIN mods.parameter_overrides) /\ DOMAIN mods.parameter_overrides \subseteq STRING
      /\ \A key \in DOMAIN mods.parameter_overrides : isValue(mods.parameter_overrides[key])

\* A decision has the fields of one, and what it carries came as JSON.
ASSUME DecisionAssumption ==
  \A gate \in Gates : \A d \in Decisions[gate] :
    /\ DOMAIN d = DOMAIN decisionOf("allow") /\ \A f \in Renderable : d[f] = Absent \/ isDocument(d[f])
    /\ d.decision = "modify" /\ wellFormed(d.modifications) => isJson(d.modifications)

VARIABLES
  host, hooks,  \* the deployment, loaded
  at,           \* where a call is
  live,         \* the payload its present hook was handed
  envelope,     \* the envelope its hook waits with
  seen,         \* request ids the Guardian has recorded
  wire,         \* history: the envelopes sent
  fresh,        \* history: random ids drawn
  outcome,      \* history: what became of a call at each gate
  arrived       \* history: the decision that arrived for it there, resolved

vars == <<host, hooks, at, live, envelope, seen, wire, fresh, outcome, arrived>>

hookOf(gate) == hookAt(host, gate)
gateAt(c) == IF at[c] \in {"new", "asking"} THEN "request" ELSE "result"
entryAt(c) == hooks[hookOf(gateAt(c))]

-----------------------------------------------------------------------------
(* Ids.  A raw session id that is a UUID is lowercased and any other is     *)
(* hashed; a call's derived id is hashed from both.                         *)

UuidForm == ("0A" :> "0a") @@ ("0a" :> "0a")
toSessionUuid(raw) ==
  IF raw \in DOMAIN UuidForm THEN [uuid |-> UuidForm[raw]] ELSE [hashed |-> raw]

\* Mutant: the session is left out of the derived id.
toInvocationRequestIdAlone(session, call) == [derived |-> call]

toInvocationRequestId(session, call) == [derived |-> <<session, call>>]

random(n) == [random |-> n]

invocationIdOf(entry, payload) ==
  IF entry.call_id = Absent \/ ~resolvable(entry.call_id, payload) THEN Absent
  ELSE LET id == resolve(payload, entry.call_id)
       IN  IF typeOf(id) = "string" THEN id[<<>>].text ELSE Absent

\* What a call's derived id is hashed from: the same at both gates of a call,
\* and another call's never, unless it has no id of the host's.
identityOf(entry, payload) ==
  <<toSessionUuid(resolve(payload, <<"session_id">>)[<<>>].text), invocationIdOf(entry, payload)>>
payloadsAt(h, gate, c) == IF gate = "request" THEN Starts[h][c] ELSE Ends[h][c]

\* A tool's arguments are an object, before and after they are modified.
ASSUME ArgumentsAssumption ==
  \A h \in Hosts, c \in Calls : \A p \in Starts[h][c] :
    LET arguments == resolve(p, IF h = "opencode" THEN <<"args">> ELSE <<"tool_input">>)
    IN  /\ isPlainObject(arguments) /\ arguments # Absent
        /\ \A d \in Decisions["request"] :
             d.decision = "modify" => applyModifications(arguments, d.modifications) # Absent

ASSUME PayloadAssumption ==
  \A d \in {e \in Hookmaps : accepts(e)}, g1, g2 \in Gates, a, b \in Calls :
    \A p \in payloadsAt(d.host, g1, a), q \in payloadsAt(d.host, g2, b) :
      LET i == identityOf(d.hooks[hookAt(d.host, g1)], p)
          j == identityOf(d.hooks[hookAt(d.host, g2)], q)
      IN  /\ isDocument(p) /\ \A leaf \in Range(p) : leaf = [type |-> leaf.type, text |-> leaf.text]
          /\ Present(p, <<"session_id">>) /\ Present(q, <<"session_id">>) =>
               IF a = b THEN i = j ELSE i[2] = Absent \/ i # j

\* Two random ids are drawn, and a derived one takes the place of one.
buildEnvelope(entry, payload, pairWithHostCall) ==
  LET acs == buildPayload(entry, payload)
      tool == resolve(payload, entry.tool_name)
      session == toSessionUuid(resolve(payload, <<"session_id">>)[<<>>].text)
      call == IF pairWithHostCall THEN invocationIdOf(entry, payload) ELSE Absent
      derived == toInvocationRequestId(session, call)
      id == IF call # Absent /\ acs.value = Absent THEN derived ELSE random(fresh + 1)
      ref == IF call # Absent /\ acs.value # Absent THEN derived ELSE Absent
  IN  IF \/ ~resolvable(entry.tool_name, payload) \/ typeOf(tool) # "string"
         \/ acs = Throws \/ ~Present(payload, <<"session_id">>)
      THEN Throws
      ELSE [method |-> entry.acs_method, session |-> session, tool |-> tool[<<>>].text, request_id |-> id,
            id |-> IF id = derived THEN random(fresh + 2) ELSE id,
            payload |-> [acs EXCEPT !.request_id_ref = ref]]

-----------------------------------------------------------------------------
(* What a host does with a rendered output.                                 *)

refused == [kind |-> "refused", doc |-> Absent]
undecided == [decision |-> Absent, stage |-> "undecided", effect |-> [kind |-> "undecided", doc |-> Absent],
              payload |-> Absent, asked |-> Absent]
ran(doc) == [kind |-> "ran", doc |-> doc]

\* The live object is merged into, field by field, and never replaced.
mergeInPlace(target, source) ==
  LET kept == {q \in DOMAIN target : \A s \in DOMAIN source : ~Overlap(q, s)}
  IN  [q \in kept \cup DOMAIN source |-> IF q \in kept THEN target[q] ELSE source[q]]

\* Every key is checked before anything is applied.
applyOpenCodeOutput(output, gate, payload) ==
  LET sink == IF gate = "request" THEN "args" ELSE "result"
      merged == resolve(output, <<sink>>)
  IN  IF \/ \E q \in DOMAIN output : q[1] \notin {"refuse", "reason", sink}
         \/ Present(output, <<sink>>) /\ (~isPlainObject(merged) \/ \E q \in DOMAIN merged : isReserved(q))
         \/ Present(output, <<"refuse">>)
      THEN refused
      ELSE ran(mergeInPlace(resolve(payload, <<sink>>), merged))

\* Exit 2 blocks; so does an output Claude Code would not read a decision in.
asClaudeCodeOutput(output, gate) ==
  IF \/ Present(output, TopLevelDecision) /\ resolve(output, TopLevelDecision) = Str("block")
        /\ ~Present(output, UpdatedToolOutput)
     \/ gate = "request" /\ ~Present(output, <<"hookSpecificOutput">>)
     \/ Present(output, <<"hookSpecificOutput">>) /\ ~isPlainObject(resolve(output, <<"hookSpecificOutput">>))
  THEN Throws ELSE output

\* Claude Code runs a tool unless told deny or ask, and takes a replacement
\* only of the tool's own shape.
claudeCodeReads(output, gate, payload) ==
  LET bag == IF gate = "request" THEN <<"tool_input">> ELSE <<"tool_response">>
      sink == IF gate = "request" THEN UpdatedInput ELSE UpdatedToolOutput
      original == resolve(payload, bag)
      replacement == resolve(output, sink)
      sameShape == DOMAIN replacement = DOMAIN original
                   /\ \A q \in DOMAIN original : replacement[q].type = original[q].type
  IN  IF gate = "request" /\ resolve(output, PermissionDecision) \in {Str("deny"), Str("ask")} THEN refused
      ELSE ran(IF Present(output, sink) /\ (gate = "request" \/ sameShape) THEN replacement ELSE original)

acts(output, gate, payload) ==
  IF output = Throws THEN refused
  ELSE IF host = "opencode" THEN applyOpenCodeOutput(output, gate, payload)
  ELSE IF asClaudeCodeOutput(output, gate) = Throws THEN refused
  ELSE claudeCodeReads(output, gate, payload)

-----------------------------------------------------------------------------
(* governStep, up to its question and from its answer.                      *)

locationAt(c, payload) ==
  IF entryAt(c).outputs = Absent THEN Absent ELSE [payload |-> payload, outputs |-> entryAt(c).outputs]

render(c, decision, payload) ==
  renderDecision(entryAt(c).decisions, withResultOutput(decision, locationAt(c, payload)))

postures == {[decisionOf(d) EXCEPT !.reasoning = Str("no decision")] : d \in {"allow", "deny"}}

\* Mutant: a call that ran is taken back to its result gate.
endedWhateverGate(c, decision, stage, effect, asked) ==
  /\ outcome' = [outcome EXCEPT ![c][gateAt(c)] =
       [decision |-> decision, stage |-> stage, effect |-> effect, payload |-> live'[c], asked |-> asked]]
  /\ at' = [at EXCEPT ![c] = IF effect.kind \in {"ran", "ungoverned"} THEN "ran" ELSE "done"]

ended(c, decision, stage, effect, asked) ==
  /\ outcome' = [outcome EXCEPT ![c][gateAt(c)] =
       [decision |-> decision, stage |-> stage, effect |-> effect, payload |-> live'[c], asked |-> asked]]
  /\ at' = [at EXCEPT ![c] = IF gateAt(c) = "request" /\ effect.kind \in {"ran", "ungoverned"}
                             THEN "ran" ELSE "done"]

byPosture(c, posture, stage, asked) ==
  ended(c, posture, stage, acts(render(c, posture, live'[c]), gateAt(c), live'[c]), asked)

\* A decision that cannot be rendered is answered by the posture.
byDecision(c, decision, posture, asked) ==
  LET output == render(c, decision, live'[c])
  IN  IF output = Throws THEN byPosture(c, posture, "render", asked)
      ELSE ended(c, decision, "honoured", acts(output, gateAt(c), live'[c]), asked)

toolOf(payload) == resolve(payload, IF host = "opencode" THEN <<"tool">> ELSE <<"tool_name">>)

\* The plugin refuses a step without a tool or a session, and the hook one
\* without a session.
usable(payload) ==
  /\ Present(payload, <<"session_id">>)
  /\ host = "opencode" => Present(payload, <<"tool">>)

\* Claude Code's hook names no scoped tool, so a tools list cannot be applied.
governsTool(entry, payload) ==
  host = "opencode" /\ entry.tools # Absent => toolOf(payload)[<<>>].text \in entry.tools

\* The host runs a hook, and the step is asked about unless it cannot be.
Fire(c, payload, posture) ==
  LET entry == entryAt(c)
      e == buildEnvelope(entry, payload, TRUE)
      stays == UNCHANGED <<envelope, wire, fresh>>
  IN  /\ at[c] \in {"new", "ran"} /\ fresh + 2 <= MaxFresh
      /\ live' = [live EXCEPT ![c] = payload]
      /\ IF ~usable(payload) \/ (host # "opencode" /\ entry.tools # Absent)
         THEN ended(c, Absent, "unusable", refused, Absent) /\ stays
         ELSE IF ~governsTool(entry, payload)
         THEN ended(c, Absent, "ungoverned", [kind |-> "ungoverned", doc |-> Absent], Absent) /\ stays
         ELSE IF e = Throws THEN byPosture(c, posture, "request", Absent) /\ stays
         ELSE IF locationAt(c, payload) # Absent /\ ~assertOutputIsReplaceable(locationAt(c, payload))
         THEN ended(c, Absent, "unreplaceable", refused, Absent) /\ stays
         ELSE /\ at' = [at EXCEPT ![c] = IF at[c] = "new" THEN "asking" ELSE "judging"]
              /\ envelope' = [envelope EXCEPT ![c] = e]
              /\ wire' = wire \cup {[call |-> c, sent |-> e]} /\ fresh' = fresh + 2
              /\ UNCHANGED outcome
      /\ UNCHANGED <<host, hooks, seen, arrived>>

waiting(c) == at[c] \in {"asking", "judging"} /\ UNCHANGED <<host, hooks, live>>

\* The Guardian has the id already: a request is asked again with its own.
AskAgain(c) ==
  /\ waiting(c) /\ envelope[c].request_id \in seen
  /\ envelope[c].payload.value = Absent /\ fresh + 2 <= MaxFresh
  /\ envelope' = [envelope EXCEPT ![c] = buildEnvelope(entryAt(c), live[c], FALSE)]
  /\ wire' = wire \cup {[call |-> c, sent |-> envelope'[c]]} /\ fresh' = fresh + 2
  /\ UNCHANGED <<at, seen, outcome, arrived>>

\* The Guardian records the step and decides; the decision is resolved
\* (validateDecision), rendered and acted on.  An ask or a defer whose time
\* is up amounts to a deny.
Answered(c, decision, late, posture) ==
  LET document == modificationDocumentOf(envelope[c].payload, envelope[c].tool)
      resolved == CASE decision.decision = "modify" -> resolveModify(decision, document, locationAt(c, live[c]))
                    [] decision.decision \in {"ask", "defer"} /\ late -> deny("expired")
                    [] OTHER -> decision
  IN  /\ waiting(c) /\ envelope[c].request_id \notin seen
      /\ seen' = seen \cup {envelope[c].request_id}
      /\ byDecision(c, resolved, posture, envelope[c])
      /\ arrived' = [arrived EXCEPT ![c][gateAt(c)] = resolved]
      /\ UNCHANGED <<envelope, wire, fresh>>

\* No decision arrived: lost on the way there, or on the way back.
Unanswered(c, recorded, posture) ==
  /\ waiting(c)
  /\ seen' = IF recorded THEN seen \cup {envelope[c].request_id} ELSE seen
  /\ byPosture(c, posture, "delivery", envelope[c])
  /\ UNCHANGED <<envelope, wire, fresh, arrived>>

\* The host asks once more about a call that got no decision and did not run.
Repeat(c) ==
  /\ at[c] = "done" /\ outcome[c].request.stage = "delivery" /\ outcome[c].request.effect = refused
  /\ at' = [at EXCEPT ![c] = "new"] /\ outcome' = [outcome EXCEPT ![c].request = undecided]
  /\ UNCHANGED <<host, hooks, live, envelope, seen, wire, fresh, arrived>>

Init ==
  /\ \E deployment \in {d \in Hookmaps : accepts(d)} :
       /\ host = deployment.host /\ hooks = deployment.hooks
  /\ at = [c \in Calls |-> "new"] /\ live = [c \in Calls |-> Absent]
  /\ envelope = [c \in Calls |-> Absent]
  /\ seen = {} /\ wire = {} /\ fresh = 0
  /\ outcome = [c \in Calls |-> [gate \in Gates |-> undecided]]
  /\ arrived = [c \in Calls |-> [gate \in Gates |-> Absent]]

Host(c) ==
  \/ \E posture \in postures :
       \E payload \in (IF at[c] = "new" THEN Starts[host][c] ELSE Ends[host][c]) : Fire(c, payload, posture)
  \/ AskAgain(c)
  \/ Repeat(c)

Guardian(c) ==
  \E posture \in postures :
    \/ \E decision \in Decisions[gateAt(c)], late \in BOOLEAN : Answered(c, decision, late, posture)
    \/ \E recorded \in BOOLEAN : Unanswered(c, recorded, posture)

Next == \E c \in Calls : Host(c) \/ Guardian(c)

Spec == Init /\ [][Next]_vars

-----------------------------------------------------------------------------
(* Properties. *)

(* Type invariant: where each call is, and what has become of it at each    *)
(* gate, as the two hooks and the Guardian's memory of ids leave them.      *)
CallTypeOK ==
  /\ at \in [Calls -> {"new", "asking", "ran", "judging", "done"}] /\ fresh \in 0..MaxFresh
  /\ \A c \in Calls :
       /\ (at[c] \in {"asking", "judging"}) => [call |-> c, sent |-> envelope[c]] \in wire
       /\ (at[c] # "done") => outcome[c].result = undecided
       /\ (at[c] \in {"new", "asking"}) <=> outcome[c].request = undecided
       /\ \A gate \in Gates :
            outcome[c][gate] # undecided => outcome[c][gate].effect.kind \in {"refused", "ran", "ungoverned"}
  /\ seen \subseteq {m.sent.request_id : m \in wire}

at_(o, decisions) == o.decision # Absent /\ o.decision.decision \in decisions

(* A tool whose step ends in a deny, an ask or a defer does not run, and    *)
(* neither does one whose Guardian sent one of them, under any hookmap the  *)
(* host's gate lets load that DeploymentAssumption describes: no rule,      *)
(* conditional field or dropped type turns a refusal into an output the     *)
(* host reads as nothing.  The exception is the code's: a refusal that came *)
(* and cannot be rendered is answered by the posture, and a posture that    *)
(* proceeds runs the tool (acs-plugin.ts, acs-hook.ts, render-decision.ts,  *)
(* the render stage of governStep).                                         *)
RefusedStepsDoNotRun ==
  \A c \in Calls :
    LET o == outcome[c].request
        came == arrived[c].request
    IN  /\ at_(o, Refusals) => o.effect = refused
        /\ came # Absent /\ came.decision \in Refusals /\ o.effect # refused =>
             /\ renderDecision(hooks[hookOf("request")].decisions, came) = Throws
             /\ o.stage = "render" /\ o.decision.decision = "allow"

\* What is left of an output that is withheld.
masks(outputs, payload, delivered) ==
  LET original == resolve(payload, outputs.within)
      leaf == relative(outputs.from, outputs.within)
  IN  /\ DOMAIN delivered = DOMAIN original
      /\ \A q \in DOMAIN delivered :
           delivered[q] = IF q \in replacedIn(outputs) THEN Withheld[<<>>] ELSE original[q]
      /\ outputs.mirrors # <<>> =>
           \A q \in DOMAIN delivered \ replacedIn(outputs) : delivered[q] # original[leaf]

(* An output withheld at the result gate reaches the model neither in the   *)
(* leaf it was asked about nor in a mirror of it, nor, where mirrors are    *)
(* declared, in any other field; the fields beside them and the shape of    *)
(* the tool's output stay as they were (result-output.ts, mergeInPlace).    *)
WithheldIsGone ==
  \A c \in Calls :
    LET o == outcome[c].result
    IN  at_(o, Refusals) /\ o.effect # refused =>
          masks(hooks[hookOf("result")].outputs, o.payload, o.effect.doc)

\* What applying the modifications to a document has to come to, leaf by leaf.
rewritten(mods, document, after) ==
  LET edits == Range(editsOf(mods))
  IN  /\ \A e \in edits : resolve(after, e.path) = e.value
      /\ \A q \in DOMAIN document \cup DOMAIN after :
           (\A e \in edits : ~IsPrefix(e.path, q))
             => q \in DOMAIN document /\ q \in DOMAIN after /\ document[q] = after[q]

\* The tool runs with every target rewritten and every other argument as it was.
ArgumentsLand ==
  \A c \in Calls :
    LET o == outcome[c].request
    IN  at_(o, {"modify"}) /\ o.effect # refused =>
          rewritten(o.decision.modifications, o.asked.payload.arguments, o.effect.doc)

\* An output delivered with its leaf rewritten, in its mirrors too, and every
\* other field as it was.
carriesOut(outputs, mods, asked, payload, after) ==
  LET document == modificationDocumentOf(asked.payload, asked.tool)
      original == resolve(payload, outputs.within)
      delivered == resolve(after, relative(outputs.from, outputs.within))
  IN  /\ rewritten(mods, document, setAtPath(document, OutputLeaf, delivered))
      /\ delivered # asked.payload.value
      /\ \A i \in DOMAIN outputs.mirrors :
           resolve(after, relative(outputs.mirrors[i], outputs.within)) = delivered
      /\ \A q \in (DOMAIN original \cup DOMAIN after) \ replacedIn(outputs) :
           q \in DOMAIN original /\ q \in DOMAIN after /\ after[q] = original[q]

OutputsLand ==
  \A c \in Calls :
    LET o == outcome[c].result
    IN  at_(o, {"modify"}) /\ o.effect # refused =>
          carriesOut(hooks[hookOf("result")].outputs, o.decision.modifications, o.asked, o.payload, o.effect.doc)

(* A modify that is reported honoured was carried out: the tool runs with   *)
(* every target rewritten as asked and every other argument as it was, and  *)
(* an output is delivered with its leaf so rewritten, in its mirrors too,   *)
(* and nothing else of it changed; or the step was refused                  *)
(* (modifications.ts, result-output.ts, apply-opencode-output.ts).          *)
ModifyLands == ArgumentsLand /\ OutputsLand

\* No modification of OpenCode's arguments gives an object the place of one
\* with a field it does not have: the merge would leave that field behind.
MergesWhole ==
  \A c \in Calls : \A p \in Starts["opencode"][c], d \in Decisions["request"] :
    LET arguments == resolve(p, <<"args">>)
    IN  d.decision = "modify" /\ applyModifications(arguments, d.modifications) # Throws =>
          \A e \in Range(editsOf(d.modifications)), q \in DOMAIN arguments :
            IsPrefix(e.path, q) => \E s \in DOMAIN e.value : Overlap(q, e.path \o s)

(* What the Guardian allowed is what happens: the question named the tool   *)
(* that was called, showed the arguments it then ran with, and showed the   *)
(* output the model then got (assertEntryMatchesGate, buildPayload).        *)
AllowedIsWhatWasShown ==
  \A c \in Calls :
    \A gate \in Gates :
      LET o == outcome[c][gate]
          outputs == hooks[hookOf("result")].outputs
      IN  at_(o, {"allow"}) /\ o.stage = "honoured" /\ o.effect # refused =>
            /\ toolOf(o.payload) = Str(o.asked.tool)
            /\ IF gate = "request" THEN o.effect.doc = o.asked.payload.arguments
               ELSE resolve(o.effect.doc, relative(outputs.from, outputs.within)) = o.asked.payload.value

(* A result that cites a request cites one of its own call, and one the     *)
(* Guardian has recorded if it has recorded any request of that call; and   *)
(* no two messages share their JSON-RPC id (toInvocationRequestId,          *)
(* buildEnvelope, the repeat after a replay refusal).                       *)
ResultCitesItsRequest ==
  /\ \A m \in wire :
       LET cited == m.sent.payload.request_id_ref
       IN  cited # Absent =>
             /\ \A r \in wire : r.sent.request_id = cited => r.call = m.call
             /\ (\E r \in wire : r.call = m.call /\ r.sent.payload.value = Absent /\ r.sent.request_id \in seen)
                  => cited \in seen
  /\ \A m, n \in wire : m.sent.id = n.sent.id => m = n
=============================================================================
