------------------------------ MODULE Hookmap -------------------------------
(***************************************************************************)
(* A hookmap: what a host's hooks are to ACS, checked when it is loaded     *)
(* (build-envelope.ts and the two hosts' own gates), read when a step is    *)
(* turned into an envelope (build-envelope.ts), and read again when the     *)
(* decision is rendered for the host (render-decision.ts).                  *)
(*                                                                         *)
(* An entry's paths are sequences of field names.  A rule is the sequence   *)
(* of the output fields it declares, each with a literal value, or the      *)
(* field of the decision it is read from and the type it must have.         *)
(***************************************************************************)
EXTENDS Documents

Request == "steps/toolCallRequest"
Result == "steps/toolCallResult"

isPath(p) == p \notin {Absent, IllTyped, <<>>}

-----------------------------------------------------------------------------
(* loadHookmap.  It throws at the first of these that does not hold.        *)

assertRenderableDecisions(hooks) ==
  /\ DOMAIN hooks # {}
  /\ \A h \in DOMAIN hooks :
       /\ {"allow", "deny"} \subseteq DOMAIN hooks[h].decisions
       /\ \A d \in DOMAIN hooks[h].decisions :
            LET rule == hooks[h].decisions[d]
            IN  /\ rule \notin {IllTyped, <<>>}
                /\ \A i \in DOMAIN rule : rule[i].value # Absent \/ rule[i].from # Absent

assertMirrorsWellFormed(hooks) ==
  \A h \in DOMAIN hooks :
    LET outputs == hooks[h].outputs
    IN  outputs \in {Absent, IllTyped} \/ outputs.within = <<>>
        \/ \A i \in DOMAIN outputs.mirrors : Inside(outputs.mirrors[i], outputs.within)

assertToolsWellFormed(hooks) ==
  \A h \in DOMAIN hooks : hooks[h].tools \notin {IllTyped, {}}

assertExitStatusNotBothForms(hooks) ==
  \A h \in DOMAIN hooks :
    hooks[h].exit_status = Absent \/ hooks[h].exit_status.literal = Absent \/ hooks[h].exit_status.from = Absent

assertRequestGateDeclaresNoOutputs(hooks) ==
  \A h \in DOMAIN hooks : isPath(hooks[h].arguments) => hooks[h].outputs = Absent

assertPairingPathWellFormed(hooks) ==
  LET declared(m) == {h \in DOMAIN hooks : hooks[h].acs_method = m /\ hooks[h].call_id # Absent}
      gates(m) == {h \in DOMAIN hooks : hooks[h].acs_method = m}
  IN  /\ \A h \in DOMAIN hooks : hooks[h].call_id # Absent =>
           /\ isPath(hooks[h].call_id) /\ ~isReserved(hooks[h].call_id)
           /\ hooks[h].acs_method \in {Request, Result}
      /\ declared(Request) \cup declared(Result) # {} =>
           /\ declared(Request) = gates(Request) /\ declared(Result) = gates(Result)
           /\ gates(Request) # {} /\ gates(Result) # {}

loadHookmap(hooks) ==
  /\ assertRenderableDecisions(hooks)
  /\ assertMirrorsWellFormed(hooks)
  /\ assertToolsWellFormed(hooks)
  /\ assertExitStatusNotBothForms(hooks)
  /\ assertRequestGateDeclaresNoOutputs(hooks)
  /\ assertPairingPathWellFormed(hooks)

-----------------------------------------------------------------------------
(* OpenCode's gate: a decision declared at a hook must be able to act there *)

requestCarries == [deny |-> Absent, ask |-> Absent, defer |-> Absent, modify |-> "applied_input"]
resultCarries == [d \in {"deny", "modify", "ask", "defer"} |-> "applied_output"]

gateOf ==
  [h \in {"tool.execute.before", "tool.execute.after"} |->
     IF h = "tool.execute.before" THEN [carries |-> requestCarries, sink |-> <<"args">>]
     ELSE [carries |-> resultCarries, sink |-> <<"result">>]]

\* renderDecision reads a literal first, and drops what has another type.
declaresSinkFrom(rule, sink, source) ==
  \E i \in DOMAIN rule : /\ rule[i].path = sink /\ rule[i].value = Absent
                         /\ rule[i].type \in {Absent, "object"} /\ rule[i].from = source

\* Mutant: any field under refuse is taken as a refusal.
declaresRefusalOfSomeKind(rule) == \E i \in DOMAIN rule : rule[i].path[1] = "refuse"

declaresUnconditionalRefusal(rule) ==
  \E i \in DOMAIN rule : rule[i].path[1] = "refuse" /\ rule[i].value # Absent

satisfiesGate(rule, sink, source) == declaresSinkFrom(rule, sink, source) \/ declaresUnconditionalRefusal(rule)

assertDecisionsCanAct(decisions, carries, sink) ==
  /\ DOMAIN decisions \subseteq DOMAIN carries \cup {"allow"}
  /\ \A d \in DOMAIN decisions \ {"allow"} :
       IF carries[d] = Absent THEN declaresUnconditionalRefusal(decisions[d])
       ELSE satisfiesGate(decisions[d], sink, carries[d])

\* Mutant: the entry may read its step from anywhere in the payload.
assertEntryMatchesAnyPath(entry, hook) ==
  IF hook = "tool.execute.before"
  THEN isPath(entry.arguments) /\ entry.outputs = Absent
  ELSE entry.outputs \notin {Absent, IllTyped} /\ entry.arguments = Absent

\* The plugin assembles the payload itself, so it fixes where things are.
assertEntryMatchesGate(entry, hook) ==
  /\ entry.tool_name = <<"tool">>
  /\ IF hook = "tool.execute.before"
     THEN entry.arguments = <<"args">> /\ entry.outputs = Absent
     ELSE /\ entry.outputs \notin {Absent, IllTyped} /\ entry.arguments = Absent
          /\ entry.outputs.from = <<"result", "output">> /\ entry.outputs.within = <<"result">>

assertOpenCodeAccepts(hooks) ==
  \A h \in DOMAIN hooks :
    /\ h \in DOMAIN gateOf
    /\ assertEntryMatchesGate(hooks[h], h)
    /\ assertDecisionsCanAct(hooks[h].decisions, gateOf[h].carries, gateOf[h].sink)

-----------------------------------------------------------------------------
(* Claude Code's gate: every decision must be one it reads at that hook.    *)

PermissionDecision == <<"hookSpecificOutput", "permissionDecision">>
UpdatedToolOutput == <<"hookSpecificOutput", "updatedToolOutput">>
UpdatedInput == <<"hookSpecificOutput", "updatedInput">>
TopLevelDecision == <<"decision">>

declaredAt(rule, path) == {rule[i].value : i \in {j \in DOMAIN rule : rule[j].path = path}}

AcceptedPermissions == {Str("allow"), Str("deny"), Str("ask")}

assertPermissionDecisions(decisions) ==
  \A d \in DOMAIN decisions :
    LET declared == declaredAt(decisions[d], PermissionDecision)
    IN  declared # {} /\ declared \subseteq AcceptedPermissions

assertWithholdingDecisions(decisions) ==
  \A d \in DOMAIN decisions :
    LET blocks == declaredAt(decisions[d], TopLevelDecision) = {Str("block")}
    IN  /\ blocks => declaredAt(decisions[d], UpdatedToolOutput) # {}
        /\ withholdsAtResultGate(d) => blocks

assertClaudeCodeAccepts(hooks) ==
  \A h \in DOMAIN hooks :
    \/ h = "PreToolUse" /\ assertPermissionDecisions(hooks[h].decisions)
    \/ h = "PostToolUse" /\ assertWithholdingDecisions(hooks[h].decisions)

-----------------------------------------------------------------------------
(* buildPayload and exitStatusOf, from a host's payload and an entry.       *)

resolvable(p, payload) == isPath(p) /\ ~isReserved(p) /\ Present(payload, p)

exitStatusOf(status, payload) ==
  IF status = Absent THEN Throws
  ELSE IF status.literal # Absent THEN status.literal
  ELSE IF ~resolvable(status.from, payload) THEN Throws
  ELSE IF resolve(payload, status.from) \in {Leaf("number", "0"), Str("0"), Str("success")}
       THEN "success" ELSE "failure"

requestPayload(entry, payload) ==
  LET bag == resolve(payload, entry.arguments)
  IN  IF entry.arguments = IllTyped \/ entry.raw_command = IllTyped \/ isReserved(entry.arguments) THEN Throws
      ELSE [arguments |-> IF isPlainObject(bag) THEN bag ELSE << >>, value |-> Absent,
            exit_status |-> Absent, request_id_ref |-> Absent]

resultPayload(entry, payload) ==
  LET exit_status == exitStatusOf(entry.exit_status, payload)
  IN  IF \/ entry.raw_command # Absent \/ entry.outputs = IllTyped
         \/ entry.outputs.within = <<>> \/ ~Inside(entry.outputs.from, entry.outputs.within)
         \/ exit_status = Throws \/ ~resolvable(entry.outputs.from, payload)
      THEN Throws
      ELSE [arguments |-> Absent, value |-> resolve(payload, entry.outputs.from),
            exit_status |-> exit_status, request_id_ref |-> Absent]

buildPayload(entry, payload) ==
  CASE entry.arguments # Absent /\ entry.outputs = Absent -> requestPayload(entry, payload)
    [] entry.arguments = Absent /\ entry.outputs # Absent -> resultPayload(entry, payload)
    [] OTHER -> Throws

\* The document whose fields a modification's pointers name.
modificationDocumentOf(acs, tool) ==
  IF acs.arguments # Absent THEN acs.arguments
  ELSE LET texts == [tool |-> tool, exit_status |-> acs.exit_status, request_id_ref |-> "a request id"]
           named == {f \in DOMAIN texts : f # "request_id_ref" \/ acs.request_id_ref # Absent}
           flat == [p \in {<<f>> : f \in named} |-> [type |-> "string", text |-> texts[p[1]]]]
       IN  setAtPath(flat, OutputLeaf, acs.value)

-----------------------------------------------------------------------------
(* renderDecision: the fields of the rule, placed in their order.           *)

carried(field, decision) ==
  IF field.value # Absent THEN field.value
  ELSE IF field.from \notin DOMAIN decision \/ decision[field.from] = Absent THEN Absent
  ELSE IF field.type \notin {Absent, typeOf(decision[field.from])} THEN Absent
  ELSE decision[field.from]

place(output, field, decision) ==
  LET value == carried(field, decision)
  IN  IF output = Throws THEN Throws
      ELSE IF value = Absent THEN output
      ELSE IF \/ isReserved(field.path) \/ Present(output, field.path)
              \/ \E q \in DOMAIN output : IsStrictPrefix(q, field.path)
           THEN Throws
      ELSE setAtPath(output, field.path, value)

renderDecision(rules, decision) ==
  IF decision = Throws \/ decision.decision \notin DOMAIN rules THEN Throws
  ELSE FoldLeft(LAMBDA output, field : place(output, field, decision), << >>, rules[decision.decision])
=============================================================================
