--------------------------- MODULE MCGovernedCall ---------------------------
(* Deployments, payloads and decisions for GovernedCall: each host's own    *)
(* hookmap, and that hookmap with one thing of it changed at a time.        *)
EXTENDS GovernedCall

CONSTANTS c1, c2

lit(path, value) == [path |-> path, value |-> Str(value), from |-> Absent, type |-> Absent]
from(path, field, type) == [path |-> path, value |-> Absent, from |-> field, type |-> type]

-----------------------------------------------------------------------------
denied == lit(<<"refuse", "denied">>, "true")
why == from(<<"refuse", "reason">>, "reasoning", "string")
told == from(<<"reason", "text">>, "reasoning", "string")
rewrite == from(<<"args">>, "applied_input", Absent)
replace == from(<<"result">>, "applied_output", Absent)

before ==
  [acs_method |-> Request, tool_name |-> <<"tool">>, call_id |-> <<"callID">>, arguments |-> <<"args">>,
   raw_command |-> <<"args", "command">>, outputs |-> Absent, exit_status |-> Absent, tools |-> {"bash"},
   decisions |-> [allow |-> <<told>>, deny |-> <<denied, why>>, ask |-> <<denied, why>>,
                  defer |-> <<denied, why>>, modify |-> <<rewrite, told>>]]
after ==
  [acs_method |-> Result, tool_name |-> <<"tool">>, call_id |-> <<"callID">>, arguments |-> Absent,
   raw_command |-> Absent, tools |-> {"bash"},
   outputs |-> [from |-> <<"result", "output">>, within |-> <<"result">>,
                mirrors |-> <<<<"result", "metadata", "output">>>>],
   exit_status |-> [literal |-> Absent, from |-> <<"result", "metadata", "exit">>],
   decisions |-> [d \in {"allow", "deny", "ask", "defer", "modify"} |->
                    IF d = "allow" THEN <<told>> ELSE <<replace, told>>]]

openCode(b, a) == [host |-> "opencode",
                   hooks |-> ("tool.execute.before" :> b) @@ ("tool.execute.after" :> a)]

rule(entry, d, r) == [entry EXCEPT !.decisions = (d :> r) @@ @]
less(entry, d) == [entry EXCEPT !.decisions = [e \in DOMAIN @ \ {d} |-> @[e]]]

\* A request gate that may not be able to refuse, or to land a rewrite.
requestGates ==
  {before, less(before, "ask"),
   rule(before, "deny", <<why>>), rule(before, "deny", <<lit(<<"reason", "denied">>, "true"), why>>),
   rule(before, "deny", <<lit(<<"refuse">>, "true"), denied>>),
   rule(before, "modify", <<from(<<"args", "command">>, "applied_input", Absent)>>),
   rule(before, "modify", <<from(<<"args">>, "reasoning", Absent)>>),
   rule(before, "modify", <<from(<<"args">>, "applied_input", "string"), told>>),
   rule(before, "modify", <<denied, why>>),
   rule(before, "hold", <<told>>),
   [before EXCEPT !.tool_name = <<"args", "command">>], [before EXCEPT !.arguments = <<"args", "opts">>],
   [before EXCEPT !.tools = Absent], [before EXCEPT !.tools = {"other"}]}

\* A result gate that may not be able to withhold.
resultGates ==
  {after, less(after, "ask"),
   rule(after, "deny", <<from(<<"result", "output">>, "applied_output", Absent)>>),
   rule(after, "deny", <<from(<<"result">>, "reasoning", Absent)>>),
   rule(after, "ask", <<told>>), rule(after, "ask", <<denied>>),
   rule(after, "modify", <<from(<<"result">>, "applied_output", "string"), told>>),
   [after EXCEPT !.outputs.mirrors = <<>>],
   [after EXCEPT !.outputs.mirrors = <<<<"result", "title">>>>],
   [after EXCEPT !.outputs.mirrors = <<<<"args", "command">>>>],
   [after EXCEPT !.outputs.from = <<"result", "title">>],
   [after EXCEPT !.exit_status.literal = "success"],
   [after EXCEPT !.exit_status = Absent],
   [after EXCEPT !.call_id = <<"__proto__">>]}

unpaired == openCode([before EXCEPT !.call_id = Absent], [after EXCEPT !.call_id = Absent])
halfPaired == openCode([before EXCEPT !.call_id = Absent], after)

-----------------------------------------------------------------------------
permission(p) == lit(PermissionDecision, p)
block == <<lit(TopLevelDecision, "block"), from(UpdatedToolOutput, "applied_output", Absent)>>

preToolUse ==
  [before EXCEPT !.tool_name = <<"tool_name">>, !.call_id = <<"tool_use_id">>, !.arguments = <<"tool_input">>,
   !.raw_command = <<"tool_input", "command">>, !.tools = Absent,
   !.decisions = [allow |-> <<permission("allow")>>, deny |-> <<permission("deny")>>,
                  ask |-> <<permission("ask")>>, defer |-> <<permission("deny")>>,
                  modify |-> <<permission("allow"), from(UpdatedInput, "applied_input", Absent)>>]]
postToolUse ==
  [after EXCEPT !.tool_name = <<"tool_name">>, !.call_id = <<"tool_use_id">>, !.tools = Absent,
   !.outputs = [from |-> <<"tool_response", "stdout">>, within |-> <<"tool_response">>, mirrors |-> <<>>],
   !.exit_status = [literal |-> "success", from |-> Absent],
   !.decisions = [allow |-> <<from(<<"hookSpecificOutput", "additionalContext">>, "reasoning", "string")>>,
                  deny |-> block, ask |-> block, defer |-> block,
                  modify |-> <<from(UpdatedToolOutput, "applied_output", Absent)>>]]

claudeCode(pre, post) == [host |-> "claude-code", hooks |-> [PreToolUse |-> pre, PostToolUse |-> post]]

\* A misspelt permission, one read from a field that need not be there, a
\* block that replaces nothing, a replacement without its block.
claudeCodes ==
  {claudeCode(preToolUse, postToolUse),
   claudeCode(rule(preToolUse, "deny", <<permission("dney")>>), postToolUse),
   claudeCode(rule(preToolUse, "ask", <<from(PermissionDecision, "reasoning", Absent)>>), postToolUse),
   claudeCode([preToolUse EXCEPT !.tools = {"bash"}], postToolUse),
   claudeCode(preToolUse, rule(postToolUse, "deny", <<lit(TopLevelDecision, "block")>>)),
   claudeCode(preToolUse, rule(postToolUse, "defer", <<told>>))}

OneChanged ==
  {openCode(b, after) : b \in requestGates} \cup {openCode(before, a) : a \in resultGates}
  \cup {unpaired, halfPaired} \cup claudeCodes
AsShipped == {openCode(before, after)}

-----------------------------------------------------------------------------
(* Payloads.  Call c2 is another session's, with the same id of its own.    *)

sessionOf == [c \in Calls |-> IF c = c1 THEN "0A" ELSE "s2"]
atom(text) == [type |-> "string", text |-> text]
number(text) == [type |-> "number", text |-> text]

plainArgs == (<<"command">> :> atom("ls"))
nestedArgs == plainArgs @@ (<<"opts", "a">> :> atom("x")) @@ (<<"opts", "b">> :> atom("y"))

named(h, c) ==
  IF h = "opencode"
  THEN (<<"tool">> :> atom("bash")) @@ (<<"session_id">> :> atom(sessionOf[c])) @@ (<<"callID">> :> atom("k"))
  ELSE (<<"tool_name">> :> atom("bash")) @@ (<<"session_id">> :> atom(sessionOf[c])) @@ (<<"tool_use_id">> :> atom("k"))

argsAt(h) == IF h = "opencode" THEN <<"args">> ELSE <<"tool_input">>
outputAt(h) == IF h = "opencode" THEN <<"result">> ELSE <<"tool_response">>
without(doc, p) == [q \in DOMAIN doc \ {p} |-> doc[q]]

call(h, c, args) == setAtPath(named(h, c), argsAt(h), args)

starts(args) ==
  [h \in Hosts |-> [c \in Calls |->
     IF c = c1 THEN {call(h, c, a) : a \in args} \cup {without(call(h, c, plainArgs), <<"session_id">>)}
     ELSE {call(h, c, plainArgs)}]]
EveryStart == starts({plainArgs, nestedArgs})
NestedStart == starts({nestedArgs})

bashOutput == (<<"output">> :> atom("key")) @@ (<<"metadata", "output">> :> atom("key"))
              @@ (<<"title">> :> atom("cat")) @@ (<<"metadata", "exit">> :> number("0"))
bashResponse == (<<"stdout">> :> atom("key")) @@ (<<"stderr">> :> atom("none"))

ends(h) ==
  IF h = "opencode"
  THEN {bashOutput, [bashOutput EXCEPT ![<<"title">>] = atom("key")],
        without(bashOutput, <<"metadata", "output">>), without(bashOutput, <<"output">>),
        [bashOutput EXCEPT ![<<"output">>] = number("7"), ![<<"metadata", "output">>] = number("7")]}
  ELSE {bashResponse, [bashResponse EXCEPT ![<<"stderr">>] = atom("key")], without(bashResponse, <<"stdout">>)}

finished(h, c, output) == setAtPath(call(h, c, plainArgs), outputAt(h), output)
EveryEnd ==
  [h \in Hosts |-> [c \in Calls |->
     IF c = c1 THEN {finished(h, c, o) : o \in ends(h)}
     ELSE {finished(h, c, IF h = "opencode" THEN bashOutput ELSE bashResponse)}]]
NoEnd == [h \in Hosts |-> [c \in Calls |-> {}]]

-----------------------------------------------------------------------------
redact(path) == [path |-> path, replacement |-> Absent]
mods(redactions, overrides) ==
  [decisionOf("modify") EXCEPT !.reasoning = Str("rewritten"),
   !.modifications = [modified_content |-> Absent, redactions |-> redactions, parameter_overrides |-> overrides]]
plain == {decisionOf("allow"), decisionOf("ask"), decisionOf("defer"), decisionOf("hold")}
         \cup {[decisionOf("deny") EXCEPT !.reasoning = r] : r \in {Absent, Str("policy"), Leaf("number", "1")}}

requestModifies ==
  {mods(<<>>, [command |-> Str("pwd")]), mods(<<redact(<<"opts", "a">>)>>, [command |-> Str("pwd")]),
   mods(<<redact(<<"opts", "a">>), redact(<<"opts">>)>>, << >>), mods(<<>>, [command |-> Str("ls")]),
   mods(<<redact(<<"absent">>)>>, << >>), mods(<<redact(<<"opts">>)>>, << >>)}
resultModifies ==
  {mods(<<redact(OutputLeaf)>>, << >>), mods(<<redact(<<"exit_status">>)>>, << >>),
   mods(<<redact(OutputLeaf), redact(<<"exit_status">>)>>, << >>),
   mods(<<[path |-> OutputLeaf, replacement |-> Str("key")]>>, << >>),
   mods(<<[path |-> OutputLeaf, replacement |-> Leaf("number", "1")]>>, << >>)}

EveryDecision == [request |-> plain \cup requestModifies, result |-> plain \cup resultModifies]
\* An argument that is an object, overridden by an object without one of its fields.
ObjectOverride ==
  [request |-> {mods(<<>>, [opts |-> (<<"a">> :> atom("x"))])}, result |-> {}]

\* What is merged into the arguments of governed_call leaves nothing behind.
ASSUME OneChangedAssumption == Hookmaps = OneChanged => MergesWhole

\* One call of any kind; or two, asked about once more, whose steps are allowed
\* or get no decision.
SecondIsPlain ==
  at'[c2] # "new" \/ fresh' > 4 \/ (\E c \in Calls : at[c] = "done" /\ at'[c] # "done") =>
    /\ hooks[hookOf("request")] \in {before, preToolUse} /\ hooks[hookOf("result")] \in {after, postToolUse}
    /\ live'[c1] \in {Absent, call(host, c1, plainArgs), finished(host, c1, bashOutput)}
    /\ \A c \in Calls, gate \in Gates :
         outcome'[c][gate] = undecided \/
           (outcome'[c][gate].stage \in {"honoured", "delivery"} /\ outcome'[c][gate].decision.decision = "allow")
=============================================================================
