----------------------------- MODULE MCHostStep ------------------------------
(* Small instances of HostStep. *)
EXTENDS HostStep, TLC

CONSTANTS h1, h2

symmetry == Permutations(Steps)

ev(gate, builds, replaceable) ==
  [gate |-> gate, mapped |-> TRUE, scope |-> "governed", builds |-> builds,
   replaceable |-> replaceable, call |-> 1, renders |-> {"allow", "deny", "modify", "ask"},
   answers |-> {"allow", "deny"}]
toolCall == ev("request", TRUE, TRUE)
toolResult == ev("result", TRUE, TRUE)
otherTool == [toolCall EXCEPT !.scope = "declined"]

\* The tool call at a hook whose rule for a decision cannot be rendered, for one
\* that arrives or for one the posture answers.
unsaid(arriving, answered) == [toolCall EXCEPT !.renders = @ \ arriving, !.answers = @ \ answered]
muteDeny == unsaid({"deny"}, {"deny"})

\* Every gate, and every way a step may fail before it is asked about or after.
AllEvents == {toolCall, toolResult, otherTool, ev("request", FALSE, TRUE), ev("result", TRUE, FALSE),
              ev("result", FALSE, FALSE), ev("result", FALSE, TRUE),
              [toolCall EXCEPT !.mapped = FALSE], [toolCall EXCEPT !.scope = "untold"],
              muteDeny, unsaid({"allow", "deny"}, {}), unsaid({}, {"allow"})}
\* One tool call, which the host may ask about twice.
OneCall == {toolCall}
MuteCall == {muteDeny}

hooksOf(tears) == [plugin |-> FALSE, tears |-> tears]
\* A host of each kind; only the plugin's one process may tear a line.
BothHosts == {hooksOf(FALSE), [plugin |-> TRUE, tears |-> TRUE]}
Hooks == {hooksOf(FALSE)}
TearingHooks == {hooksOf(TRUE)}

BothConfigs == {[on_decision_failure |-> "deny", default_ms |-> 1],
                [on_decision_failure |-> "proceed", default_ms |-> 2]}
NoConfigs == {}

d(decision) == [decision |-> decision, applies |-> TRUE, window |-> None, expired |-> "deny"]
\* Every decision, with windows that are unknown, closed early, and open.
AllDecisions == {d("allow"), d("deny"), d("other"), d("ask"), d("defer"), d("modify"),
                 [d("modify") EXCEPT !.applies = FALSE],
                 [d("ask") EXCEPT !.window = 1], [d("ask") EXCEPT !.window = 1, !.expired = "allow"],
                 [d("defer") EXCEPT !.window = 1]}
NoDecisions == {}
JustDeny == {d("deny")}

FewDecisions == {d("allow"), d("deny")}

\* One step of any kind, with every decision at a gate that renders most of them;
\* beside it one that asks about a tool call and gets no decision.  The plugin's
\* are few.  What a process or its timers do is never cut off.
SecondIsPlain ==
  /\ (pc'[h1] # pc[h1] /\ event'[h1] # None) =>
       /\ event'[h1] \in IF deployment.plugin THEN {toolCall, otherTool, muteDeny} ELSE AllEvents \ {otherTool}
       /\ deployment.plugin \/ event'[h1] \notin {toolCall, toolResult}
            => answer'[h1] \notin Decisions \ FewDecisions
  /\ (pc'[h2] # pc[h2]) =>
       /\ event'[h2] \in OneCall \cup {None} /\ pc'[h2] # "dead"
       /\ answer'[h2] \in {None, failed("replay"), failed("timeout")}

NoLog == <<>>
\* An entry and a line that is none, left by an earlier process.
EarlierLog == <<[seq |-> 1, outcome |-> "proceeded", step |-> None], Garbage>>
=============================================================================
