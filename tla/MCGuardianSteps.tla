--------------------------- MODULE MCGuardianSteps ---------------------------
(* Three requests over two sessions and a cap of one, so that sessions are    *)
(* evicted while their steps are in flight.                                   *)
EXTENDS GuardianSteps, TLC

CONSTANTS s1, s2, a, b, q1, q2, q3, public, secret

\* A valid call or result with what its snapshot needs, and bodies that differ
\* from it in what the handler looks at.
Body(method, s, request_id, ref) ==
  [declaredTooLarge |-> FALSE, tooLarge |-> FALSE, json |-> TRUE, method |-> method,
   id |-> "given", named |-> TRUE, schema |-> "valid", payload |-> TRUE,
   tool |-> "WebFetch", arguments |-> {"url"}, session_id |-> s,
   request_id |-> request_id, ref |-> ref]

Call(s, request_id) == Body(TOOL_CALL_REQUEST, s, request_id, NoRef)
Other(method) == Body(method, s1, a, NoRef)
Refused(method, id, named) == [Other(method) EXCEPT !.schema = "invalid", !.id = id, !.named = named]

SomeEnvelopes ==
  {Call(s1, a), Body(TOOL_CALL_RESULT, s1, b, a), Body(TOOL_CALL_RESULT, s1, a, b), Call(s2, a),
   [Call(s2, b) EXCEPT !.arguments = {"command"}],
   Refused(TOOL_CALL_REQUEST, "none", TRUE)}

\* Steps that earn findings, and one body of every other kind.
LogEnvelopes ==
  {Call(s1, a), Body(TOOL_CALL_RESULT, s1, a, b),
   [Call(s1, a) EXCEPT !.arguments = {"url", POLICY_TARGET_LEAF}],
   [Call(s1, a) EXCEPT !.tooLarge = TRUE],
   [Other(NoMethod) EXCEPT !.json = FALSE, !.schema = "invalid"],
   [Other(TOOL_CALL_REQUEST) EXCEPT !.schema = "failed", !.id = "none"],
   [Other(TOOL_CALL_RESULT) EXCEPT !.payload = FALSE],
   Refused("steps/sessionStart", "empty", FALSE), Refused("system/ping", "given", TRUE)} \cup
  {Other(method) : method \in {HANDSHAKE_METHOD, "steps/sessionStart"}}

AllEnvelopes == SomeEnvelopes \cup LogEnvelopes

\* Every step there is, for the store's own next-state relation.
AllSteps == SessionStep

Answered(decision, reason, transform, labels) ==
  [decision |-> decision, reason |-> reason, transform |-> transform, result_labels |-> labels]

\* One verdict that only allows, two with labels, one that cannot be translated.
SomeVerdicts ==
  {Answered("allow", FALSE, "none", NoLabels),
   Answered("warn", TRUE, "none", secret),
   Answered("deny", TRUE, "none", public),
   Answered("transform", TRUE, "other_path", secret)}

RequestSymmetry == Permutations(Requests)

\* What the properties of the run with three requests read.  The logs and the
\* write times, which no action's effect on these depends on, are left out of
\* the fingerprint.
StepView == <<sessions, order, evictions, restarts,
              phase, envelope, entry, supplied, emitted, answer>>

=============================================================================
