--------------------------- MODULE RequestIntake ---------------------------
(***************************************************************************)
(* What the Guardian makes of a request body: how much of it is read, what *)
(* validation says (validate-envelope.ts), whether a refusal can be        *)
(* addressed (deny-on-invalid-envelope.ts), which gate it reaches          *)
(* (server.ts, dispatch) and whether its snapshot can be assembled         *)
(* (assemble-snapshot.ts).  Pure: GuardianSteps takes each body through it.*)
(***************************************************************************)
EXTENDS SessionContextStore

HANDSHAKE_METHOD == "handshake/hello"
NoMethod == "no method"  \* not an object, or its method is not a string
\* The other two stand for every other method with and without the prefix steps/.
WireMethods == Methods \cup {HANDSHAKE_METHOD, "steps/sessionStart", "system/ping", NoMethod}

\* mapping.yaml, policy_target_argument: read from url for WebFetch, and from
\* command for every tool it does not list.
Tools == {"Bash", "WebFetch"}
POLICY_TARGET_LEAF == "acs_policy_target"
Arguments == {"command", "url", POLICY_TARGET_LEAF}

\* A body as it comes off the wire: whether its declared and its actual length
\* pass the cap, whether it parses, what it carries where the Guardian looks,
\* and what the general schema and the payload's schema say of it; "failed" is
\* a registry that cannot be built.  What request-envelope.json accepts has a
\* method, an id and a request_id.
Envelope ==
  {e \in [declaredTooLarge : BOOLEAN, tooLarge : BOOLEAN, json : BOOLEAN,
          method : WireMethods, id : {"none", "empty", "given"}, named : BOOLEAN,
          schema : {"valid", "invalid", "failed"}, payload : BOOLEAN,
          tool : Tools, arguments : SUBSET Arguments, session_id : Sessions,
          request_id : RequestIds, ref : RequestIds \cup {NoRef}] :
     e.schema = "valid" => e.method # NoMethod /\ e.id # "none" /\ e.named}

\* The cap is on the bytes read; a declared length can refuse, never admit.
readCappedBody(e) == [withinLimit |-> ~e.declaredTooLarge /\ ~e.tooLarge]

\* extractId: what a response can be correlated by, if anything.
extractId(e) == IF e.id = "none" THEN "null" ELSE e.id
isStepMethod(e) == e.method \in Methods \cup {"steps/sessionStart"}

\* The two gates: each predicate stands for the payload schema checked under it.
isToolCallRequest(e) == e.method = TOOL_CALL_REQUEST
isToolCallResult(e) == e.method = TOOL_CALL_RESULT

\* Every lookup builds the registry of schemas first, and throws if it cannot.
getValidator(e) == IF e.schema = "failed" THEN "throws" ELSE "validator"
checkHookPayload(e) == e.payload
validateEnvelope(e) ==
  e.schema = "valid" /\ (isToolCallRequest(e) \/ isToolCallResult(e) => checkHookPayload(e))
validateForDispatch(e) ==
  CASE getValidator(e) = "throws" -> "failed"
    [] getValidator(e) # "throws" /\ validateEnvelope(e) -> "valid"
    [] OTHER -> "invalid"

\* denyOnInvalidEnvelope: a deny names the ACS request_id, or failing that the
\* JSON-RPC id, and is unaddressable without either.
denyOnInvalidEnvelope(e) == IF e.named \/ e.id = "given" THEN "decision" ELSE "unaddressable"
asDecisionResponse(e) == denyOnInvalidEnvelope(e) = "decision" /\ extractId(e) # "null"

\* mapping.yaml: the point each gate's policy is evaluated at, and the argument
\* its target is read from; the result gate reads none.
resolveInterventionPoint(method) ==
  IF method = TOOL_CALL_REQUEST THEN "pre_tool_call" ELSE "post_tool_call"
resolvePolicyTargetArgument(tool) == IF tool = "WebFetch" THEN "url" ELSE "command"

\* A call that lacks the argument its policy target is read from, or sends one
\* under the name the target is written to, has no snapshot: the assembler throws.
assemblePreToolCallSnapshot(e) ==
  /\ POLICY_TARGET_LEAF \notin e.arguments
  /\ resolvePolicyTargetArgument(e.tool) \in e.arguments
assemblePostToolCallSnapshot(e) == TRUE
assembles(e) ==
  IF isToolCallRequest(e) THEN assemblePreToolCallSnapshot(e) ELSE assemblePostToolCallSnapshot(e)

Kinds == {"oversize", "unparseable", "fault", "invalid", "handshake", "undispatched"} \cup Methods

\* What dispatch makes of a body that was read and parsed: the gate it reaches,
\* or why it reaches none.
dispatch(e) ==
  CASE validateForDispatch(e) = "failed" -> "fault"
    [] validateForDispatch(e) = "invalid" -> "invalid"
    [] OTHER -> CASE isToolCallRequest(e) -> TOOL_CALL_REQUEST
                  [] isToolCallResult(e) -> TOOL_CALL_RESULT
                  [] e.method = HANDSHAKE_METHOD -> "handshake"
                  [] OTHER -> "undispatched"

handleAcsRequest(e) ==
  IF ~readCappedBody(e).withinLimit THEN "oversize"
  ELSE IF ~e.json THEN "unparseable" ELSE dispatch(e)

=============================================================================
