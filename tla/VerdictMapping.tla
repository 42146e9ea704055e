--------------------------- MODULE VerdictMapping ---------------------------
(***************************************************************************)
(* mapVerdict (packages/guardian/src/map-verdict.ts) under the repository's *)
(* mapping.yaml: an AGT verdict becomes an ACS decision, or the mapping     *)
(* throws.  A verdict is reduced to what the translation branches on: its   *)
(* decision, whether it names a rule (a non-empty reason), and what rewrite *)
(* it carries.  Composed wording is left out.                               *)
(***************************************************************************)

CONSTANT Throws   \* the outcome of a translation that throws

AgtDecisions == {"allow", "deny", "warn", "escalate", "transform", "unknown"}

\* The rewrite: none, of a path the mapping cannot express, or of the policy
\* target with a string or with some other value.
Transforms == {"none", "other_path", "string", "value"}

AcsDecisions == {"allow", "deny", "ask", "modify"}

\* mapping.yaml, "verdicts": the decision, and whether it must cite a policy.
verdicts ==
  [allow     |-> [decision |-> "allow",  require_policy_references |-> FALSE],
   deny      |-> [decision |-> "deny",   require_policy_references |-> FALSE],
   warn      |-> [decision |-> "allow",  require_policy_references |-> TRUE],
   escalate  |-> [decision |-> "ask",    require_policy_references |-> FALSE],
   transform |-> [decision |-> "modify", require_policy_references |-> FALSE]]

\* mapping.yaml, "intervention_points": where each gate's rewrite goes.  An
\* override lands on the argument the policy target was read from, a
\* redaction's replacement has to be a string.
modificationsInto == [pre_tool_call |-> "parameter_overrides", post_tool_call |-> "redactions"]

synthesizes(verdict, point) ==
  \/ modificationsInto[point] = "parameter_overrides" /\ verdict.transform \in {"string", "value"}
  \/ modificationsInto[point] = "redactions" /\ verdict.transform = "string"

mapVerdict(verdict, point) ==
  IF /\ verdict.decision \in DOMAIN verdicts
     /\ verdicts[verdict.decision].require_policy_references => verdict.reason
     /\ verdicts[verdict.decision].decision = "modify" => synthesizes(verdict, point)
  THEN verdicts[verdict.decision].decision
  ELSE Throws

=============================================================================
