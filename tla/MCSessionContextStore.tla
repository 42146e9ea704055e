----------------------- MODULE MCSessionContextStore -----------------------
(* A small instance of SessionContextStore for TLC. *)
EXTENDS SessionContextStore, TLC

CONSTANTS s1, s2, s3, r1, r2, public, secret

\* A request, and a result that repeats its id and refers to nothing.
TwoSteps ==
  {[method |-> TOOL_CALL_REQUEST, request_id |-> r1, findings |-> {}, request_id_ref |-> NoRef],
   [method |-> TOOL_CALL_RESULT, request_id |-> r2,
    findings |-> {"request_id_ref_unresolved"}, request_id_ref |-> r2]}

SessionSymmetry == Permutations(Sessions)

=============================================================================
