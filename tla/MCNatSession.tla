---------------------------- MODULE MCNatSession -----------------------------
(* Small instances of NatSession. *)
EXTENDS NatSession

CONSTANTS c1, c2

hello(deny, evaluates) ==
  [kind |-> "negotiated", deny |-> deny, evaluates |-> evaluates, start_failure |-> FALSE]

\* A Guardian that evaluates everything but results, one that denies on failure and
\* evaluates neither sessionStart nor toolCallRequest, and no Guardian.
SomeHellos ==
  {hello(FALSE, Methods \ {"steps/toolCallResult"}),
   hello(TRUE, Methods \ {"steps/sessionStart", "steps/toolCallRequest"}), NoAnswer}
OneHello == {hello(FALSE, Methods)}

AllKinds == {"workflow", "stream", "own"}
OnePosture == {<<FALSE, TRUE>>}
\* What the guards and the properties read: the counts of failures are left out, and
\* of the requests sent, in order as they were, what tells where the next may stand.
sent_so_far ==
  <<sent = <<>>, Len(sent) = 1, sent # <<>> /\ sent[Len(sent)] = "steps/sessionEnd">>
uncounted == <<settings, run, shut, queue, ended, closed, in_flight, input_refusal, decision, lock, pc, stage,
               sent_so_far, late, ran>>
=============================================================================
