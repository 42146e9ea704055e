-------------------------- MODULE MCAdapterSession ---------------------------
(* Small instances of AdapterSession. *)
EXTENDS AdapterSession

CONSTANTS h1, h2

ev(hook, deny, startup, requires, handshake) ==
  [hook |-> hook, deny |-> deny, startup |-> startup, requires |-> requires, handshake |-> handshake]
hello(deny, accepts, evaluates) ==
  [kind |-> "negotiated", deny |-> deny, accepts |-> accepts, evaluates |-> evaluates,
   start_failure |-> None]

\* Hooks that differ in posture, required profile and handshake setting.
StepEvents == {ev("step", TRUE, FALSE, FALSE, TRUE), ev("step", FALSE, TRUE, FALSE, TRUE),
               ev("step", FALSE, FALSE, TRUE, TRUE), ev("SessionStart", FALSE, FALSE, FALSE, FALSE)}
EndEvents == {ev("step", FALSE, FALSE, FALSE, TRUE), ev("SessionEnd", TRUE, FALSE, FALSE, TRUE)}

OneHello == {hello(FALSE, TRUE, TRUE)}

AllEvents == StepEvents \cup EndEvents

\* Only the first hook may end the session, and beside it there is a plain step,
\* under one Guardian.
EndsArePlain ==
  /\ event'[h2] # None => event'[h2].hook # "SessionEnd"
  /\ (event'[h1] # None /\ event'[h1].hook = "SessionEnd") =>
       /\ event'[h2] \in EndEvents \cup {None}
       /\ \A g \in Gens : record'[g] \in OneHello \cup {None}

\* Every kind of answer; a Guardian that denies on failure, and one that declines
\* the profile and does not evaluate sessionStart.
Hellos == {hello(FALSE, TRUE, TRUE), hello(TRUE, TRUE, TRUE), hello(FALSE, FALSE, FALSE),
           SessionRefused, NoAnswer}

AllWrites == {"mark", "lock", "record", "claim", "outcome", "state"}
=============================================================================
