----------------------------- MODULE AcsSession ------------------------------
(***************************************************************************)
(* What the Python client promises of one ACS session, whatever hook        *)
(* processes serve it (adapters/docs/claude_code/mapping.md, Concurrency):  *)
(* one handshake answer holds for the session, its sessionStart is          *)
(* attempted at most once, one outcome of it holds for the session, and     *)
(* steps reach the Guardian only under that outcome.                        *)
(***************************************************************************)
EXTENDS Naturals

CONSTANTS
  Answers,   \* what a handshake can come to
  Outcomes,  \* what a sessionStart can come to
  Opens(_),  \* the answers under which a session is started
  Serves(_), \* the outcomes under which its steps are sent
  Nothing

VARIABLES
  answer,    \* the session's handshake answer
  attempted, \* its sessionStart was attempted
  outcome,   \* what the sessionStart came to
  steps      \* how many of its steps reached the Guardian

vars == <<answer, attempted, outcome, steps>>

Init == answer = Nothing /\ attempted = FALSE /\ outcome = Nothing /\ steps = 0

Negotiate(a) ==
  /\ answer = Nothing
  /\ answer' = a
  /\ UNCHANGED <<attempted, outcome, steps>>

Attempt ==
  /\ answer # Nothing /\ Opens(answer)
  /\ ~attempted
  /\ attempted' = TRUE
  /\ UNCHANGED <<answer, outcome, steps>>

Conclude(o) ==
  /\ attempted /\ outcome = Nothing
  /\ outcome' = o
  /\ UNCHANGED <<answer, attempted, steps>>

Send ==
  /\ outcome # Nothing /\ Serves(outcome)
  /\ steps' = steps + 1
  /\ UNCHANGED <<answer, attempted, outcome>>

Next ==
  \/ \E a \in Answers : Negotiate(a)
  \/ Attempt
  \/ \E o \in Outcomes : Conclude(o)
  \/ Send

Spec == Init /\ [][Next]_vars

=============================================================================
