---------------------------- MODULE GuardianSteps ----------------------------
(***************************************************************************)
(* The Guardian's request handling (packages/guardian/src/server.ts) over   *)
(* the session-context store.  A handler runs without interruption from the *)
(* arrival of its body to the await of the policy bridge, and again from    *)
(* the bridge's answer to its own; between the two, other handlers run.     *)
(* So a step is two actions: Arrive (log, validate, examine, append to the  *)
(* chain, read the labels) and Settle (map the verdict, store its labels,   *)
(* answer, log).  The policy engine behind the bridge is external: it       *)
(* returns any verdict, or fails.                                           *)
(***************************************************************************)
EXTENDS RequestIntake, VerdictMapping

CONSTANTS
  Requests,    \* one identifier per HTTP request
  Envelopes,   \* the bodies a client can send
  Verdicts,    \* the verdicts the policy engine can return
  NoLabels,    \* a verdict without result_labels (undefined)
  None         \* a request has no such value

Verdict == [decision : AgtDecisions, reason : BOOLEAN, transform : Transforms,
            result_labels : IfcLabels \cup {NoLabels}]

\* Any step can reach the store's append.
ASSUME AllStepsAssumption == Steps = SessionStep
ASSUME EnvelopesAssumption == Envelopes \subseteq Envelope
ASSUME VerdictsAssumption == Verdicts \subseteq Verdict
ASSUME OutcomeAssumption == NoLabels \notin IfcLabels /\ None \notin IfcLabels \cup {NoLabels}

\* A decision, a ServerHello, or one of the Guardian's JSON-RPC errors.
Results == AcsDecisions \cup
  {"hello", "parse_error", "envelope_invalid", "evaluation_failed", "method_not_dispatched"}
Answer == [id : BOOLEAN, result : Results]

VARIABLES
  phase,     \* "unsent", "evaluating", "answered", or "lost" with the process
  envelope,  \* the body of each request
  entry,     \* the chain entry a step appended
  supplied,  \* the labels put in a step's snapshot
  emitted,   \* the labels of the verdict a step was answered from
  answer,    \* the response of each answered request
  envlog,    \* rows the envelope log accepted: <<direction, request>>
  envdown,   \* the envelope log sink met a failure and stopped for this life
  envtorn,   \* the envelope log ends in a fragment of a row, with no newline
  glued,     \* the accepted rows that share a line with a fragment: unreadable
  stderr     \* findings reported on stderr instead

logVars == <<envlog, envdown, envtorn, glued, stderr>>
stepVars == <<phase, envelope, entry, supplied, emitted, answer, logVars>>
vars == <<storeVars, stepVars>>

\* A valid tool call or its result reaches a gate; every other body does not.
IsStep(e) == handleAcsRequest(e) \in Methods

-----------------------------------------------------------------------------
(* The envelope log sink (envelope-log-sink.ts). *)

\* Mutant: a row that fails is skipped and the next one tried.
WritesAnyway(rows, k) ==
  /\ k \in 0..Len(rows)
  /\ envlog' = envlog \o SubSeq(rows, Len(rows) - k + 1, Len(rows))
  /\ UNCHANGED <<envdown, envtorn, glued>>

\* The sink takes the first k of the rows a handler writes in a row; at the
\* first failure it stops for good, and part of that row may be in the file.
\* The append does not look at what the file ends in: the first row of a later
\* process is accepted, and lost behind the fragment of an earlier one.
Writes(rows, k) ==
  /\ IF envdown THEN k = 0 ELSE k \in 0..Len(rows)
  /\ envlog' = envlog \o SubSeq(rows, 1, k)
  /\ envdown' = (envdown \/ k < Len(rows))
  /\ glued' = IF envtorn /\ k > 0 THEN glued \cup {rows[1]} ELSE glued
  /\ \/ envtorn' = (envtorn /\ k = 0)
     \/ ~envdown /\ k < Len(rows) /\ envtorn' = TRUE

-----------------------------------------------------------------------------
(* examineStep: what is established about a step before it is appended. *)

\* Mutant: a reference is looked up among all request ids.
examineStepAnyMethod(e) ==
  LET unresolved == /\ isToolCallResult(e) /\ e.ref # NoRef
                    /\ ~hasRequestId(e.session_id, e.ref)
  IN [findings |-> IF unresolved THEN {"request_id_ref_unresolved"} ELSE {},
      request_id_ref |-> IF unresolved THEN e.ref ELSE NoRef]

examineStep(e) ==
  LET duplicate == hasRequestId(e.session_id, e.request_id)
      unresolved == /\ isToolCallResult(e)
                    /\ e.ref # NoRef
                    /\ ~hasToolCallRequest(e.session_id, e.ref)
  IN [findings |-> {f \in Findings : \/ f = "request_id_duplicate" /\ duplicate
                                     \/ f = "request_id_ref_unresolved" /\ unresolved},
      request_id_ref |-> IF unresolved THEN e.ref ELSE NoRef]

\* The SessionStep evaluateStep appends for a body.
stepOf(e) ==
  LET found == examineStep(e)
  IN [method |-> e.method, request_id |-> e.request_id,
      findings |-> found.findings, request_id_ref |-> found.request_id_ref]

\* The findings in the order they are recorded.
findingRows(e, r) ==
  LET found == examineStep(e).findings
      row(f) == IF f \in found THEN <<<<f, r>>>> ELSE << >>
  IN row("request_id_duplicate") \o row("request_id_ref_unresolved")

\* recordFinding: what the log did not take goes to stderr.
reported(rows, k) == {rows[i] : i \in (k + 1)..Len(rows)} \cap (Findings \X Requests)

-----------------------------------------------------------------------------
(* Answers. *)

\* Everything but a valid step is answered without leaving the handler.
promptAnswer(e) ==
  LET kind == handleAcsRequest(e)
      addressed(result) == [id |-> extractId(e) # "null", result |-> result]
  IN CASE kind = "oversize" -> [id |-> FALSE, result |-> "envelope_invalid"]
       [] kind = "unparseable" -> [id |-> FALSE, result |-> "parse_error"]
       [] kind = "invalid" ->
            addressed(IF isStepMethod(e) /\ asDecisionResponse(e) THEN "deny" ELSE "envelope_invalid")
       [] kind = "fault" -> addressed("evaluation_failed")
       [] kind = "handshake" -> addressed("hello")
       [] kind = "undispatched" -> addressed("method_not_dispatched")

\* Mutant: a failed evaluation lets the step through.
failedAnswerOpen == [id |-> TRUE, result |-> "allow"]

\* A valid step's evaluation that throws anywhere is an honoured deny: a valid
\* body carries the ids that address one.
failedAnswer == [id |-> TRUE, result |-> "deny"]

\* A body nothing was read from has no request row.
requestRows(e, r) ==
  IF handleAcsRequest(e) \in {"oversize", "unparseable"} THEN << >> ELSE <<<<"request", r>>>>

-----------------------------------------------------------------------------
(* Actions. *)

Record(r, e) ==
  /\ phase[r] = "unsent"
  /\ envelope' = [envelope EXCEPT ![r] = e]

Answers(r, a) ==
  /\ phase' = [phase EXCEPT ![r] = "answered"]
  /\ answer' = [answer EXCEPT ![r] = a]

\* A body that is not a step the Guardian evaluates.
ArriveOther(r, e) ==
  /\ ~IsStep(e)
  /\ Record(r, e)
  /\ Answers(r, promptAnswer(e))
  /\ \E k \in 0..2 : Writes(Append(requestRows(e, r), <<"response", r>>), k)
  /\ UNCHANGED <<storeVars, entry, supplied, emitted, stderr>>

\* A valid step: examined, appended, its labels read, and then either its
\* snapshot is sent to the bridge, or assembling it throws.
ArriveStep(r, e) ==
  LET s == e.session_id
      rows == requestRows(e, r) \o findingRows(e, r)
      done == IF assembles(e) THEN rows ELSE Append(rows, <<"response", r>>)
  IN /\ IsStep(e)
     /\ Record(r, e)
     /\ append(s, stepOf(e))
     /\ entry' = [entry EXCEPT ![r] = nextEntry(read(s), s, stepOf(e))]
     /\ supplied' = [supplied EXCEPT ![r] = sourceLabels(s)']
     /\ IF assembles(e)
        THEN phase' = [phase EXCEPT ![r] = "evaluating"] /\ UNCHANGED answer
        ELSE Answers(r, failedAnswer)
     /\ \E k \in 0..Len(done) :
          Writes(done, k) /\ stderr' = stderr \cup reported(done, k)
     /\ UNCHANGED emitted

\* Mutant: the record is edited in place, behind the store's back.
persistInPlace(s, labels) ==
  /\ sessions' = IF labels # NoLabels /\ s \in Retained
                 THEN [sessions EXCEPT ![s].ifc_labels = labels] ELSE sessions
  /\ UNCHANGED <<order, log, torn, disabled, evictions, lastWrite, writes, restarts>>

\* persistIfcLabels: undefined leaves the session alone, anything else replaces.
persistIfcLabels(s, labels) ==
  IF labels = NoLabels THEN UNCHANGED storeVars ELSE replaceIfcLabels(s, labels)

\* Mutant: labels are stored before the verdict is known to translate.
SettlePersistingFirst(r, verdict) ==
  LET e == envelope[r]
      point == resolveInterventionPoint(e.method)
      decision == mapVerdict(verdict, point)
  IN /\ phase[r] = "evaluating"
     /\ persistIfcLabels(e.session_id, verdict.result_labels)
     /\ Answers(r, IF decision = Throws THEN failedAnswer ELSE [id |-> TRUE, result |-> decision])
     /\ emitted' = [emitted EXCEPT ![r] =
                      IF decision = Throws THEN None ELSE verdict.result_labels]
     /\ \E k \in 0..1 : Writes(<<<<"response", r>>>>, k)
     /\ UNCHANGED <<envelope, entry, supplied, stderr>>

\* The bridge returned a verdict.
Settle(r, verdict) ==
  LET e == envelope[r]
      point == resolveInterventionPoint(e.method)
      decision == mapVerdict(verdict, point)
  IN /\ phase[r] = "evaluating"
     /\ IF decision = Throws
        THEN /\ Answers(r, failedAnswer)
             /\ UNCHANGED <<storeVars, emitted>>
        ELSE /\ Answers(r, [id |-> TRUE, result |-> decision])
             /\ persistIfcLabels(e.session_id, verdict.result_labels)
             /\ emitted' = [emitted EXCEPT ![r] = verdict.result_labels]
     /\ \E k \in 0..1 : Writes(<<<<"response", r>>>>, k)
     /\ UNCHANGED <<envelope, entry, supplied, stderr>>

\* The bridge failed: the policy engine rejected, or could not be reached.
Fail(r) ==
  /\ phase[r] = "evaluating"
  /\ Answers(r, failedAnswer)
  /\ \E k \in 0..1 : Writes(<<<<"response", r>>>>, k)
  /\ UNCHANGED <<storeVars, envelope, entry, supplied, emitted, stderr>>

\* The process ends with its requests in flight, and starts again.
Crash ==
  /\ Restart
  /\ phase' = [r \in Requests |-> IF phase[r] = "evaluating" THEN "lost" ELSE phase[r]]
  /\ envdown' \in BOOLEAN
  /\ UNCHANGED <<envelope, entry, supplied, emitted, answer, envlog, envtorn, glued, stderr>>

Init ==
  /\ StoreInit
  /\ phase = [r \in Requests |-> "unsent"]
  /\ envelope = [r \in Requests |-> None]
  /\ entry = [r \in Requests |-> None]
  /\ supplied = [r \in Requests |-> None]
  /\ emitted = [r \in Requests |-> None]
  /\ answer = [r \in Requests |-> None]
  /\ envlog = << >>
  /\ envdown \in BOOLEAN
  /\ envtorn = FALSE
  /\ glued = {}
  /\ stderr = {}

\* The policy bridge ends the evaluation of r.  Nothing obliges it to: the
\* handler of a bridge that never answers stays open (server.ts:482-485).
Evaluation(r) == Fail(r) \/ \E verdict \in Verdicts : Settle(r, verdict)

Next ==
  \/ \E r \in Requests, e \in Envelopes : ArriveOther(r, e) \/ ArriveStep(r, e)
  \/ \E r \in Requests : Evaluation(r)
  \/ Crash

Spec == Init /\ [][Next]_vars

-----------------------------------------------------------------------------
(* Properties. *)

StepsTypeOK ==
  /\ phase \in [Requests -> {"unsent", "evaluating", "answered", "lost"}]
  /\ envelope \in [Requests -> Envelopes \cup {None}]
  /\ entry \in [Requests -> SessionContextEntry \cup {None}]
  /\ supplied \in [Requests -> IfcLabels \cup {None}]
  /\ emitted \in [Requests -> IfcLabels \cup {NoLabels, None}]
  /\ answer \in [Requests -> Answer \cup {None}]
  /\ envlog \in Seq(({"request", "response"} \cup Findings) \X Requests)
  /\ envdown \in BOOLEAN /\ envtorn \in BOOLEAN
  /\ glued \subseteq ({"request", "response"} \cup Findings) \X Requests
  /\ stderr \subseteq Findings \X Requests

\* The step of request r is still on its session's chain, where it was appended.
OnChain(r) ==
  /\ entry[r] # None
  /\ LET chain == read(envelope[r].session_id).entries
     IN entry[r].seq <= Len(chain) /\ chain[entry[r].seq] = entry[r]

\* The findings on a step's entry are exactly what the chain in front of it
\* says, however its handler overlapped with others: a duplicate is an id some
\* earlier entry carries, an unresolved reference one no earlier call carries.
FindingsAreExact ==
  \A r \in Requests : OnChain(r) =>
    LET e == envelope[r]
        chain == read(e.session_id).entries
        earlier == 1..(entry[r].seq - 1)
        found == entry[r].step.findings
    IN /\ "request_id_duplicate" \in found
            <=> \E i \in earlier : chain[i].step.request_id = e.request_id
       /\ "request_id_ref_unresolved" \in found
            <=> /\ isToolCallResult(e) /\ e.ref # NoRef
                /\ ~\E i \in earlier : /\ chain[i].step.method = TOOL_CALL_REQUEST
                                       /\ chain[i].step.request_id = e.ref

\* A finding is on record as soon as its step is on the chain: on a line of its
\* own in the envelope log, or on stderr when the log refused it or had stopped.
FindingsAreRecorded ==
  \A r \in Requests : entry[r] # None =>
    \A f \in entry[r].step.findings :
      \/ <<f, r>> \in stderr
      \/ <<f, r>> \notin glued /\ \E i \in 1..Len(envlog) : envlog[i] = <<f, r>>

\* The envelope log never takes an answer or a finding whose request it did not
\* take before, other than for a body nothing could be read from.
RowsFollowTheirRequest ==
  \A i \in 1..Len(envlog) :
    LET r == envlog[i][2]
    IN (envlog[i][1] # "request" /\ requestRows(envelope[r], r) # << >>)
         => \E j \in 1..(i - 1) : envlog[j] = <<"request", r>>

\* Of what the log took, a reader of the file misses at most one row for each
\* restart, the first one of a process, joined to what a torn append left; it
\* may be the request that later rows follow.
FewRowsAreGlued == Cardinality(glued) <= restarts

\* Every step taken is on its session's chain, denied and failed ones too,
\* unless the session was evicted or the process restarted.
EveryStepIsOnTheChain ==
  \A r \in Requests : entry[r] # None =>
    OnChain(r) \/ evictions[envelope[r].session_id] + restarts > 0

\* Whatever overlaps, fails or is evicted, a step that was taken is on record:
\* on its session's chain, its findings can be read, its rows are behind its
\* request's, and no more than one row for each restart is lost to a torn line.
StepsAreOnRecord ==
  EveryStepIsOnTheChain /\ FindingsAreRecorded /\ RowsFollowTheirRequest /\ FewRowsAreGlued

\* A retained session's labels change only to what the verdict of one of its
\* own steps returned, as that step is answered: a failed or untranslatable
\* evaluation, an invalid envelope or another session's step never moves them.
LabelsMoveWithVerdicts ==
  [][\A s \in Retained \cap Retained' :
       sessions'[s].ifc_labels # sessions[s].ifc_labels =>
         \E r \in Requests : /\ phase[r] = "evaluating" /\ phase'[r] = "answered"
                             /\ envelope[r].session_id = s
                             /\ emitted'[r] = sessions'[s].ifc_labels]_vars

\* The Guardian does not fail open: nothing but a policy verdict that could be
\* translated lets a call through, as it is, modified or to be asked about.
OnlyVerdictsPermit ==
  \A r \in Requests :
    (answer[r] # None /\ answer[r].result \in AcsDecisions \ {"deny"}) => emitted[r] # None

\* README.md's claim: the labels AGT emitted at one step are the input of the
\* next step of the session.  Two steps in flight at once break it: the one
\* answered last replaces the labels of the later one.
LabelsComeBack ==
  [][\A p, n \in Requests :
       (/\ OnChain(p) /\ phase[p] = "answered" /\ emitted[p] \in IfcLabels
        /\ entry[n] = None /\ entry'[n] # None
        /\ envelope'[n].session_id = envelope[p].session_id
        /\ entry'[n].seq = entry[p].seq + 1)
       => supplied'[n] = emitted[p]]_vars

=============================================================================
