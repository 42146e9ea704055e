------------------------ MODULE GuardianSteps_proofs ------------------------
(***************************************************************************)
(* Proofs about GuardianSteps: its handlers use the store only through the *)
(* store's own operations, so what is proved of the store holds of the     *)
(* Guardian, and nothing but a verdict lets a call through.                *)
(***************************************************************************)
EXTENDS GuardianSteps, SessionContextStore_proofs, SequenceTheorems

\* A request in flight is a valid step; an answer that permits comes with a
\* verdict, and there is none before the request is answered.
FlightInv ==
  /\ \A r \in Requests : phase[r] = "evaluating" => envelope[r] \in Envelopes /\ IsStep(envelope[r])
  /\ answer \in [Requests -> Answer \cup {None}]
  /\ DOMAIN emitted = Requests /\ DOMAIN envelope = Requests /\ DOMAIN phase = Requests
  /\ OnlyVerdictsPermit

\* Every body is of one kind, and one that reaches a gate names that gate's method.
LEMMA HandledKinds == ASSUME NEW e PROVE handleAcsRequest(e) \in Kinds
BY DEF handleAcsRequest, dispatch, validateForDispatch, getValidator, Kinds, Methods

LEMMA GateIsMethod ==
  ASSUME NEW e, IsStep(e) PROVE e.method \in Methods /\ e.method = handleAcsRequest(e)
BY DEF IsStep, handleAcsRequest, dispatch, validateForDispatch, getValidator, Methods,
       isToolCallRequest, isToolCallResult, TOOL_CALL_REQUEST, TOOL_CALL_RESULT

\* examineStep and stepOf build a step the store can take.
LEMMA StepOfIsStep == ASSUME NEW e \in Envelopes, IsStep(e) PROVE stepOf(e) \in Steps
<1>1. e \in Envelope
  BY EnvelopesAssumption
<1>2. examineStep(e).findings \subseteq Findings
      /\ examineStep(e).request_id_ref \in RequestIds \cup {NoRef}
  BY <1>1 DEF examineStep, Envelope
<1>3. e.method \in Methods /\ e.request_id \in RequestIds
  BY <1>1, GateIsMethod DEF Envelope
<1> QED BY <1>2, <1>3, AllStepsAssumption DEF stepOf, SessionStep

\* Every action's effect on the store is one store operation, or none.
LEMMA NextIsStoreStep == FlightInv /\ [Next]_vars => [StoreNext]_storeVars
<1> SUFFICES ASSUME FlightInv, [Next]_vars PROVE [StoreNext]_storeVars
  OBVIOUS
<1>1. ASSUME NEW r \in Requests, NEW e \in Envelopes, ArriveOther(r, e) PROVE UNCHANGED storeVars
  BY <1>1 DEF ArriveOther
<1>2. ASSUME NEW r \in Requests, NEW e \in Envelopes, ArriveStep(r, e) PROVE StoreNext
  <2>1. IsStep(e) /\ append(e.session_id, stepOf(e))
    BY <1>2 DEF ArriveStep
  <2>2. e.session_id \in Sessions
    BY EnvelopesAssumption DEF Envelope
  <2>3. stepOf(e) \in Steps
    BY <2>1, StepOfIsStep
  <2> QED BY <2>1, <2>2, <2>3 DEF StoreNext
<1>3. ASSUME NEW r \in Requests, Fail(r) PROVE UNCHANGED storeVars
  BY <1>3 DEF Fail
<1>4. ASSUME NEW r \in Requests, NEW verdict \in Verdicts, Settle(r, verdict)
      PROVE  StoreNext \/ UNCHANGED storeVars
  <2>1. envelope[r].session_id \in Sessions
    BY <1>4, EnvelopesAssumption DEF Settle, FlightInv, Envelope
  <2>2. \/ UNCHANGED storeVars
        \/ persistIfcLabels(envelope[r].session_id, verdict.result_labels)
    BY <1>4 DEF Settle
  <2>3. verdict.result_labels \in IfcLabels \cup {NoLabels}
    BY VerdictsAssumption DEF Verdict
  <2>4. \/ UNCHANGED storeVars
        \/ /\ verdict.result_labels \in IfcLabels
           /\ replaceIfcLabels(envelope[r].session_id, verdict.result_labels)
    BY <2>2, <2>3 DEF persistIfcLabels
  <2> QED BY <2>1, <2>4 DEF StoreNext
<1>5. CASE Crash
  BY <1>5 DEF Crash, StoreNext
<1>6. CASE UNCHANGED vars
  BY <1>6 DEF vars
<1> QED BY <1>1, <1>2, <1>3, <1>4, <1>5, <1>6 DEF Next, Evaluation

\* What mapVerdict answers is an ACS decision, or it throws.
LEMMA MapVerdictDecides ==
  ASSUME NEW verdict, NEW point
  PROVE  mapVerdict(verdict, point) \in AcsDecisions \cup {Throws}
BY DEF mapVerdict, verdicts, AcsDecisions

\* What is answered without a verdict never permits.
LEMMA PromptAnswersDeny ==
  ASSUME NEW e \in Envelopes, ~IsStep(e)
  PROVE  /\ promptAnswer(e) \in Answer
         /\ promptAnswer(e).result \notin AcsDecisions \ {"deny"}
<1>1. handleAcsRequest(e) \in Kinds \ Methods
  BY HandledKinds DEF IsStep
<1> QED BY <1>1 DEF promptAnswer, Kinds, Methods, TOOL_CALL_REQUEST, TOOL_CALL_RESULT,
                    Answer, Results, AcsDecisions

LEMMA FlightInit == Init => FlightInv
BY DEF Init, FlightInv, OnlyVerdictsPermit

LEMMA FlightNext == FlightInv /\ [Next]_vars => FlightInv'
<1> SUFFICES ASSUME FlightInv, [Next]_vars PROVE FlightInv'
  OBVIOUS
<1> USE DEF FlightInv, OnlyVerdictsPermit
<1>1. failedAnswer \in Answer /\ failedAnswer.result = "deny"
  BY DEF failedAnswer, Answer, Results, AcsDecisions
<1>2. ASSUME NEW r \in Requests, NEW e \in Envelopes, ArriveOther(r, e) PROVE FlightInv'
  BY <1>2, PromptAnswersDeny DEF ArriveOther, Record, Answers
<1>3. ASSUME NEW r \in Requests, NEW e \in Envelopes, ArriveStep(r, e) PROVE FlightInv'
  BY <1>1, <1>3 DEF ArriveStep, Record, Answers
<1>4. ASSUME NEW r \in Requests, Fail(r) PROVE FlightInv'
  BY <1>1, <1>4 DEF Fail, Answers
<1>5. ASSUME NEW r \in Requests, NEW verdict \in Verdicts, Settle(r, verdict) PROVE FlightInv'
  <2> DEFINE point == resolveInterventionPoint(envelope[r].method)
             decision == mapVerdict(verdict, point)
  <2>1. phase' = [phase EXCEPT ![r] = "answered"] /\ envelope' = envelope
    BY <1>5 DEF Settle, Answers
  <2>2. CASE decision = Throws
    <3>1. answer' = [answer EXCEPT ![r] = failedAnswer] /\ emitted' = emitted
      BY <1>5, <2>2 DEF Settle, Answers
    <3> QED BY <1>1, <2>1, <3>1
  <2>3. CASE decision # Throws
    <3>1. /\ answer' = [answer EXCEPT ![r] = [id |-> TRUE, result |-> decision]]
          /\ emitted' = [emitted EXCEPT ![r] = verdict.result_labels]
      BY <1>5, <2>3 DEF Settle, Answers
    <3>2. decision \in AcsDecisions
      BY <2>3, MapVerdictDecides
    <3>3. [id |-> TRUE, result |-> decision] \in Answer
      BY <3>2 DEF Answer, Results
    <3>4. verdict.result_labels # None
      BY VerdictsAssumption, OutcomeAssumption DEF Verdict
    <3> HIDE DEF decision
    <3> QED BY <2>1, <3>1, <3>3, <3>4
  <2> QED BY <2>2, <2>3
<1>6. CASE Crash
  BY <1>6 DEF Crash
<1>7. CASE UNCHANGED vars
  BY <1>7 DEF vars, stepVars, logVars
<1> QED BY <1>2, <1>3, <1>4, <1>5, <1>6, <1>7 DEF Next, Evaluation

THEOREM FlightInvariant == Spec => []FlightInv
BY FlightInit, FlightNext, PTL DEF Spec

\* The Guardian's handlers, interleaved in any way, implement the store's
\* specification: they touch it only through its operations.
THEOREM GuardianImplementsStore == Spec => StoreSpec
<1>1. Init => StoreInit
  BY DEF Init
<1> QED BY <1>1, NextIsStoreStep, FlightInvariant, PTL DEF Spec, StoreSpec

\* So no interleaving of handlers breaks a retained session's chain.
THEOREM GuardianKeepsChainsEntire == Spec => []ChainEntire
BY GuardianImplementsStore, RetainedChainIsEntire, PTL

\* The Guardian does not fail open: only a translated verdict permits a call.
THEOREM GuardianFailsClosed == Spec => []OnlyVerdictsPermit
<1>1. FlightInv => OnlyVerdictsPermit
  BY DEF FlightInv
<1> QED BY <1>1, FlightInvariant, PTL

-----------------------------------------------------------------------------
(* Types of the requests. *)

Row == ({"request", "response"} \cup Findings) \X Requests

LogTypes == /\ envlog \in Seq(Row) /\ glued \subseteq Row
            /\ envdown \in BOOLEAN /\ envtorn \in BOOLEAN

LEMMA WritesTypes ==
  ASSUME envlog \in Seq(Row), envdown \in BOOLEAN, envtorn \in BOOLEAN, glued \subseteq Row,
         NEW rows \in Seq(Row), NEW k \in 0..Len(rows), Writes(rows, k)
  PROVE  LogTypes'
<1>1. SubSeq(rows, 1, k) \in Seq(Row) /\ (k > 0 => rows[1] \in Row)
  OBVIOUS
<1>2. glued' \subseteq Row
  BY <1>1 DEF Writes
<1>3. envlog' \in Seq(Row)
  BY <1>1 DEF Writes
<1>4. envdown' \in BOOLEAN /\ envtorn' \in BOOLEAN
  BY Zenon DEF Writes
<1> QED BY <1>2, <1>3, <1>4 DEF LogTypes

\* The rows a handler writes before it answers.
LEMMA RowTypes ==
  ASSUME NEW r \in Requests, NEW e
  PROVE  /\ requestRows(e, r) \in Seq(Row) /\ findingRows(e, r) \in Seq(Row)
         /\ <<"response", r>> \in Row /\ << >> \in Seq(Row)
         /\ \A rows \in Seq(Row) : \A k : reported(rows, k) \subseteq Findings \X Requests
  BY DEF requestRows, findingRows, Row, Findings, reported

LEMMA StepTypesKept ==
  ASSUME StepsTypeOK, FlightInv, FlightInv', IInv, IInv', [Next]_vars
  PROVE  StepsTypeOK'
<1> USE DEF StepsTypeOK
<1>0. /\ LogTypes /\ answer' \in [Requests -> Answer \cup {None}]
      /\ LogTypes' => /\ envlog' \in Seq(({"request", "response"} \cup Findings) \X Requests)
                      /\ glued' \subseteq ({"request", "response"} \cup Findings) \X Requests
                      /\ envdown' \in BOOLEAN /\ envtorn' \in BOOLEAN
  BY DEF Row, LogTypes, FlightInv
<1>1. ASSUME NEW r \in Requests, NEW e \in Envelopes, ArriveOther(r, e) PROVE StepsTypeOK'
  <2>1. Append(requestRows(e, r), <<"response", r>>) \in Seq(Row)
    BY RowTypes
  <2>2. LogTypes'
    <3>1. PICK k \in 0..2 : Writes(Append(requestRows(e, r), <<"response", r>>), k)
      BY <1>1 DEF ArriveOther
    <3>2. k \in 0..Len(Append(requestRows(e, r), <<"response", r>>))
      BY <3>1, <2>1 DEF Writes
    <3> QED BY <1>0, <2>1, <3>1, <3>2, WritesTypes DEF LogTypes
  <2> QED BY <1>0, <1>1, <2>2 DEF ArriveOther, Record, Answers
<1>2. ASSUME NEW r \in Requests, NEW e \in Envelopes, ArriveStep(r, e) PROVE StepsTypeOK'
  <2> DEFINE s == e.session_id
             rows == requestRows(e, r) \o findingRows(e, r)
             done == IF assembles(e) THEN rows ELSE Append(rows, <<"response", r>>)
  <2>1. s \in Sessions /\ stepOf(e) \in SessionStep /\ IsStep(e)
    BY <1>2, EnvelopesAssumption, StepOfIsStep, AllStepsAssumption DEF Envelope, ArriveStep
  <2>2. nextEntry(read(s), s, stepOf(e)) \in SessionContextEntry
    BY <2>1, ReadIsGood, NextEntryExtends
  <2>3. sourceLabels(s)' \in IfcLabels
    <3>1. GoodState(s, read(s))'
      BY <2>1, ReadIsGood, EmptyIsGood DEF IInv, read
    <3> QED BY <3>1 DEF GoodState, SessionState, sourceLabels
  <2>4. rows \in Seq(Row) /\ done \in Seq(Row)
    BY RowTypes
  <2>5. PICK k \in 0..Len(done) : Writes(done, k) /\ stderr' = stderr \cup reported(done, k)
    BY <1>2 DEF ArriveStep
  <2>6. LogTypes' /\ stderr' \subseteq Findings \X Requests
    <3> HIDE DEF done
    <3> QED BY <1>0, <2>4, <2>5, WritesTypes, RowTypes DEF LogTypes
  <2>7. /\ envelope' = [envelope EXCEPT ![r] = e] /\ UNCHANGED emitted
        /\ entry' = [entry EXCEPT ![r] = nextEntry(read(s), s, stepOf(e))]
        /\ supplied' = [supplied EXCEPT ![r] = sourceLabels(s)']
        /\ \E p \in {"evaluating", "answered"} : phase' = [phase EXCEPT ![r] = p]
    BY <1>2 DEF ArriveStep, Record, Answers
  <2> HIDE DEF s, done, rows
  <2> QED BY <1>0, <2>2, <2>3, <2>6, <2>7
\* An evaluation that ends writes one row.
<1>3. ASSUME NEW r \in Requests, \E k \in 0..1 : Writes(<<<<"response", r>>>>, k)
      PROVE  LogTypes'
  <2>1. <<<<"response", r>>>> \in Seq(Row) /\ Len(<<<<"response", r>>>>) = 1
    BY RowTypes
  <2> QED BY <1>0, <1>3, <2>1, WritesTypes DEF LogTypes
<1>4. ASSUME NEW r \in Requests, Fail(r) PROVE StepsTypeOK'
  BY <1>0, <1>3, <1>4 DEF Fail, Answers
<1>5. ASSUME NEW r \in Requests, NEW verdict \in Verdicts, Settle(r, verdict) PROVE StepsTypeOK'
  <2>1. verdict.result_labels \in IfcLabels \cup {NoLabels}
    BY VerdictsAssumption DEF Verdict
  <2>2. /\ phase' = [phase EXCEPT ![r] = "answered"] /\ UNCHANGED <<envelope, entry, supplied, stderr>>
        /\ \/ UNCHANGED emitted
           \/ emitted' = [emitted EXCEPT ![r] = verdict.result_labels]
        /\ \E k \in 0..1 : Writes(<<<<"response", r>>>>, k)
    BY <1>5 DEF Settle, Answers
  <2> QED BY <1>0, <1>3, <2>1, <2>2
<1>6. CASE Crash
  <2>1. phase' \in [Requests -> {"unsent", "evaluating", "answered", "lost"}]
    BY <1>6 DEF Crash
  <2> QED BY <1>0, <1>6, <2>1 DEF Crash
<1>7. CASE UNCHANGED vars
  BY <1>7 DEF vars, stepVars, logVars
<1> QED BY <1>1, <1>2, <1>4, <1>5, <1>6, <1>7 DEF Next, Evaluation

\* Whatever its clients send and however its handlers interleave, the Guardian's
\* requests, chain entries, labels, answers and log rows keep their types.
THEOREM StepsTypeCorrect == Spec => []StepsTypeOK
<1>1. Init => StepsTypeOK
  <2> SUFFICES ASSUME Init PROVE StepsTypeOK
    OBVIOUS
  <2>1. /\ envlog \in Seq(({"request", "response"} \cup Findings) \X Requests)
        /\ glued \subseteq ({"request", "response"} \cup Findings) \X Requests
        /\ stderr \subseteq Findings \X Requests
    BY DEF Init
  <2>2. envdown \in BOOLEAN /\ envtorn \in BOOLEAN
    BY DEF Init
  <2> QED BY <2>1, <2>2 DEF Init, StepsTypeOK
<1>2. StepsTypeOK /\ FlightInv /\ FlightInv' /\ IInv /\ IInv' /\ [Next]_vars => StepsTypeOK'
  BY StepTypesKept
<1>3. Spec => []IInv
  BY GuardianImplementsStore, StoreInvariant, PTL
<1> QED BY <1>1, <1>2, <1>3, FlightInvariant, PTL DEF Spec

-----------------------------------------------------------------------------
(* What was recorded about a step. *)

\* entries is the beginning of later.
Extends(entries, later) ==
  Len(entries) <= Len(later) /\ \A i \in 1..Len(entries) : later[i] = entries[i]

\* Between two states of the store a session's chain grows, or the session is
\* evicted and that is counted, or the process restarts.
Endures(s) ==
  /\ restarts' >= restarts /\ evictions'[s] >= evictions[s]
  /\ \/ restarts' > restarts \/ evictions'[s] > evictions[s]
     \/ s \notin Retained
     \/ s \in Retained' /\ Extends(sessions[s].entries, sessions'[s].entries)

LEMMA WriteEndures ==
  ASSUME IInv, NEW t \in Sessions, NEW next, Write(t, next), Extends(read(t).entries, next.entries),
         UNCHANGED restarts, NEW s \in Sessions
  PROVE  Endures(s)
<1>1. Retained' = Elems(ensure(t))
  BY DEF Write, Retained, Elems
<1>2. evictions \in [Sessions -> Nat] /\ restarts \in Nat
  BY BoundsAssumption DEF IInv, StoreTypeOK
<1>3. evictions'[s] = IF s \in Retained \ Retained' THEN evictions[s] + 1 ELSE evictions[s]
  BY <1>1, <1>2 DEF Write, Elems
<1>4. s \in Retained' => sessions'[s] = IF s = t THEN next ELSE sessions[s]
  BY DEF Write, Retained
<1>5. s \in Retained => Extends(sessions[s].entries, IF s = t THEN next.entries ELSE sessions[s].entries)
  <2>1. s \in Retained => Len(sessions[s].entries) \in Nat
    BY DEF IInv, GoodState, SessionState
  <2> QED BY <2>1 DEF read, Extends
<1> QED BY <1>2, <1>3, <1>4, <1>5 DEF Endures

LEMMA StoreEndures ==
  ASSUME IInv, [StoreNext]_storeVars, NEW s \in Sessions
  PROVE  Endures(s)
<1>1. evictions \in [Sessions -> Nat] /\ restarts \in Nat
  BY BoundsAssumption DEF IInv, StoreTypeOK
<1>2. \A t \in Sessions : GoodState(t, read(t)) /\ Extends(read(t).entries, read(t).entries)
  BY ReadIsGood DEF Extends, GoodState, SessionState
<1>3. ASSUME NEW t \in Sessions, NEW step \in Steps, append(t, step) PROVE Endures(s)
  <2> DEFINE e == nextEntry(read(t), t, step)
             next == push(read(t), e)
  <2>1. Write(t, next) /\ UNCHANGED restarts
    BY <1>3 DEF append
  <2>2. next.entries = Append(read(t).entries, e)
    BY <1>2 DEF push, GoodState, SessionState
  <2>3. read(t).entries \in Seq(SessionContextEntry)
    BY <1>2 DEF GoodState, SessionState
  <2> HIDE DEF next, e
  <2>4. Extends(read(t).entries, next.entries)
    BY <2>2, <2>3 DEF Extends
  <2> QED BY <2>1, <2>4, WriteEndures
<1>4. ASSUME NEW t \in Sessions, NEW text \in Intents, setIntent(t, text) PROVE Endures(s)
  <2> DEFINE next == [read(t) EXCEPT !.intent = IF @ = NoIntent THEN text ELSE @]
  <2>1. Write(t, next) /\ UNCHANGED restarts /\ next.entries = read(t).entries
    BY <1>2, <1>4 DEF setIntent, GoodState, SessionState
  <2> HIDE DEF next
  <2> QED BY <1>2, <2>1, WriteEndures
<1>5. ASSUME NEW t \in Sessions, NEW labels \in IfcLabels, replaceIfcLabels(t, labels)
      PROVE  Endures(s)
  <2> DEFINE next == [read(t) EXCEPT !.ifc_labels = labels]
  <2>1. Write(t, next) /\ UNCHANGED restarts /\ next.entries = read(t).entries
    BY <1>2, <1>5 DEF replaceIfcLabels, GoodState, SessionState
  <2> HIDE DEF next
  <2> QED BY <1>2, <2>1, WriteEndures
<1>6. CASE Restart
  BY <1>1, <1>6 DEF Restart, Endures
<1>7. CASE UNCHANGED storeVars
  <2>1. s \in Retained => Extends(sessions[s].entries, sessions[s].entries)
    BY <1>2 DEF read
  <2> QED BY <1>1, <1>7, <2>1 DEF storeVars, Retained, Endures
<1> QED BY <1>3, <1>4, <1>5, <1>6, <1>7 DEF StoreNext

\* The findings of an entry say what the history it commits to says of its step.
Exact(entered, e) ==
  LET earlier == 1..(entered.seq - 1)
      past == entered.prev_hash
      found == entered.step.findings
  IN /\ "request_id_duplicate" \in found
          <=> \E i \in earlier : past[i].step.request_id = e.request_id
     /\ "request_id_ref_unresolved" \in found
          <=> /\ isToolCallResult(e) /\ e.ref # NoRef
              /\ ~\E i \in earlier : /\ past[i].step.method = TOOL_CALL_REQUEST
                                     /\ past[i].step.request_id = e.ref

EntryInv ==
  \A r \in Requests : entry[r] # None =>
    /\ phase[r] # "unsent"
    /\ envelope[r] \in Envelopes
    /\ entry[r] \in SessionContextEntry /\ entry[r].seq \in Nat \ {0}
    /\ Exact(entry[r], envelope[r])

\* What evaluateStep appends is examined against the chain it goes on.
LEMMA ArrivalIsExact ==
  ASSUME IInv, HistoryInv, NEW e \in Envelopes, IsStep(e)
  PROVE  LET new == nextEntry(read(e.session_id), e.session_id, stepOf(e))
         IN new \in SessionContextEntry /\ new.seq \in Nat \ {0} /\ Exact(new, e)
<1> DEFINE s == e.session_id
           chain == read(s).entries
           n == Len(chain)
           new == nextEntry(read(s), s, stepOf(e))
<1>1. s \in Sessions /\ stepOf(e) \in SessionStep
  BY EnvelopesAssumption, StepOfIsStep, AllStepsAssumption DEF Envelope
<1>2. GoodState(s, read(s)) /\ Commits(chain) /\ n \in Nat
  <2>1. Commits(emptySessionState.entries)
    BY DEF Commits, emptySessionState
  <2> QED BY <1>1, <2>1, ReadIsGood DEF HistoryInv, read, GoodState, SessionState
<1>3. new \in SessionContextEntry /\ new.seq = n + 1 /\ new.step = stepOf(e)
  BY <1>1, <1>2, NextEntryExtends
<1>4. \A j \in 1..n : new.prev_hash[j].step = chain[j].step
  BY <1>1, <1>2, NextEntryCommits
<1>5. /\ \A id : hasRequestId(s, id) <=> \E i \in 1..n : chain[i].step.request_id = id
      /\ \A id : hasToolCallRequest(s, id) <=>
                   \E i \in 1..n : /\ chain[i].step.method = TOOL_CALL_REQUEST
                                   /\ chain[i].step.request_id = id
  <2>1. IdsAgree(read(s))
    BY <1>2 DEF GoodState
  <2>2. CASE s \in Retained
    BY <2>1, <2>2 DEF IdsAgree, hasRequestId, hasToolCallRequest, read
  <2>3. CASE s \notin Retained
    BY <2>3 DEF hasRequestId, hasToolCallRequest, read, emptySessionState
  <2> QED BY <2>2, <2>3
<1>6. /\ "request_id_duplicate" \in stepOf(e).findings <=> hasRequestId(s, e.request_id)
      /\ "request_id_ref_unresolved" \in stepOf(e).findings
           <=> isToolCallResult(e) /\ e.ref # NoRef /\ ~hasToolCallRequest(s, e.ref)
  BY DEF stepOf, examineStep, Findings
<1> HIDE DEF new, chain, s
<1>7. (new.seq - 1) = n
  BY <1>2, <1>3
<1> QED BY <1>2, <1>3, <1>4, <1>5, <1>6, <1>7 DEF Exact, new, s

LEMMA EntryKept ==
  ASSUME IInv, HistoryInv, EntryInv, DOMAIN entry = Requests, DOMAIN envelope = Requests,
         DOMAIN phase = Requests, [Next]_vars
  PROVE  EntryInv'
<1> USE DEF EntryInv
<1>1. ASSUME NEW r \in Requests, NEW e \in Envelopes, ArriveOther(r, e) PROVE EntryInv'
  BY <1>1 DEF ArriveOther, Record, Answers
<1>2. ASSUME NEW r \in Requests, NEW e \in Envelopes, ArriveStep(r, e) PROVE EntryInv'
  <2> DEFINE new == nextEntry(read(e.session_id), e.session_id, stepOf(e))
  <2>1. new \in SessionContextEntry /\ new.seq \in Nat \ {0} /\ Exact(new, e)
    BY <1>2, ArrivalIsExact DEF ArriveStep
  <2>2. /\ envelope' = [envelope EXCEPT ![r] = e] /\ entry' = [entry EXCEPT ![r] = new]
        /\ \E p \in {"evaluating", "answered"} : phase' = [phase EXCEPT ![r] = p]
    BY <1>2 DEF ArriveStep, Record, Answers
  <2> HIDE DEF new
  <2> QED BY <2>1, <2>2
<1>3. ASSUME NEW r \in Requests, Evaluation(r) PROVE EntryInv'
  <2>1. UNCHANGED <<entry, envelope>> /\ phase' = [phase EXCEPT ![r] = "answered"]
    BY <1>3 DEF Evaluation, Fail, Settle, Answers
  <2> QED BY <2>1
<1>4. CASE Crash
  BY <1>4 DEF Crash
<1>5. CASE UNCHANGED vars
  BY <1>5 DEF vars, stepVars, logVars
<1> QED BY <1>1, <1>2, <1>3, <1>4, <1>5 DEF Next

\* A step that is taken is on its chain, and stays there.
LEMMA StepsStay ==
  ASSUME IInv, IInv', EntryInv, EveryStepIsOnTheChain, StepsTypeOK, [StoreNext]_storeVars, [Next]_vars
  PROVE  EveryStepIsOnTheChain'
<1> SUFFICES ASSUME NEW r \in Requests, entry'[r] # None
             PROVE  OnChain(r)' \/ evictions'[envelope'[r].session_id] + restarts' > 0
  BY DEF EveryStepIsOnTheChain
<1>1. CASE entry'[r] = entry[r] /\ envelope'[r] = envelope[r]
  <2> DEFINE s == envelope[r].session_id
  <2>1. s \in Sessions /\ Endures(s) /\ entry[r].seq \in Nat \ {0}
    BY <1>1, EnvelopesAssumption, StoreEndures DEF EntryInv, Envelope
  <2>2. /\ evictions[s] \in Nat /\ evictions'[s] \in Nat
        /\ restarts \in Nat /\ restarts' \in Nat
    BY <2>1, BoundsAssumption DEF IInv, StoreTypeOK
  <2>3. CASE ~OnChain(r)
    BY <1>1, <2>1, <2>2, <2>3 DEF Endures, EveryStepIsOnTheChain
  <2>4. CASE OnChain(r)
    <3>1. s \in Retained
      BY <2>1, <2>4 DEF OnChain, read, emptySessionState
    <3>2. Len(sessions[s].entries) \in Nat
      BY <3>1 DEF IInv, GoodState, SessionState
    <3>3. s \in Retained' => Len(sessions'[s].entries) \in Nat
      BY DEF IInv, GoodState, SessionState
    <3>4. CASE s \in Retained' /\ Extends(sessions[s].entries, sessions'[s].entries)
      <4>1. entry[r].seq \in 1..Len(sessions[s].entries)
            /\ sessions[s].entries[entry[r].seq] = entry[r]
        BY <2>1, <2>4, <3>1, <3>2 DEF OnChain, read
      <4>2. entry[r].seq <= Len(sessions'[s].entries)
            /\ sessions'[s].entries[entry[r].seq] = entry[r]
        <5> DEFINE m == entry[r].seq
                   old == sessions[s].entries
                   later == sessions'[s].entries
        <5>1. m \in 1..Len(old) /\ old[m] = entry[r] /\ Extends(old, later)
          BY <3>4, <4>1
        <5>2. m \in Nat /\ Len(old) \in Nat /\ Len(later) \in Nat
          BY <2>1, <3>2, <3>3, <3>4
        <5> HIDE DEF m, old, later
        <5>3. m <= Len(later) /\ later[m] = entry[r]
          BY <5>1, <5>2 DEF Extends
        <5> QED BY <5>3 DEF m, later
      <4> QED BY <1>1, <2>1, <3>4, <4>2 DEF OnChain, read
    <3>5. CASE restarts' > restarts \/ evictions'[s] > evictions[s]
      BY <1>1, <2>2, <3>5
    <3> QED BY <2>1, <3>1, <3>4, <3>5 DEF Endures
  <2> QED BY <2>3, <2>4
<1>2. CASE ~(entry'[r] = entry[r] /\ envelope'[r] = envelope[r])
  <2>1. ASSUME NEW q \in Requests, NEW e \in Envelopes, ArriveOther(q, e) PROVE FALSE
    BY <1>2, <2>1 DEF ArriveOther, Record, Answers, EntryInv, StepsTypeOK
  <2>2. ASSUME NEW q \in Requests, NEW e \in Envelopes, ArriveStep(q, e) PROVE OnChain(r)'
    <3> DEFINE s == e.session_id
               new == nextEntry(read(s), s, stepOf(e))
    <3>1. q = r /\ entry'[r] = new /\ envelope'[r] = e
      BY <1>2, <2>2 DEF ArriveStep, Record, StepsTypeOK
    <3>2. s \in Sessions /\ stepOf(e) \in SessionStep /\ GoodState(s, read(s))
      BY <2>2, EnvelopesAssumption, StepOfIsStep, AllStepsAssumption, ReadIsGood
         DEF Envelope, ArriveStep
    <3>3. new.seq = Len(read(s).entries) + 1
      BY <3>2, NextEntryExtends
    <3>4. Write(s, push(read(s), new))
      BY <2>2 DEF ArriveStep, append
    <3>5. s \in Retained' /\ sessions'[s] = push(read(s), new)
      <4>1. Retained' = Elems(ensure(s)) /\ s \in Elems(ensure(s))
        BY <3>2, <3>4, EnsureOrder DEF Write, Retained, Elems, IInv
      <4> QED BY <3>4, <4>1 DEF Write, Retained
    <3> HIDE DEF new
    <3>6. sessions'[s].entries = Append(read(s).entries, new)
          /\ read(s).entries \in Seq(SessionContextEntry)
      BY <3>2, <3>5 DEF push, GoodState, SessionState
    <3>7. Len(sessions'[s].entries) = new.seq /\ sessions'[s].entries[new.seq] = new /\ new.seq \in Nat
      BY <3>3, <3>6
    <3> QED BY <3>1, <3>5, <3>7 DEF OnChain, read
  <2>3. ASSUME NEW q \in Requests, Evaluation(q) PROVE FALSE
    BY <1>2, <2>3 DEF Evaluation, Fail, Settle
  <2>4. ~Crash /\ ~UNCHANGED vars
    BY <1>2 DEF Crash, vars, stepVars
  <2> QED BY <2>1, <2>2, <2>3, <2>4 DEF Next
<1> QED BY <1>1, <1>2

LEMMA EntryHolds == Spec => []EntryInv
<1>1. Init => EntryInv
  BY DEF Init, EntryInv
<1>2. IInv /\ HistoryInv /\ EntryInv /\ StepsTypeOK /\ [Next]_vars => EntryInv'
  BY EntryKept DEF StepsTypeOK
<1>3. Spec => []IInv /\ []HistoryInv
  BY GuardianImplementsStore, StoreInvariant, HistoryHolds, PTL
<1> QED BY <1>1, <1>2, <1>3, StepsTypeCorrect, PTL DEF Spec

\* However handlers overlap, a step's findings are exactly what the chain in
\* front of it says (examineStep): a hash commits to the history it was built on.
THEOREM FindingsAreExactHolds == Spec => []FindingsAreExact
<1>1. IInv /\ HistoryInv /\ EntryInv => FindingsAreExact
  <2> SUFFICES ASSUME IInv, HistoryInv, EntryInv, NEW r \in Requests, OnChain(r)
               PROVE  LET e == envelope[r]
                          chain == read(e.session_id).entries
                          earlier == 1..(entry[r].seq - 1)
                          found == entry[r].step.findings
                      IN /\ "request_id_duplicate" \in found
                              <=> \E i \in earlier : chain[i].step.request_id = e.request_id
                         /\ "request_id_ref_unresolved" \in found
                              <=> /\ isToolCallResult(e) /\ e.ref # NoRef
                                  /\ ~\E i \in earlier : /\ chain[i].step.method = TOOL_CALL_REQUEST
                                                         /\ chain[i].step.request_id = e.ref
    BY DEF FindingsAreExact
  <2> DEFINE s == envelope[r].session_id
             chain == read(s).entries
             n == entry[r].seq
  <2>1. n \in Nat \ {0} /\ Exact(entry[r], envelope[r]) /\ s \in Sessions
    BY EnvelopesAssumption DEF EntryInv, OnChain, Envelope
  <2>2. n <= Len(chain) /\ chain[n] = entry[r] /\ Len(chain) \in Nat
    BY <2>1, ReadIsGood DEF OnChain, GoodState, SessionState
  <2>3. Commits(chain)
    <3>1. Commits(emptySessionState.entries)
      BY DEF Commits, emptySessionState
    <3> QED BY <3>1 DEF HistoryInv, read
  <2> HIDE DEF chain, n
  <2>4. \A j \in 1..(n - 1) : entry[r].prev_hash[j].step = chain[j].step
    BY <2>1, <2>2, <2>3 DEF Commits
  <2> QED BY <2>1, <2>4 DEF Exact, chain, n
<1>2. Spec => []IInv /\ []HistoryInv
  BY GuardianImplementsStore, StoreInvariant, HistoryHolds, PTL
<1> QED BY <1>1, <1>2, EntryHolds, PTL

\* A step the Guardian took is on its session's chain, where it was appended,
\* unless an eviction that was reported or a restart took it away.
THEOREM StepsAreOnTheChain == Spec => []EveryStepIsOnTheChain
<1>1. Init => EveryStepIsOnTheChain
  BY DEF Init, EveryStepIsOnTheChain
<1>2. /\ IInv /\ IInv' /\ EntryInv /\ FlightInv /\ StepsTypeOK /\ EveryStepIsOnTheChain
      /\ [Next]_vars
      => EveryStepIsOnTheChain'
  BY StepsStay, NextIsStoreStep
<1>3. Spec => []IInv
  BY GuardianImplementsStore, StoreInvariant, PTL
<1> QED BY <1>1, <1>2, <1>3, EntryHolds, FlightInvariant, StepsTypeCorrect, PTL DEF Spec

-----------------------------------------------------------------------------
(* What the envelope log shows. *)

Logged(row) == \E j \in 1..Len(envlog) : envlog[j] = row

\* While the log still takes rows, a request being evaluated has its row.
LogInv ==
  /\ \A i \in 1..Len(envlog) : phase[envlog[i][2]] # "unsent"
  /\ \A r \in Requests : phase[r] = "evaluating" /\ ~envdown => Logged(<<"request", r>>)
  /\ RowsFollowTheirRequest

\* The first k rows go to the end of the log.
LEMMA WritesEffect ==
  ASSUME envlog \in Seq(Row), envdown \in BOOLEAN, NEW rows \in Seq(Row), NEW k \in 0..Len(rows),
         Writes(rows, k)
  PROVE  /\ Len(envlog') = Len(envlog) + k
         /\ \A i \in 1..Len(envlog) : envlog'[i] = envlog[i]
         /\ \A i \in 1..k : envlog'[Len(envlog) + i] = rows[i]
         /\ k > 0 => ~envdown
         /\ ~envdown' => ~envdown /\ k = Len(rows)
<1>1. /\ SubSeq(rows, 1, k) \in Seq(Row) /\ Len(SubSeq(rows, 1, k)) = k
      /\ \A i \in 1..k : SubSeq(rows, 1, k)[i] = rows[i]
  OBVIOUS
<1>2. envlog' = envlog \o SubSeq(rows, 1, k) /\ envdown' = (envdown \/ k < Len(rows))
      /\ (envdown => k = 0)
  BY DEF Writes
<1>3. /\ Len(envlog') = Len(envlog) + k
      /\ \A i \in 1..Len(envlog) : envlog'[i] = envlog[i]
      /\ \A i \in 1..k : envlog'[Len(envlog) + i] = rows[i]
  BY <1>1, <1>2
<1>4. k > 0 => ~envdown
  <2>1. k > 0 => ~(k = 0)
    OBVIOUS
  <2> QED BY <1>2, <2>1, Zenon
<1>5. ~envdown' => ~envdown /\ k = Len(rows)
  <2>1. ~(k < Len(rows)) => k = Len(rows)
    OBVIOUS
  <2> QED BY <1>2, <2>1, Zenon
<1> QED BY <1>3, <1>4, <1>5, Zenon

\* The handler of r writes rows: at its arrival its request row first, if it
\* has one, and later only what an evaluation that ends answers.
LEMMA HandlerLogs ==
  ASSUME LogInv, envlog \in Seq(Row), envdown \in BOOLEAN, NEW r \in Requests,
         NEW rows \in Seq(Row), NEW k \in 0..Len(rows), Writes(rows, k),
         \A i \in 1..Len(rows) : rows[i][2] = r,
         \A q \in Requests \ {r} : phase'[q] = phase[q] /\ envelope'[q] = envelope[q],
         phase'[r] # "unsent",
         \/ /\ phase[r] = "unsent"
            /\ requestRows(envelope'[r], r) # << >> => rows # << >> /\ rows[1] = <<"request", r>>
            /\ phase'[r] = "evaluating" => requestRows(envelope'[r], r) # << >>
         \/ phase[r] = "evaluating" /\ envelope'[r] = envelope[r] /\ phase'[r] # "evaluating"
  PROVE  LogInv'
<1> DEFINE n == Len(envlog)
<1>1. /\ Len(envlog') = n + k /\ n \in Nat /\ k \in Nat
      /\ \A i \in 1..n : envlog'[i] = envlog[i] /\ envlog[i][2] \in Requests
      /\ \A i \in 1..k : envlog'[n + i] = rows[i]
      /\ k > 0 => ~envdown
      /\ ~envdown' => ~envdown /\ k = Len(rows)
  BY WritesEffect DEF Row
<1>2. \A i \in 1..(n + k) : i \in 1..n \/ \E j \in 1..k : i = n + j
  <2>1. \A i \in 1..(n + k) : i \in 1..n \/ (i - n \in 1..k /\ i = n + (i - n))
    BY <1>1
  <2> QED BY <2>1
<1>3. \A j \in 1..k : envlog'[n + j][2] = r
  BY <1>1
<1>4. ASSUME NEW i \in 1..Len(envlog') PROVE phase'[envlog'[i][2]] # "unsent"
  <2>1. CASE i \in 1..n
    BY <1>1, <2>1 DEF LogInv
  <2>2. CASE \E j \in 1..k : i = n + j
    BY <1>3, <2>2
  <2> QED BY <1>1, <1>2, <2>1, <2>2
<1>5. ASSUME NEW q \in Requests, phase'[q] = "evaluating", ~envdown' PROVE Logged(<<"request", q>>)'
  <2>1. CASE q # r
    <3>1. PICK j \in 1..n : envlog[j] = <<"request", q>>
      BY <1>1, <1>5, <2>1 DEF LogInv, Logged
    <3>2. j \in 1..Len(envlog') /\ envlog'[j] = <<"request", q>>
      BY <1>1, <3>1
    <3> QED BY <3>2 DEF Logged
  <2>2. CASE q = r
    <3>1. rows # << >> /\ rows[1] = <<"request", r>> /\ k = Len(rows)
      BY <1>1, <1>5, <2>2
    <3>2. k >= 1
      BY <3>1
    <3>3. n + 1 \in 1..Len(envlog') /\ envlog'[n + 1] = <<"request", r>>
      BY <1>1, <3>1, <3>2
    <3> QED BY <2>2, <3>3 DEF Logged
  <2> QED BY <2>1, <2>2
<1>6. ASSUME NEW i \in 1..Len(envlog'), envlog'[i][1] # "request",
             requestRows(envelope'[envlog'[i][2]], envlog'[i][2]) # << >>
      PROVE  \E j \in 1..(i - 1) : envlog'[j] = <<"request", envlog'[i][2]>>
  <2>1. CASE i \in 1..n
    <3>1. envelope'[envlog[i][2]] = envelope[envlog[i][2]]
      BY <1>1, <2>1 DEF LogInv
    <3>2. PICK j \in 1..(i - 1) : envlog[j] = <<"request", envlog[i][2]>>
      BY <1>1, <1>6, <2>1, <3>1 DEF LogInv, RowsFollowTheirRequest
    <3>3. j \in 1..n
      BY <1>1, <2>1
    <3> QED BY <1>1, <2>1, <3>2, <3>3
  <2>2. ASSUME NEW j \in 1..k, i = n + j PROVE \E m \in 1..(i - 1) : envlog'[m] = <<"request", envlog'[i][2]>>
    <3>1. envlog'[i] = rows[j] /\ envlog'[i][2] = r /\ k > 0 /\ ~envdown
      BY <1>1, <2>2
    <3>2. CASE phase[r] = "unsent"
      <4>1. rows[1] = <<"request", r>>
        BY <1>6, <3>1, <3>2
      <4>2. j # 1
        BY <1>6, <3>1, <4>1
      <4>3. n + 1 \in 1..(i - 1) /\ envlog'[n + 1] = <<"request", r>>
        BY <1>1, <2>2, <4>1, <4>2
      <4> QED BY <3>1, <4>3
    <3>3. CASE phase[r] # "unsent"
      <4>1. PICK m \in 1..n : envlog[m] = <<"request", r>>
        BY <3>1, <3>3 DEF LogInv, Logged
      <4>2. m \in 1..(i - 1) /\ envlog'[m] = <<"request", r>>
        BY <1>1, <2>2, <4>1
      <4> QED BY <3>1, <4>2
    <3> QED BY <3>2, <3>3
  <2> QED BY <1>1, <1>2, <2>1, <2>2
<1>7. RowsFollowTheirRequest'
  BY <1>6 DEF RowsFollowTheirRequest
<1> QED BY <1>4, <1>5, <1>7 DEF LogInv

\* The rows of an arrival: all of its request, the request row in front.
LEMMA ArrivalRows ==
  ASSUME NEW r \in Requests, NEW e
  PROVE  /\ Append(requestRows(e, r), <<"response", r>>) \in Seq(Row)
         /\ \A i \in 1..Len(Append(requestRows(e, r), <<"response", r>>)) :
              Append(requestRows(e, r), <<"response", r>>)[i][2] = r
         /\ requestRows(e, r) # << >> =>
              Append(requestRows(e, r), <<"response", r>>)[1] = <<"request", r>>
         /\ Append(requestRows(e, r), <<"response", r>>) # << >>
         /\ Append(requestRows(e, r), <<"response", r>>)[1][1] \in {"request", "response"}
  BY DEF requestRows, Row

LEMMA HeadAndTail ==
  ASSUME NEW S, NEW x \in S, NEW tail \in Seq(S)
  PROVE  /\ <<x>> \o tail \in Seq(S) /\ Len(<<x>> \o tail) = Len(tail) + 1
         /\ (<<x>> \o tail)[1] = x
         /\ \A i \in 2..(Len(tail) + 1) : (<<x>> \o tail)[i] = tail[i - 1]
<1>1. <<x>> \in Seq(S) /\ Len(<<x>>) = 1 /\ <<x>>[1] = x /\ Len(tail) \in Nat
  OBVIOUS
<1>2. <<x>> \o tail \in Seq(S) /\ Len(<<x>> \o tail) = Len(<<x>>) + Len(tail)
  BY <1>1, ConcatProperties
<1>3. \A i \in 1..(Len(<<x>>) + Len(tail)) :
        (<<x>> \o tail)[i] = IF i <= Len(<<x>>) THEN <<x>>[i] ELSE tail[i - Len(<<x>>)]
  BY <1>1, ConcatProperties
<1> QED BY <1>1, <1>2, <1>3

LEMMA StepRows ==
  ASSUME NEW r \in Requests, NEW e \in Envelopes, IsStep(e)
  PROVE  LET rows == requestRows(e, r) \o findingRows(e, r)
             done == IF assembles(e) THEN rows ELSE Append(rows, <<"response", r>>)
         IN /\ requestRows(e, r) # << >>
            /\ done \in Seq(Row) /\ done # << >> /\ done[1] = <<"request", r>>
            /\ \A i \in 1..Len(done) : done[i][2] = r
            /\ \A f \in examineStep(e).findings : \E i \in 1..Len(done) : done[i] = <<f, r>>
<1> DEFINE a == <<"request_id_duplicate", r>>
           b == <<"request_id_ref_unresolved", r>>
           z == <<"response", r>>
           q == <<"request", r>>
           found == examineStep(e).findings
           rows == requestRows(e, r) \o findingRows(e, r)
<1>1. requestRows(e, r) = <<q>>
  BY DEF requestRows, IsStep, Methods, TOOL_CALL_REQUEST, TOOL_CALL_RESULT
<1>2. found \subseteq {"request_id_duplicate", "request_id_ref_unresolved"}
  BY DEF examineStep, Findings
<1>3. rows = <<q>> \o ((IF "request_id_duplicate" \in found THEN <<a>> ELSE << >>)
                      \o (IF "request_id_ref_unresolved" \in found THEN <<b>> ELSE << >>))
  BY <1>1 DEF findingRows
<1>4. q \in Row /\ a \in Row /\ b \in Row /\ z \in Row
      /\ q[2] = r /\ a[2] = r /\ b[2] = r /\ z[2] = r
  BY DEF Row, Findings
<1> HIDE DEF a, b, z, q, found, rows
<1>5. /\ rows \in Seq(Row) /\ Len(rows) >= 1 /\ rows[1] = q
      /\ \A i \in 1..Len(rows) : rows[i] \in {q, a, b}
      /\ "request_id_duplicate" \in found => \E i \in 1..Len(rows) : rows[i] = a
      /\ "request_id_ref_unresolved" \in found => \E i \in 1..Len(rows) : rows[i] = b
  <2> DEFINE first == IF "request_id_duplicate" \in found THEN <<a>> ELSE << >>
             second == IF "request_id_ref_unresolved" \in found THEN <<b>> ELSE << >>
  <2>1. /\ first \in Seq(Row) /\ (\A i \in 1..Len(first) : first[i] = a)
        /\ "request_id_duplicate" \in found => Len(first) = 1
    BY <1>4
  <2>2. /\ second \in Seq(Row) /\ (\A i \in 1..Len(second) : second[i] = b)
        /\ "request_id_ref_unresolved" \in found => Len(second) = 1
    BY <1>4
  <2>3. rows = <<q>> \o (first \o second) /\ <<q>> \in Seq(Row) /\ Len(<<q>>) = 1 /\ <<q>>[1] = q
    BY <1>3, <1>4
  <2> HIDE DEF first, second
  <2> DEFINE m == Len(first)
             tail == first \o second
  <2>4. /\ tail \in Seq(Row) /\ Len(tail) = m + Len(second)
        /\ m \in Nat /\ Len(second) \in Nat
        /\ \A i \in 1..m : tail[i] = a
        /\ \A i \in (m + 1)..(m + Len(second)) : tail[i] = b
    BY <2>1, <2>2
  <2>5. rows = <<q>> \o tail
    BY <2>3
  <2> HIDE DEF tail, m
  <2>6. /\ rows \in Seq(Row) /\ Len(rows) = Len(tail) + 1 /\ rows[1] = q
        /\ \A i \in 2..Len(rows) : rows[i] = tail[i - 1]
    BY <1>4, <2>4, <2>5, HeadAndTail
  <2>7. \A i \in 1..Len(rows) : rows[i] \in {q, a, b}
    <3>1. ASSUME NEW i \in 2..Len(rows) PROVE tail[i - 1] \in {a, b}
      <4>1. (i - 1) \in 1..m \/ (i - 1) \in (m + 1)..(m + Len(second))
        BY <2>4, <2>6
      <4> QED BY <2>4, <4>1
    <3> QED BY <2>6, <3>1
  <2>8. ASSUME "request_id_duplicate" \in found PROVE \E i \in 1..Len(rows) : rows[i] = a
    <3>1. m = 1
      BY <2>1, <2>8 DEF m
    <3>2. 2 \in 2..Len(rows) /\ tail[2 - 1] = a
      BY <2>4, <2>6, <3>1
    <3> QED BY <2>6, <3>2
  <2>9. ASSUME "request_id_ref_unresolved" \in found PROVE \E i \in 1..Len(rows) : rows[i] = b
    <3>1. Len(second) = 1
      BY <2>2, <2>9
    <3>2. m + 2 \in 2..Len(rows) /\ tail[(m + 2) - 1] = b
      BY <2>4, <2>6, <3>1
    <3>3. rows[m + 2] = b /\ m + 2 \in 1..Len(rows)
      BY <2>4, <2>6, <3>2
    <3> QED BY <3>3
  <2> QED BY <2>4, <2>6, <2>7, <2>8, <2>9
<1>6. ASSUME NEW done \in {rows, Append(rows, z)}
      PROVE  /\ done \in Seq(Row) /\ done # << >> /\ done[1] = q
             /\ \A i \in 1..Len(done) : done[i][2] = r
             /\ "request_id_duplicate" \in found => \E i \in 1..Len(done) : done[i] = a
             /\ "request_id_ref_unresolved" \in found => \E i \in 1..Len(done) : done[i] = b
  <2>1. CASE done = rows
    BY <1>4, <1>5, <2>1
  <2>2. CASE done = Append(rows, z)
    BY <1>4, <1>5, <2>2
  <2> QED BY <2>1, <2>2
<1> DEFINE done == IF assembles(e) THEN rows ELSE Append(rows, z)
<1>7. done \in {rows, Append(rows, z)}
  OBVIOUS
<1> HIDE DEF done
<1>8. /\ requestRows(e, r) # << >> /\ done \in Seq(Row) /\ done # << >> /\ done[1] = q
      /\ \A i \in 1..Len(done) : done[i][2] = r
      /\ \A f \in found : \E i \in 1..Len(done) : done[i] = <<f, r>>
  <2>1. requestRows(e, r) # << >>
    BY <1>1
  <2>2. /\ done \in Seq(Row) /\ done # << >> /\ done[1] = q
        /\ \A i \in 1..Len(done) : done[i][2] = r
    BY <1>6, <1>7
  <2>3. /\ "request_id_duplicate" \in found => \E i \in 1..Len(done) : done[i] = a
        /\ "request_id_ref_unresolved" \in found => \E i \in 1..Len(done) : done[i] = b
    BY <1>6, <1>7
  <2>4. \A f \in found : \E i \in 1..Len(done) : done[i] = <<f, r>>
    BY <1>2, <2>3 DEF a, b
  <2> QED BY <2>1, <2>2, <2>4
<1> QED BY <1>8 DEF done, z, q, found, rows

LEMMA LogKept ==
  ASSUME LogInv, StepsTypeOK, [Next]_vars
  PROVE  LogInv'
<1>0. envlog \in Seq(Row) /\ envdown \in BOOLEAN
      /\ phase \in [Requests -> {"unsent", "evaluating", "answered", "lost"}]
      /\ envelope \in [Requests -> Envelopes \cup {None}]
  BY DEF StepsTypeOK, Row
<1>1. ASSUME NEW r \in Requests, NEW e \in Envelopes, ArriveOther(r, e) PROVE LogInv'
  <2> DEFINE rows == Append(requestRows(e, r), <<"response", r>>)
  <2>1. PICK k \in 0..2 : Writes(rows, k)
    BY <1>1 DEF ArriveOther
  <2>2. rows \in Seq(Row) /\ (\A i \in 1..Len(rows) : rows[i][2] = r) /\ rows # << >>
        /\ (requestRows(e, r) # << >> => rows[1] = <<"request", r>>)
    BY ArrivalRows
  <2> HIDE DEF rows
  <2>3. k \in 0..Len(rows)
    BY <2>1, <2>2 DEF Writes
  <2>4. /\ phase[r] = "unsent" /\ envelope'[r] = e /\ phase'[r] = "answered"
        /\ \A q \in Requests \ {r} : phase'[q] = phase[q] /\ envelope'[q] = envelope[q]
    BY <1>0, <1>1 DEF ArriveOther, Record, Answers
  <2> QED BY <1>0, <2>1, <2>2, <2>3, <2>4, HandlerLogs
<1>2. ASSUME NEW r \in Requests, NEW e \in Envelopes, ArriveStep(r, e) PROVE LogInv'
  <2> DEFINE rows == requestRows(e, r) \o findingRows(e, r)
             done == IF assembles(e) THEN rows ELSE Append(rows, <<"response", r>>)
  <2>1. PICK k \in 0..Len(done) : Writes(done, k)
    BY <1>2 DEF ArriveStep
  <2>2. done \in Seq(Row) /\ (\A i \in 1..Len(done) : done[i][2] = r) /\ done # << >>
        /\ requestRows(e, r) # << >> /\ done[1] = <<"request", r>>
    BY <1>2, StepRows DEF ArriveStep
  <2> HIDE DEF done
  <2>3. /\ phase[r] = "unsent" /\ envelope'[r] = e /\ phase'[r] \in {"evaluating", "answered"}
        /\ \A q \in Requests \ {r} : phase'[q] = phase[q] /\ envelope'[q] = envelope[q]
    BY <1>0, <1>2 DEF ArriveStep, Record, Answers
  <2> QED BY <1>0, <2>1, <2>2, <2>3, HandlerLogs
<1>3. ASSUME NEW r \in Requests, Evaluation(r) PROVE LogInv'
  <2> DEFINE rows == <<<<"response", r>>>>
  <2>1. PICK k \in 0..1 : Writes(rows, k)
    BY <1>3 DEF Evaluation, Fail, Settle
  <2>2. rows \in Seq(Row) /\ Len(rows) = 1 /\ \A i \in 1..Len(rows) : rows[i][2] = r
    BY RowTypes
  <2> HIDE DEF rows
  <2>3. /\ phase[r] = "evaluating" /\ envelope'[r] = envelope[r] /\ phase'[r] = "answered"
        /\ \A q \in Requests \ {r} : phase'[q] = phase[q] /\ envelope'[q] = envelope[q]
    BY <1>0, <1>3 DEF Evaluation, Fail, Settle, Answers
  <2> QED BY <1>0, <2>1, <2>2, <2>3, HandlerLogs
<1>4. CASE Crash
  <2>1. /\ UNCHANGED <<envlog, envelope>>
        /\ \A r \in Requests : phase'[r] # "evaluating" /\ (phase'[r] = "unsent" => phase[r] = "unsent")
    BY <1>0, <1>4 DEF Crash
  <2>2. \A i \in 1..Len(envlog) : envlog[i][2] \in Requests
    BY <1>0 DEF Row
  <2> QED BY <2>1, <2>2 DEF LogInv, RowsFollowTheirRequest
<1>5. CASE UNCHANGED vars
  BY <1>5 DEF vars, stepVars, logVars, LogInv, Logged, RowsFollowTheirRequest
<1> QED BY <1>1, <1>2, <1>3, <1>4, <1>5 DEF Next

\* The finding's row was accepted, whatever line it is on, or it is on stderr.
FindingsTaken ==
  \A r \in Requests : entry[r] # None =>
    \A f \in entry[r].step.findings :
      <<f, r>> \in stderr \/ \E i \in 1..Len(envlog) : envlog[i] = <<f, r>>

\* A finding the log does not take is reported as its step is appended.
LEMMA FindingsKept ==
  ASSUME FindingsTaken, EntryInv, StepsTypeOK, [Next]_vars
  PROVE  FindingsTaken'
<1>0. envlog \in Seq(Row) /\ envdown \in BOOLEAN /\ entry \in [Requests -> SessionContextEntry \cup {None}]
  BY DEF StepsTypeOK, Row
\* Rows are only ever added, to the log and to stderr.
<1>1. ASSUME NEW rows \in Seq(Row), NEW k \in 0..Len(rows), Writes(rows, k)
      PROVE  \A i \in 1..Len(envlog) : i \in 1..Len(envlog') /\ envlog'[i] = envlog[i]
  BY <1>0, <1>1, WritesEffect
<1>2. ASSUME stderr \subseteq stderr', NEW r \in Requests, entry'[r] = entry[r], entry[r] # None,
             \A i \in 1..Len(envlog) : i \in 1..Len(envlog') /\ envlog'[i] = envlog[i]
      PROVE  \A f \in entry'[r].step.findings :
               <<f, r>> \in stderr' \/ \E i \in 1..Len(envlog') : envlog'[i] = <<f, r>>
  BY <1>2 DEF FindingsTaken
<1>3. ASSUME NEW r \in Requests, NEW e \in Envelopes, ArriveOther(r, e) PROVE FindingsTaken'
  <2> DEFINE rows == Append(requestRows(e, r), <<"response", r>>)
  <2>1. PICK k \in 0..2 : Writes(rows, k)
    BY <1>3 DEF ArriveOther
  <2>2. rows \in Seq(Row)
    BY ArrivalRows
  <2> HIDE DEF rows
  <2>3. k \in 0..Len(rows) /\ UNCHANGED <<entry, stderr>>
    BY <1>3, <2>1, <2>2 DEF Writes, ArriveOther
  <2> QED BY <1>1, <1>2, <2>1, <2>2, <2>3 DEF FindingsTaken
<1>4. ASSUME NEW r \in Requests, NEW e \in Envelopes, ArriveStep(r, e) PROVE FindingsTaken'
  <2> DEFINE rows == requestRows(e, r) \o findingRows(e, r)
             done == IF assembles(e) THEN rows ELSE Append(rows, <<"response", r>>)
             new == nextEntry(read(e.session_id), e.session_id, stepOf(e))
  <2>1. PICK k \in 0..Len(done) : Writes(done, k) /\ stderr' = stderr \cup reported(done, k)
    BY <1>4 DEF ArriveStep
  <2>2. /\ done \in Seq(Row) /\ IsStep(e)
        /\ \A f \in examineStep(e).findings : \E i \in 1..Len(done) : done[i] = <<f, r>>
    BY <1>4, StepRows DEF ArriveStep
  <2>3. entry' = [entry EXCEPT ![r] = new] /\ new.step.findings = examineStep(e).findings
    BY <1>4 DEF ArriveStep, nextEntry, stepOf
  <2>4. examineStep(e).findings \subseteq Findings
    BY DEF examineStep
  <2> HIDE DEF done, new
  <2>5. ASSUME NEW f \in examineStep(e).findings
        PROVE  <<f, r>> \in stderr' \/ \E i \in 1..Len(envlog') : envlog'[i] = <<f, r>>
    <3>1. PICK i \in 1..Len(done) : done[i] = <<f, r>>
      BY <2>2
    <3>2. CASE i <= k
      <4>1. i \in 1..k /\ k \in Nat /\ Len(envlog) \in Nat
        BY <1>0, <3>1, <3>2
      <4>2. Len(envlog') = Len(envlog) + k /\ envlog'[Len(envlog) + i] = <<f, r>>
        BY <1>0, <2>1, <2>2, <3>1, <4>1, WritesEffect
      <4>3. Len(envlog) + i \in 1..Len(envlog')
        BY <4>1, <4>2
      <4> QED BY <4>2, <4>3
    <3>3. CASE ~(i <= k)
      <4>1. i \in (k + 1)..Len(done)
        BY <3>1, <3>3
      <4>2. <<f, r>> \in reported(done, k)
        BY <2>4, <2>5, <3>1, <4>1 DEF reported
      <4> QED BY <2>1, <4>2
    <3> QED BY <3>2, <3>3
  <2>6. stderr \subseteq stderr' /\ \A i \in 1..Len(envlog) : i \in 1..Len(envlog') /\ envlog'[i] = envlog[i]
    BY <1>1, <2>1, <2>2
  <2>7. ASSUME NEW q \in Requests, entry'[q] # None
        PROVE  \A f \in entry'[q].step.findings :
                 <<f, q>> \in stderr' \/ \E i \in 1..Len(envlog') : envlog'[i] = <<f, q>>
    <3>1. CASE q = r
      BY <1>0, <2>3, <2>5, <3>1
    <3>2. CASE q # r
      BY <1>0, <1>2, <2>3, <2>6, <2>7, <3>2
    <3> QED BY <3>1, <3>2
  <2> QED BY <2>7 DEF FindingsTaken
<1>5. ASSUME NEW r \in Requests, Evaluation(r) PROVE FindingsTaken'
  <2> DEFINE rows == <<<<"response", r>>>>
  <2>1. PICK k \in 0..1 : Writes(rows, k)
    BY <1>5 DEF Evaluation, Fail, Settle
  <2>2. rows \in Seq(Row) /\ Len(rows) = 1
    BY RowTypes
  <2> HIDE DEF rows
  <2>3. UNCHANGED <<entry, stderr>>
    BY <1>5 DEF Evaluation, Fail, Settle
  <2> QED BY <1>1, <1>2, <2>1, <2>2, <2>3 DEF FindingsTaken
<1>6. CASE Crash
  BY <1>6 DEF Crash, FindingsTaken
<1>7. CASE UNCHANGED vars
  BY <1>7 DEF vars, stepVars, logVars, FindingsTaken
<1> QED BY <1>3, <1>4, <1>5, <1>6, <1>7 DEF Next

\* Rows are lost one for each process that found a fragment, the first it
\* writes, which is never a finding; as long as one process may still lose one,
\* a restart is ahead of the rows lost.
GlueInv ==
  /\ IsFiniteSet(glued) /\ Cardinality(glued) <= restarts
  /\ envtorn /\ ~envdown => Cardinality(glued) < restarts
  /\ \A row \in glued : row[1] \in {"request", "response"}

LEMMA WritesGlue ==
  ASSUME GlueInv, restarts \in Nat, restarts' = restarts, NEW rows, Len(rows) \in Nat,
         NEW k \in 0..Len(rows), Writes(rows, k), rows[1][1] \in {"request", "response"}
  PROVE  GlueInv'
<1>1. /\ IsFiniteSet(glued \cup {rows[1]}) /\ Cardinality(glued) \in Nat
      /\ Cardinality(glued \cup {rows[1]}) \in {Cardinality(glued), Cardinality(glued) + 1}
  BY FS_AddElement, FS_CardinalityType DEF GlueInv
<1>2. CASE envtorn /\ k > 0
  <2>1. ~envdown /\ glued' = glued \cup {rows[1]}
    BY <1>2 DEF Writes
  <2>2. Cardinality(glued) < restarts
    BY <1>2, <2>1 DEF GlueInv
  <2>3. Cardinality(glued') <= restarts /\ IsFiniteSet(glued')
    BY <1>1, <2>1, <2>2
  <2>4. ~(envtorn' /\ ~envdown')
    <3>1. ~(k = 0)
      BY <1>2
    <3> QED BY <3>1, Zenon DEF Writes
  <2> QED BY <2>1, <2>3, <2>4 DEF GlueInv
<1>3. CASE ~(envtorn /\ k > 0)
  <2>1. glued' = glued
    BY <1>3 DEF Writes
  <2>2. envtorn' /\ ~envdown' => envtorn /\ ~envdown
    BY DEF Writes
  <2> QED BY <2>1, <2>2 DEF GlueInv
<1> QED BY <1>2, <1>3

LEMMA GlueKept ==
  ASSUME GlueInv, IInv, FlightInv, [Next]_vars
  PROVE  GlueInv'
<1>0. restarts \in Nat
  BY BoundsAssumption DEF IInv, StoreTypeOK
<1>1. ASSUME NEW r \in Requests, NEW e \in Envelopes, ArriveOther(r, e) PROVE GlueInv'
  <2> DEFINE rows == Append(requestRows(e, r), <<"response", r>>)
  <2>1. PICK k \in 0..2 : Writes(rows, k)
    BY <1>1 DEF ArriveOther
  <2>2. rows \in Seq(Row) /\ rows[1][1] \in {"request", "response"}
    BY ArrivalRows
  <2> HIDE DEF rows
  <2>3. k \in 0..Len(rows) /\ restarts' = restarts
    BY <1>1, <2>1, <2>2 DEF Writes, ArriveOther, storeVars
  <2> QED BY <1>0, <2>1, <2>2, <2>3, WritesGlue
<1>2. ASSUME NEW r \in Requests, NEW e \in Envelopes, ArriveStep(r, e) PROVE GlueInv'
  <2> DEFINE rows == requestRows(e, r) \o findingRows(e, r)
             done == IF assembles(e) THEN rows ELSE Append(rows, <<"response", r>>)
  <2>1. PICK k \in 0..Len(done) : Writes(done, k)
    BY <1>2 DEF ArriveStep
  <2>2. done \in Seq(Row) /\ done[1] = <<"request", r>>
    BY <1>2, StepRows DEF ArriveStep
  <2> HIDE DEF done
  <2>3. restarts' = restarts
    BY <1>2 DEF ArriveStep, append
  <2> QED BY <1>0, <2>1, <2>2, <2>3, WritesGlue
<1>3. ASSUME NEW r \in Requests, Evaluation(r) PROVE GlueInv'
  <2> DEFINE rows == <<<<"response", r>>>>
  <2>1. PICK k \in 0..1 : Writes(rows, k)
    BY <1>3 DEF Evaluation, Fail, Settle
  <2>2. Len(rows) = 1 /\ rows[1][1] = "response"
    OBVIOUS
  <2>3. restarts' = restarts
    BY <1>3 DEF Evaluation, Fail, Settle, persistIfcLabels, replaceIfcLabels, storeVars
  <2> HIDE DEF rows
  <2> QED BY <1>0, <2>1, <2>2, <2>3, WritesGlue
<1>4. CASE Crash
  <2>1. restarts' = restarts + 1 /\ UNCHANGED glued
    BY <1>4 DEF Crash, Restart
  <2>2. Cardinality(glued) \in Nat
    BY FS_CardinalityType DEF GlueInv
  <2> QED BY <1>0, <2>1, <2>2 DEF GlueInv
<1>5. CASE UNCHANGED vars
  BY <1>5 DEF vars, storeVars, stepVars, logVars, GlueInv
<1> QED BY <1>1, <1>2, <1>3, <1>4, <1>5 DEF Next

\* Whatever overlaps, fails or is evicted, a step that was taken is on record:
\* on its chain, its findings readable, its rows behind its request's, of which
\* a torn line and a restart may hide one; no more rows are lost than restarts.
THEOREM StepsAreOnRecordHolds == Spec => []StepsAreOnRecord
<1>1. Init => LogInv /\ FindingsTaken /\ GlueInv
  BY FS_EmptySet DEF Init, StoreInit, LogInv, RowsFollowTheirRequest, FindingsTaken, GlueInv
<1>2. LogInv /\ StepsTypeOK /\ [Next]_vars => LogInv'
  BY LogKept
<1>3. FindingsTaken /\ EntryInv /\ StepsTypeOK /\ [Next]_vars => FindingsTaken'
  BY FindingsKept
<1>4. GlueInv /\ IInv /\ FlightInv /\ [Next]_vars => GlueInv'
  BY GlueKept
<1>5. LogInv => RowsFollowTheirRequest
  BY DEF LogInv
<1>6. FindingsTaken /\ GlueInv /\ StepsTypeOK => FindingsAreRecorded /\ FewRowsAreGlued
  <2> SUFFICES ASSUME FindingsTaken, GlueInv, StepsTypeOK PROVE FindingsAreRecorded
    BY DEF GlueInv, FewRowsAreGlued
  <2>1. ASSUME NEW r \in Requests, entry[r] # None, NEW f \in entry[r].step.findings
        PROVE  <<f, r>> \notin glued
    <3>1. f \in Findings
      BY <2>1 DEF StepsTypeOK, SessionContextEntry, SessionStep
    <3> QED BY <3>1 DEF GlueInv, Findings
  <2> QED BY <2>1 DEF FindingsTaken, FindingsAreRecorded
<1>7. Spec => []IInv
  BY GuardianImplementsStore, StoreInvariant, PTL
<1> QED BY <1>1, <1>2, <1>3, <1>4, <1>5, <1>6, <1>7, EntryHolds, StepsTypeCorrect, FlightInvariant,
           StepsAreOnTheChain, PTL
        DEF Spec, StepsAreOnRecord

-----------------------------------------------------------------------------
(* Whose verdict moved a session's labels. *)

\* Between two states the labels of every session retained in both are kept, or
\* r's evaluation is answered with the labels its own session now has.
LabelsMove(s) ==
  \E r \in Requests : /\ phase[r] = "evaluating" /\ phase'[r] = "answered"
                      /\ envelope[r].session_id = s
                      /\ emitted'[r] = sessions'[s].ifc_labels

\* A write of one session leaves every other session's labels alone.
LEMMA WriteKeepsOtherLabels ==
  ASSUME IInv, NEW t \in Sessions, NEW next, Write(t, next), NEW s \in Retained \cap Retained'
  PROVE  sessions'[s] = IF s = t THEN next ELSE sessions[s]
<1>1. Retained' = Elems(order')
  BY DEF Write, Retained
<1> QED BY <1>1 DEF Write

LEMMA LabelsMoveStep ==
  ASSUME IInv, StepsTypeOK, FlightInv, Next, NEW s \in Retained \cap Retained',
         sessions'[s].ifc_labels # sessions[s].ifc_labels
  PROVE  LabelsMove(s)
<1>1. ASSUME UNCHANGED storeVars PROVE FALSE
  BY <1>1 DEF storeVars
<1>2. s \in Sessions /\ GoodState(s, sessions[s]) /\ read(s) = sessions[s]
  BY DEF IInv, StoreTypeOK, read
<1>3. ASSUME NEW r \in Requests, NEW e \in Envelopes, ArriveOther(r, e) PROVE FALSE
  BY <1>1, <1>3 DEF ArriveOther
<1>4. ASSUME NEW r \in Requests, NEW e \in Envelopes, ArriveStep(r, e) PROVE FALSE
  <2> DEFINE t == e.session_id
             next == push(read(t), nextEntry(read(t), t, stepOf(e)))
  <2>1. t \in Sessions /\ Write(t, next)
    BY <1>4, EnvelopesAssumption DEF ArriveStep, append, Envelope
  <2>2. s = t => next.ifc_labels = sessions[s].ifc_labels
    BY <1>2 DEF push, GoodState, SessionState
  <2> HIDE DEF t, next
  <2> QED BY <2>1, <2>2, WriteKeepsOtherLabels
<1>5. ASSUME NEW r \in Requests, Fail(r) PROVE FALSE
  BY <1>1, <1>5 DEF Fail
<1>6. ASSUME NEW r \in Requests, NEW verdict \in Verdicts, Settle(r, verdict) PROVE LabelsMove(s)
  <2> DEFINE t == envelope[r].session_id
             labels == verdict.result_labels
             next == [read(t) EXCEPT !.ifc_labels = labels]
  <2>1. phase[r] = "evaluating" /\ t \in Sessions
    BY <1>6, EnvelopesAssumption DEF Settle, FlightInv, Envelope
  <2>2. /\ persistIfcLabels(t, labels)
        /\ emitted' = [emitted EXCEPT ![r] = labels]
        /\ phase' = [phase EXCEPT ![r] = "answered"]
    BY <1>1, <1>6 DEF Settle, Answers
  <2>3. Write(t, next)
    BY <1>1, <2>2 DEF persistIfcLabels, replaceIfcLabels
  <2>4. s = t /\ sessions'[s] = next
    BY <2>1, <2>3, WriteKeepsOtherLabels
  <2>5. next.ifc_labels = labels
    BY <1>2, <2>4 DEF GoodState, SessionState
  <2>6. emitted'[r] = labels /\ phase'[r] = "answered"
    BY <2>2 DEF StepsTypeOK
  <2> HIDE DEF labels, next
  <2> QED BY <2>1, <2>4, <2>5, <2>6 DEF LabelsMove
<1>7. CASE Crash
  BY <1>7 DEF Crash, Restart, Retained, NoSessions
<1> QED BY <1>3, <1>4, <1>5, <1>6, <1>7 DEF Next, Evaluation

\* A retained session's labels move only as one of its own steps is answered,
\* and then to what that step's verdict returned: no failed evaluation, invalid
\* body, crash, eviction or other session's step moves them.
THEOREM LabelsMoveOnlyWithVerdicts == Spec => LabelsMoveWithVerdicts
<1>1. IInv /\ StepsTypeOK /\ FlightInv /\ [Next]_vars =>
        [\A s \in Retained \cap Retained' :
           sessions'[s].ifc_labels # sessions[s].ifc_labels =>
             \E r \in Requests : /\ phase[r] = "evaluating" /\ phase'[r] = "answered"
                                 /\ envelope[r].session_id = s
                                 /\ emitted'[r] = sessions'[s].ifc_labels]_vars
  BY LabelsMoveStep DEF LabelsMove
<1>2. Spec => []IInv
  BY GuardianImplementsStore, StoreInvariant, PTL
<1> QED BY <1>1, <1>2, StepsTypeCorrect, FlightInvariant, PTL DEF Spec, LabelsMoveWithVerdicts
=============================================================================
