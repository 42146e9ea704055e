-------------------------- MODULE NatSession_proofs --------------------------
(***************************************************************************)
(* Proofs about NatSession, for any finite set of calls and any answers of  *)
(* the Guardian.  The inductive invariant relates the session's lock to the *)
(* decision (LockInv), the lane to what it sends (LaneInv), its queue to    *)
(* the calls that wait in it (QueueInv), the count to the exchanges under   *)
(* way (FlightInv), what was sent to the decision and the lane (SentInv),   *)
(* and each call's own state to the session's end (CallInv) and to the      *)
(* run's input (InputInv).                                                  *)
(***************************************************************************)
EXTENDS NatSession, FiniteSetTheorems, TLAPS

Asking == {"exchange", "sent", "unsent"}
Past == Asking \cup {"gate"}

\* One thread at a time opens the session, and no step is past opening before.
LockInv ==
  \A t \in Threads :
    /\ pc[t] \in {"hello", "start"} <=> lock = t
    /\ pc[t] = "hello" => decision = None
    /\ pc[t] = "start" => decision \in Negotiated
    /\ pc[t] \in Past => lock = None /\ decision # None
    /\ pc[t] \in Asking => decision \in Negotiated

LaneInv ==
  /\ pc[Lane] \notin {"wait", "tool", "done"}
  /\ pc[Lane] = "idle" <=> item = None
  /\ pc[Lane] \in {"open", "hello", "start"} => item # "steps/sessionEnd"
  /\ pc[Lane] \in {"drain", "decision", "finish"} => item = "steps/sessionEnd"
  /\ pc[Lane] \in Asking => item # "steps/sessionStart"
  /\ item # None => (closed <=> item = "steps/sessionEnd")
  /\ sealed => closed /\ item = None
  /\ \A c \in Calls : pc[c] \notin {"drain", "decision", "finish"}

\* A session's end is the last hook queued, and a call waits in the queue once.
QueueInv ==
  /\ closed => ended
  /\ \A i \in 1..Len(pending) :
       /\ closed => pending[i] \in Calls
       /\ pending[i] = "steps/sessionEnd" => ended /\ \A j \in 1..Len(pending) : j > i => pending[j] \in Calls
       /\ pending[i] \in Calls => pc[pending[i]] = "wait"
       /\ \A j \in 1..Len(pending) : pending[i] = pending[j] /\ pending[i] \in Calls => i = j

Counted(t) == pc[t] \in {"sent", "unsent"} /\ method_of(t) # "steps/sessionEnd"
InFlight == {t \in Threads : Counted(t)}

FlightInv ==
  /\ in_flight = Cardinality(InFlight)
  /\ closed /\ pc[Lane] # "drain" => in_flight = 0

SentInv ==
  /\ decision = None /\ lock = None => sent = <<>>
  /\ \A t \in Threads : pc[t] = "hello" => Len(sent) = 1
  /\ decision \in Negotiated => sent # <<>>
  /\ \A i \in 1..Len(sent) :
       /\ sent[i] = "handshake/hello" <=> i = 1
       /\ sent[i] = "steps/sessionStart" => i = 2
       /\ sent[i] = "steps/sessionEnd" =>
            /\ i = Len(sent)
            /\ closed /\ decision # None /\ lock = None
            /\ pc[Lane] \in {"sent", "finish"} \/ sealed

CallInv ==
  \A c \in Calls :
    /\ pc[c] = "idle" => ran[c] = {} /\ stage[c] = "pre"
    /\ pc[c] = "tool" => stage[c] = "pre"
    /\ stage[c] = "pre" => "post" \notin ran[c]
    /\ late[c] =>
         /\ ended \/ shut # "no"
         /\ pc[c] \in {"wait", "open", "done"} /\ stage[c] \notin ran[c]
    /\ settings.kind = "workflow" /\ run \in {"idle", "opened", "started"} => pc[c] = "idle"

\* The run's input is queued, or is being sent.
InputAhead == item = "steps/userMessage" \/ \E i \in 1..Len(pending) : pending[i] = "steps/userMessage"

\* Until the input is answered no call is past the queue, and none is past the gate
\* once it is refused.
InputInv ==
  /\ InputAhead => \A c \in Calls : pc[c] \in {"idle", "wait", "done"} /\ ran[c] = {} /\ stage[c] = "pre"
  /\ \A i, j \in 1..Len(pending) : pending[i] = "steps/userMessage" /\ pending[j] \in Calls => i < j
  /\ input_refusal =>
       /\ lock = None /\ decision \in Negotiated
       /\ \A c \in Calls : stage[c] = "pre" /\ "pre" \notin ran[c] /\ pc[c] \notin Asking \cup {"tool"}

IInv ==
  /\ NatTypeOK /\ LockInv /\ LaneInv /\ QueueInv
  /\ FlightInv /\ SentInv /\ CallInv /\ InputInv


-----------------------------------------------------------------------------
(* Facts the steps rest on. *)

LEMMA ThreadFacts ==
  /\ Threads = Calls \cup {Lane} /\ Lane \notin Calls /\ IsFiniteSet(Threads)
  /\ Calls \cap Methods = {} /\ None \notin Threads /\ None \notin Methods
<1>1. IsFiniteSet(Threads)
  BY CallsAssumption, FS_AddElement DEF Threads
<1> QED BY <1>1, CallsAssumption, LaneAssumption, NoneAssumption DEF Threads, Requests

LEMMA DecisionKinds ==
  /\ \A d \in Decision : /\ d \in Negotiated <=> d.kind = "negotiated"
                         /\ d.kind \in {"negotiated", "refused", "no_answer"}
                         /\ d # None
  /\ SessionRefused \in Decision /\ NoAnswer \in Decision
  /\ SessionRefused \notin Negotiated /\ NoAnswer \notin Negotiated
  /\ Negotiated \subseteq Decision /\ Hellos \subseteq Decision
  /\ None \notin Decision
  BY NoneAssumption, HellosAssumption DEF Decision, Negotiated, SessionRefused, NoAnswer

\* A start without a decision leaves the negotiated answer a negotiated one.
LEMMA FailedStartTypes ==
  ASSUME NEW d \in Negotiated
  PROVE  [d EXCEPT !.start_failure = TRUE] \in Negotiated
  BY DEF Negotiated

\* A queue after an append, and after its head is taken.
LEMMA Appended ==
  ASSUME NEW S, NEW s \in Seq(S), NEW e \in S
  PROVE  /\ Append(s, e) \in Seq(S) /\ Len(Append(s, e)) = Len(s) + 1 /\ Len(s) \in Nat
         /\ \A i \in 1..Len(s) : Append(s, e)[i] = s[i]
         /\ Append(s, e)[Len(s) + 1] = e
  OBVIOUS

LEMMA Taken ==
  ASSUME NEW S, NEW s \in Seq(S), s # <<>>
  PROVE  /\ Tail(s) \in Seq(S) /\ Len(Tail(s)) = Len(s) - 1 /\ Len(s) \in Nat \ {0}
         /\ \A i \in 1..Len(s) - 1 : Tail(s)[i] = s[i + 1]
         /\ Head(s) = s[1] /\ Head(s) \in S
  OBVIOUS

LEMMA NoHookIsACall ==
  ASSUME NEW m \in Methods
  PROVE  m \notin Calls
  BY CallsAssumption

\* What a hook does to the queue: nothing, or it is the last; the input is queued
\* while no call has begun.
Queued(m) ==
  \/ UNCHANGED <<pending, ended>>
  \/ /\ m \in Methods /\ ~ended
     /\ pending' = Append(pending, m) /\ ended' = (m = "steps/sessionEnd")
     /\ m = "steps/userMessage" => \A c \in Calls : pc[c] = "idle"

LEMMA QueuedKeeps ==
  ASSUME IInv, NEW m, Queued(m), UNCHANGED <<pc, closed, item, input_refusal, lock, decision, stage, ran>>
  PROVE  pending' \in Seq(Methods \cup Calls) /\ QueueInv' /\ InputInv' /\ ended' \in BOOLEAN
<1>0. NatTypeOK /\ QueueInv /\ CallInv /\ InputInv
  BY DEF IInv
<1>1. CASE UNCHANGED <<pending, ended>>
  BY <1>0, <1>1 DEF NatTypeOK, QueueInv, InputInv, InputAhead
<1>2. CASE ~UNCHANGED <<pending, ended>>
  <2> DEFINE n == Len(pending) + 1
  <2>1. /\ m \in Methods /\ ~ended /\ ~closed /\ pending' = Append(pending, m)
        /\ ended' = (m = "steps/sessionEnd")
        /\ m = "steps/userMessage" => \A c \in Calls : pc[c] = "idle"
    BY <1>0, <1>2 DEF Queued, QueueInv
  <2>2. /\ pending' \in Seq(Methods \cup Calls) /\ Len(pending') = n /\ n \in Nat \ {0}
        /\ \A i \in 1..Len(pending) : pending'[i] = pending[i]
        /\ pending'[n] = m
    BY <1>0, <2>1, Appended DEF NatTypeOK
  <2>3. m \notin Calls
    BY <2>1, NoHookIsACall
  <2>4. QueueInv'
    <3>1. /\ \A i \in 1..n : i = n \/ i \in 1..Len(pending)
          /\ \A i \in 1..Len(pending) : i \in 1..n
          /\ \A j \in 1..n : ~(j > n)
      BY <2>2
    <3> HIDE DEF n
    <3>2. SUFFICES ASSUME NEW i \in 1..n
          PROVE  /\ pending'[i] = "steps/sessionEnd" =>
                      ended' /\ \A j \in 1..n : j > i => pending'[j] \in Calls
                 /\ pending'[i] \in Calls => pc[pending'[i]] = "wait"
                 /\ \A j \in 1..n : pending'[i] = pending'[j] /\ pending'[i] \in Calls => i = j
      BY <2>1, <2>2 DEF QueueInv
    <3>3. CASE i = n
      BY <2>1, <2>2, <2>3, <3>1, <3>3
    <3>4. CASE i \in 1..Len(pending)
      BY <1>0, <2>1, <2>2, <2>3, <3>1, <3>4 DEF QueueInv
    <3> QED BY <3>1, <3>3, <3>4
  <2>5. InputInv'
    <3>1. /\ \A i \in 1..n : i = n \/ (i \in 1..Len(pending) /\ i < n)
          /\ n \in 1..n /\ \A i \in 1..Len(pending) : i \in 1..n
      BY <2>2
    <3>2. m = "steps/userMessage" => \A c \in Calls : ran[c] = {} /\ stage[c] = "pre" /\ pc[c] = "idle"
      BY <1>0, <2>1 DEF CallInv
    <3>3. m = "steps/userMessage" => \A j \in 1..Len(pending) : pending[j] \notin Calls
      BY <1>0, <2>1 DEF QueueInv
    <3>4. InputAhead' <=> InputAhead \/ m = "steps/userMessage"
      <4> HIDE DEF n
      <4> QED BY <2>2, <3>1 DEF InputAhead
    <3>5. (\A i, j \in 1..Len(pending) : pending[i] = "steps/userMessage" /\ pending[j] \in Calls => i < j)'
      <4> HIDE DEF n
      <4> QED BY <1>0, <2>2, <2>3, <3>1, <3>3 DEF InputInv
    <3>6. (InputAhead => \A c \in Calls : pc[c] \in {"idle", "wait", "done"} /\ ran[c] = {} /\ stage[c] = "pre")'
      BY <1>0, <3>2, <3>4 DEF InputInv
    <3> QED BY <1>0, <3>5, <3>6 DEF InputInv
  <2> QED BY <2>1, <2>2, <2>4, <2>5
<1> QED BY <1>1, <1>2
-----------------------------------------------------------------------------
(* The runner, the queue, and the calls up to the gate. *)

LEMMA RunnerStartsStep ==
  ASSUME IInv, NEW text \in BOOLEAN, RunnerStarts(text)
  PROVE  IInv'
<1> USE DEF session, queue
<1>0. NatTypeOK /\ LockInv /\ LaneInv /\ QueueInv /\ FlightInv /\ SentInv /\ CallInv /\ InputInv
  BY DEF IInv
<1>q. Queued("steps/sessionStart") \/ Queued("steps/userMessage")
  BY <1>0 DEF Queued, CallInv, NatTypeOK, RunnerStarts, Queue, submit, Methods
<1>r. pending' \in Seq(Methods \cup Calls) /\ QueueInv' /\ InputInv' /\ ended' \in BOOLEAN
  <2>1. UNCHANGED <<pc, closed, item, input_refusal, lock, decision, stage, ran>>
    BY DEF RunnerStarts, Queue, submit, Methods
  <2> QED BY <1>q, <2>1, QueuedKeeps
<1>1. NatTypeOK'
  BY <1>0, <1>r DEF NatTypeOK, RunnerStarts
<1>2. LockInv'
  BY <1>0, ThreadFacts DEF NatTypeOK, LockInv, LaneInv, Past, Asking, RunnerStarts, Queue, submit, Methods
<1>3. LaneInv'
  BY <1>0, ThreadFacts DEF NatTypeOK, LockInv, LaneInv, QueueInv, Past, Asking, RunnerStarts, Queue, submit, Methods
<1>4. QueueInv'
  BY <1>r
<1>5. FlightInv'
  <2>1. \A u \in Threads : Counted(u)' <=> Counted(u)
    BY <1>0, ThreadFacts DEF NatTypeOK, LockInv, LaneInv, QueueInv, CallInv, Counted, method_of, RunnerStarts, Queue, submit, Methods
  <2>2. InFlight' = InFlight
    BY <2>1 DEF InFlight
  <2> QED BY <1>0, <2>2, ThreadFacts DEF NatTypeOK, LockInv, LaneInv, QueueInv, FlightInv, RunnerStarts, Queue, submit, Methods
<1>6. SentInv'
  BY <1>0, ThreadFacts DEF NatTypeOK, LockInv, LaneInv, SentInv, RunnerStarts, Queue, submit, Methods
<1>7. CallInv'
  BY <1>0, ThreadFacts DEF NatTypeOK, LaneInv, QueueInv, CallInv, RunnerStarts, Queue, submit, Methods
<1>8. InputInv'
  BY <1>r
<1> QED BY <1>1, <1>2, <1>3, <1>4, <1>5, <1>6, <1>7, <1>8 DEF IInv


LEMMA RunnerReturnsStep ==
  ASSUME IInv, NEW text \in BOOLEAN, RunnerReturns(text)
  PROVE  IInv'
<1> USE DEF session, queue
<1>0. NatTypeOK /\ LockInv /\ LaneInv /\ QueueInv /\ FlightInv /\ SentInv /\ CallInv /\ InputInv
  BY DEF IInv
<1>q. Queued("steps/agentResponse")
  BY <1>0 DEF Queued, CallInv, NatTypeOK, RunnerReturns, Queue, submit, Methods
<1>r. pending' \in Seq(Methods \cup Calls) /\ QueueInv' /\ InputInv' /\ ended' \in BOOLEAN
  <2>1. UNCHANGED <<pc, closed, item, input_refusal, lock, decision, stage, ran>>
    BY DEF RunnerReturns, Queue, submit, Methods
  <2> QED BY <1>q, <2>1, QueuedKeeps
<1>1. NatTypeOK'
  BY <1>0, <1>r DEF NatTypeOK, RunnerReturns
<1>2. LockInv'
  BY <1>0, ThreadFacts DEF NatTypeOK, LockInv, LaneInv, Past, Asking, RunnerReturns, Queue, submit, Methods
<1>3. LaneInv'
  BY <1>0, ThreadFacts DEF NatTypeOK, LockInv, LaneInv, QueueInv, Past, Asking, RunnerReturns, Queue, submit, Methods
<1>4. QueueInv'
  BY <1>r
<1>5. FlightInv'
  <2>1. \A u \in Threads : Counted(u)' <=> Counted(u)
    BY <1>0, ThreadFacts DEF NatTypeOK, LockInv, LaneInv, QueueInv, CallInv, Counted, method_of, RunnerReturns, Queue, submit, Methods
  <2>2. InFlight' = InFlight
    BY <2>1 DEF InFlight
  <2> QED BY <1>0, <2>2, ThreadFacts DEF NatTypeOK, LockInv, LaneInv, QueueInv, FlightInv, RunnerReturns, Queue, submit, Methods
<1>6. SentInv'
  BY <1>0, ThreadFacts DEF NatTypeOK, LockInv, LaneInv, SentInv, RunnerReturns, Queue, submit, Methods
<1>7. CallInv'
  BY <1>0, ThreadFacts DEF NatTypeOK, LaneInv, QueueInv, CallInv, RunnerReturns, Queue, submit, Methods
<1>8. InputInv'
  BY <1>r
<1> QED BY <1>1, <1>2, <1>3, <1>4, <1>5, <1>6, <1>7, <1>8 DEF IInv


LEMMA RunnerStopsStep ==
  ASSUME IInv, RunnerStops
  PROVE  IInv'
<1> USE DEF session, queue
<1>0. NatTypeOK /\ LockInv /\ LaneInv /\ QueueInv /\ FlightInv /\ SentInv /\ CallInv /\ InputInv
  BY DEF IInv
<1>q. Queued("steps/sessionEnd")
  BY <1>0 DEF Queued, CallInv, NatTypeOK, RunnerStops, EndSession, submit, Methods
<1>r. pending' \in Seq(Methods \cup Calls) /\ QueueInv' /\ InputInv' /\ ended' \in BOOLEAN
  <2>1. UNCHANGED <<pc, closed, item, input_refusal, lock, decision, stage, ran>>
    BY DEF RunnerStops, EndSession, submit, Methods
  <2> QED BY <1>q, <2>1, QueuedKeeps
<1>1. NatTypeOK'
  BY <1>0, <1>r DEF NatTypeOK, RunnerStops
<1>2. LockInv'
  BY <1>0, ThreadFacts DEF NatTypeOK, LockInv, LaneInv, Past, Asking, RunnerStops, EndSession, submit, Methods
<1>3. LaneInv'
  BY <1>0, ThreadFacts DEF NatTypeOK, LockInv, LaneInv, QueueInv, Past, Asking, RunnerStops, EndSession, submit, Methods
<1>4. QueueInv'
  BY <1>r
<1>5. FlightInv'
  <2>1. \A u \in Threads : Counted(u)' <=> Counted(u)
    BY <1>0, ThreadFacts DEF NatTypeOK, LockInv, LaneInv, QueueInv, CallInv, Counted, method_of, RunnerStops, EndSession, submit, Methods
  <2>2. InFlight' = InFlight
    BY <2>1 DEF InFlight
  <2> QED BY <1>0, <2>2, ThreadFacts DEF NatTypeOK, LockInv, LaneInv, QueueInv, FlightInv, RunnerStops, EndSession, submit, Methods
<1>6. SentInv'
  BY <1>0, ThreadFacts DEF NatTypeOK, LockInv, LaneInv, SentInv, RunnerStops, EndSession, submit, Methods
<1>7. CallInv'
  BY <1>0, ThreadFacts DEF NatTypeOK, LaneInv, QueueInv, CallInv, RunnerStops, EndSession, submit, Methods
<1>8. InputInv'
  BY <1>r
<1> QED BY <1>1, <1>2, <1>3, <1>4, <1>5, <1>6, <1>7, <1>8 DEF IInv


LEMMA CloseStep ==
  ASSUME IInv, Close
  PROVE  IInv'
<1> USE DEF session, queue
<1>0. NatTypeOK /\ LockInv /\ LaneInv /\ QueueInv /\ FlightInv /\ SentInv /\ CallInv /\ InputInv
  BY DEF IInv
<1>q. Queued("steps/sessionEnd")
  BY <1>0 DEF Queued, CallInv, NatTypeOK, Close, EndSession, submit, Methods
<1>r. pending' \in Seq(Methods \cup Calls) /\ QueueInv' /\ InputInv' /\ ended' \in BOOLEAN
  <2>1. UNCHANGED <<pc, closed, item, input_refusal, lock, decision, stage, ran>>
    BY DEF Close, EndSession, submit, Methods
  <2> QED BY <1>q, <2>1, QueuedKeeps
<1>1. NatTypeOK'
  BY <1>0, <1>r DEF NatTypeOK, Close
<1>2. LockInv'
  BY <1>0, ThreadFacts DEF NatTypeOK, LockInv, LaneInv, Past, Asking, Close, EndSession, submit, Methods
<1>3. LaneInv'
  BY <1>0, ThreadFacts DEF NatTypeOK, LockInv, LaneInv, QueueInv, Past, Asking, Close, EndSession, submit, Methods
<1>4. QueueInv'
  BY <1>r
<1>5. FlightInv'
  <2>1. \A u \in Threads : Counted(u)' <=> Counted(u)
    BY <1>0, ThreadFacts DEF NatTypeOK, LockInv, LaneInv, QueueInv, CallInv, Counted, method_of, Close, EndSession, submit, Methods
  <2>2. InFlight' = InFlight
    BY <2>1 DEF InFlight
  <2> QED BY <1>0, <2>2, ThreadFacts DEF NatTypeOK, LockInv, LaneInv, QueueInv, FlightInv, Close, EndSession, submit, Methods
<1>6. SentInv'
  BY <1>0, ThreadFacts DEF NatTypeOK, LockInv, LaneInv, SentInv, Close, EndSession, submit, Methods
<1>7. CallInv'
  BY <1>0, ThreadFacts DEF NatTypeOK, LaneInv, QueueInv, CallInv, Close, EndSession, submit, Methods
<1>8. InputInv'
  BY <1>r
<1> QED BY <1>1, <1>2, <1>3, <1>4, <1>5, <1>6, <1>7, <1>8 DEF IInv


LEMMA BeginStep ==
  ASSUME IInv, NEW c \in Calls, Begin(c)
  PROVE  IInv'
<1> USE DEF session, queue
<1>0. NatTypeOK /\ LockInv /\ LaneInv /\ QueueInv /\ FlightInv /\ SentInv /\ CallInv /\ InputInv
  BY DEF IInv
<1>b. /\ stage' = [stage EXCEPT ![c] = IF pc[c] = "idle" THEN "pre" ELSE "post"]
      /\ \E q \in {"done", "wait", "open"} : pc' = [pc EXCEPT ![c] = q]
      /\ late' = [late EXCEPT ![c] = ended \/ shut # "no"]
      /\ pending' = pending \/ (pending' = Append(pending, c) /\ pc' = [pc EXCEPT ![c] = "wait"])
      /\ pc[c] \in {"idle", "tool"}
  BY DEF Begin, Joins, Goto
<1>a. /\ Append(pending, c) \in Seq(Methods \cup Calls)
      /\ Len(Append(pending, c)) = Len(pending) + 1 /\ Len(pending) \in Nat
      /\ \A i \in 1..Len(pending) : Append(pending, c)[i] = pending[i]
      /\ Append(pending, c)[Len(pending) + 1] = c
      /\ c # "steps/userMessage" /\ c # "steps/sessionEnd"
  <2>1. c \in Methods \cup Calls /\ pending \in Seq(Methods \cup Calls)
    BY <1>0 DEF NatTypeOK
  <2>2. c # "steps/userMessage" /\ c # "steps/sessionEnd"
    BY ThreadFacts DEF Methods
  <2> QED BY <2>1, <2>2, Appended
<1>l. /\ pending' \in Seq(Methods \cup Calls)
      /\ \A i \in 1..Len(pending) : pending[i] # c
  <2>1. \A i \in 1..Len(pending) : pending[i] # c
    BY <1>0, <1>b DEF QueueInv
  <2> QED BY <1>0, <1>a, <1>b, <2>1 DEF NatTypeOK
<1>1. NatTypeOK'
  BY <1>0, <1>b, <1>l, ThreadFacts DEF NatTypeOK, Begin, Joins
<1>2. LockInv'
  BY <1>0, ThreadFacts DEF NatTypeOK, LockInv, LaneInv, Past, Asking, Begin, Joins, Goto
<1>3. LaneInv'
  BY <1>0, ThreadFacts DEF NatTypeOK, LockInv, LaneInv, QueueInv, Past, Asking, Begin, Joins, Goto
<1>4. QueueInv'
  <2>1. CASE pending' = pending
    BY <1>0, <1>b, <1>l, <2>1, ThreadFacts DEF NatTypeOK, QueueInv, Begin, Joins
  <2>2. CASE pending' = Append(pending, c)
    <3>1. pc' = [pc EXCEPT ![c] = "wait"] /\ UNCHANGED <<closed, ended>>
      BY <1>b, <2>2, <1>0, Appended DEF NatTypeOK, Begin, Joins
    <3>2. /\ Len(pending') = Len(pending) + 1 /\ pending'[Len(pending) + 1] = c /\ Len(pending) \in Nat
          /\ \A i \in 1..Len(pending) : pending'[i] = pending[i]
      BY <1>0, <2>2, Appended DEF NatTypeOK
    <3>3. \A i \in 1..Len(pending) + 1 : i = Len(pending) + 1 \/ i \in 1..Len(pending)
      BY <3>2
    <3>4. c # "steps/sessionEnd"
      BY ThreadFacts DEF Methods
    <3>5. SUFFICES ASSUME NEW i \in 1..Len(pending) + 1
          PROVE  /\ closed => pending'[i] \in Calls
                 /\ pending'[i] = "steps/sessionEnd" =>
                      ended /\ \A j \in 1..Len(pending) + 1 : j > i => pending'[j] \in Calls
                 /\ pending'[i] \in Calls => pc'[pending'[i]] = "wait"
                 /\ \A j \in 1..Len(pending) + 1 : pending'[i] = pending'[j] /\ pending'[i] \in Calls => i = j
      BY <1>0, <3>1, <3>2 DEF QueueInv
    <3>6. CASE i = Len(pending) + 1
      BY <1>0, <1>l, <3>1, <3>2, <3>3, <3>4, <3>6, ThreadFacts DEF NatTypeOK
    <3>7. CASE i \in 1..Len(pending)
      <4>1. pending'[i] = pending[i] /\ pending[i] # c
        BY <1>l, <3>2, <3>7
      <4>2. pending[i] \in Calls => pc'[pending[i]] = "wait"
        BY <1>0, <3>1, <3>7, <4>1 DEF QueueInv, NatTypeOK
      <4>3. pending[i] = "steps/sessionEnd" => ended /\ \A j \in 1..Len(pending) : j > i => pending[j] \in Calls
        BY <1>0, <3>7 DEF QueueInv
      <4>4. closed => pending[i] \in Calls
        BY <1>0, <3>7 DEF QueueInv
      <4>5. \A j \in 1..Len(pending) : pending[i] = pending[j] /\ pending[i] \in Calls => i = j
        BY <1>0, <3>7 DEF QueueInv
      <4> QED BY <3>2, <3>3, <4>1, <4>2, <4>3, <4>4, <4>5
    <3> QED BY <3>3, <3>6, <3>7
  <2> QED BY <1>b, <2>1, <2>2
<1>5. FlightInv'
  <2>1. \A u \in Threads : Counted(u)' <=> Counted(u)
    BY <1>0, ThreadFacts DEF NatTypeOK, LockInv, LaneInv, QueueInv, CallInv, Counted, method_of, Begin, Joins, Goto
  <2>2. InFlight' = InFlight
    BY <2>1 DEF InFlight
  <2> QED BY <1>0, <2>2, ThreadFacts DEF NatTypeOK, LockInv, LaneInv, QueueInv, FlightInv, Begin, Joins, Goto
<1>6. SentInv'
  BY <1>0, ThreadFacts DEF NatTypeOK, LockInv, LaneInv, SentInv, Begin, Joins, Goto
<1>7. CallInv'
  BY <1>0, ThreadFacts DEF NatTypeOK, LaneInv, QueueInv, CallInv, Begin, Joins, Goto
<1>8. InputInv'
  <2>1. InputAhead' <=> InputAhead
    <3>2. UNCHANGED item
      BY DEF Begin, Joins, queue
    <3>3. \A i \in 1..Len(pending) + 1 : i = Len(pending) + 1 \/ i \in 1..Len(pending)
      BY <1>a
    <3>4. \A i \in 1..Len(pending) : i \in 1..Len(pending) + 1
      BY <1>a
    <3>5. (\E i \in 1..Len(pending') : pending'[i] = "steps/userMessage")
            <=> \E i \in 1..Len(pending) : pending[i] = "steps/userMessage"
      BY <1>a, <1>b, <3>3, <3>4
    <3> QED BY <3>2, <3>5 DEF InputAhead
  <2>2. InputAhead => item # None \/ pending # <<>>
    BY ThreadFacts DEF InputAhead, Methods
  <2>3. InputAhead => \A u \in Calls : pc'[u] \in {"idle", "wait", "done"} /\ ran'[u] = {} /\ stage'[u] = "pre"
    BY <1>0, <1>b, <2>2 DEF InputInv, NatTypeOK, Begin, Joins, Goto
  <2>4. \A i, j \in 1..Len(pending') : pending'[i] = "steps/userMessage" /\ pending'[j] \in Calls => i < j
    <3>1. \A i \in 1..Len(pending) + 1 : i = Len(pending) + 1 \/ (i \in 1..Len(pending) /\ i < Len(pending) + 1)
      BY <1>a
    <3> QED BY <1>0, <1>a, <1>b, <3>1 DEF InputInv
  <2>5. input_refusal => lock = None /\ decision \in Negotiated
           /\ \A u \in Calls : stage'[u] = "pre" /\ "pre" \notin ran[u] /\ pc'[u] \notin Asking \cup {"tool"}
    BY <1>0, <1>b DEF InputInv, NatTypeOK, Asking, CallInv
  <2>6. UNCHANGED <<input_refusal, lock, decision, ran>>
    BY DEF Begin, Joins
  <2> QED BY <2>1, <2>3, <2>4, <2>5, <2>6 DEF InputInv
<1> QED BY <1>1, <1>2, <1>3, <1>4, <1>5, <1>6, <1>7, <1>8 DEF IInv


LEMMA OpenStep ==
  ASSUME IInv, NEW t \in Threads, Open(t)
  PROVE  IInv'
<1> USE DEF session, queue
<1>0. NatTypeOK /\ LockInv /\ LaneInv /\ QueueInv /\ FlightInv /\ SentInv /\ CallInv /\ InputInv
  BY DEF IInv
<1>b. /\ \E q \in {"done", "gate", "hello"} : pc' = [pc EXCEPT ![t] = q]
      /\ t \in Calls \/ pc' = [pc EXCEPT ![t] = "gate"] \/ pc' = [pc EXCEPT ![t] = "hello"]
      /\ decision' \in Decision \cup {None} /\ lock' \in Threads \cup {None}
      /\ sent' = sent \/ sent' = Append(sent, "handshake/hello")
      /\ ran' = [ran EXCEPT ![t] = @] \/ ran' = ran
  BY <1>0, ThreadFacts, DecisionKinds DEF NatTypeOK, Open, Settle, Goto
<1>c. sent' \in Seq(Requests)
  <2>1. sent \in Seq(Requests) /\ "handshake/hello" \in Requests
    BY <1>0 DEF NatTypeOK, Requests, Methods
  <2>2. Append(sent, "handshake/hello") \in Seq(Requests)
    BY <2>1, Appended
  <2> QED BY <1>b, <2>1, <2>2
<1>d. ran' = ran
  BY <1>0, <1>b DEF NatTypeOK
<1>1. NatTypeOK'
  BY <1>0, <1>b, <1>c, <1>d DEF NatTypeOK, Open
<1>2. LockInv'
  BY <1>0, ThreadFacts, DecisionKinds DEF NatTypeOK, LockInv, LaneInv, Past, Asking, Open, Settle, Goto
<1>3. LaneInv'
  BY <1>0, ThreadFacts, DecisionKinds DEF NatTypeOK, LockInv, LaneInv, QueueInv, Past, Asking, Open, Settle, Goto
<1>4. QueueInv'
  BY <1>0, ThreadFacts, DecisionKinds DEF NatTypeOK, LaneInv, QueueInv, CallInv, Open, Settle, Goto
<1>5. FlightInv'
  <2>1. \A u \in Threads : Counted(u)' <=> Counted(u)
    BY <1>0, ThreadFacts, DecisionKinds DEF NatTypeOK, LockInv, LaneInv, QueueInv, CallInv, Counted, method_of, Open, Settle, Goto
  <2>2. InFlight' = InFlight
    BY <2>1 DEF InFlight
  <2> QED BY <1>0, <2>2, ThreadFacts, DecisionKinds DEF NatTypeOK, LockInv, LaneInv, QueueInv, FlightInv, Open, Settle, Goto
<1>6. SentInv'
  <2>1. CASE UNCHANGED sent
    BY <1>0, <2>1, ThreadFacts, DecisionKinds DEF NatTypeOK, LockInv, LaneInv, SentInv, Open, Settle, Goto
  <2>2. CASE sent' = Append(sent, "handshake/hello") /\ ~UNCHANGED sent
    <3>1. /\ decision = None /\ lock = None /\ lock' = t /\ decision' = None
          /\ pc' = [pc EXCEPT ![t] = "hello"]
      BY <2>2 DEF Open, Goto, Settle
    <3>2. sent' = <<"handshake/hello">>
      BY <1>0, <2>2, <3>1 DEF SentInv
    <3> QED BY <1>0, <3>1, <3>2, ThreadFacts, DecisionKinds DEF NatTypeOK, SentInv, LockInv
  <2> QED BY <1>b, <2>1, <2>2
<1>7. CallInv'
  BY <1>0, ThreadFacts, DecisionKinds DEF NatTypeOK, LaneInv, QueueInv, CallInv, Open, Settle, Goto
<1>8. InputInv'
  BY <1>0, ThreadFacts, DecisionKinds DEF NatTypeOK, LockInv, LaneInv, QueueInv, CallInv, InputInv, InputAhead, Past, Asking, Open, Settle, Goto
<1> QED BY <1>1, <1>2, <1>3, <1>4, <1>5, <1>6, <1>7, <1>8 DEF IInv


LEMMA HelloReturnsStep ==
  ASSUME IInv, NEW t \in Threads, NEW d \in Hellos, HelloReturns(t, d)
  PROVE  IInv'
<1> USE DEF session, queue
<1>0. NatTypeOK /\ LockInv /\ LaneInv /\ QueueInv /\ FlightInv /\ SentInv /\ CallInv /\ InputInv
  BY DEF IInv
<1>b. /\ decision' \in Decision
      /\ \E q \in {"start", "gate"} : pc' = [pc EXCEPT ![t] = q]
      /\ lock' = lock \/ lock' = None
      /\ sent' = sent \/ sent' = Append(sent, "steps/sessionStart")
  BY DecisionKinds DEF HelloReturns, Goto
<1>c. sent' \in Seq(Requests)
  <2>1. sent \in Seq(Requests) /\ "steps/sessionStart" \in Requests
    BY <1>0 DEF NatTypeOK, Requests, Methods
  <2>2. Append(sent, "steps/sessionStart") \in Seq(Requests)
    BY <2>1, Appended
  <2> QED BY <1>b, <2>1, <2>2
<1>1. NatTypeOK'
  BY <1>0, <1>b, <1>c DEF NatTypeOK, HelloReturns
<1>2. LockInv'
  BY <1>0, ThreadFacts, DecisionKinds DEF NatTypeOK, LockInv, LaneInv, Past, Asking, HelloReturns, Goto
<1>3. LaneInv'
  BY <1>0, ThreadFacts, DecisionKinds DEF NatTypeOK, LockInv, LaneInv, QueueInv, Past, Asking, HelloReturns, Goto
<1>4. QueueInv'
  BY <1>0, ThreadFacts, DecisionKinds DEF NatTypeOK, LaneInv, QueueInv, CallInv, HelloReturns, Goto
<1>5. FlightInv'
  <2>1. \A u \in Threads : Counted(u)' <=> Counted(u)
    BY <1>0, ThreadFacts, DecisionKinds DEF NatTypeOK, LockInv, LaneInv, QueueInv, CallInv, Counted, method_of, HelloReturns, Goto
  <2>2. InFlight' = InFlight
    BY <2>1 DEF InFlight
  <2> QED BY <1>0, <2>2, ThreadFacts, DecisionKinds DEF NatTypeOK, LockInv, LaneInv, QueueInv, FlightInv, HelloReturns, Goto
<1>6. SentInv'
  BY <1>0, ThreadFacts, DecisionKinds DEF NatTypeOK, LockInv, LaneInv, SentInv, HelloReturns, Goto
<1>7. CallInv'
  BY <1>0, ThreadFacts, DecisionKinds DEF NatTypeOK, LaneInv, QueueInv, CallInv, HelloReturns, Goto
<1>8. InputInv'
  BY <1>0, ThreadFacts, DecisionKinds DEF NatTypeOK, LockInv, LaneInv, QueueInv, CallInv, InputInv, InputAhead, Past, Asking, HelloReturns, Goto
<1> QED BY <1>1, <1>2, <1>3, <1>4, <1>5, <1>6, <1>7, <1>8 DEF IInv


LEMMA StartReturnsStep ==
  ASSUME IInv, NEW t \in Threads, NEW a \in Answers, StartReturns(t, a)
  PROVE  IInv'
<1> USE DEF session, queue
<1>0. NatTypeOK /\ LockInv /\ LaneInv /\ QueueInv /\ FlightInv /\ SentInv /\ CallInv /\ InputInv
  BY DEF IInv
<1>b. /\ decision' \in Decision
      /\ pc' = [pc EXCEPT ![t] = "gate"] /\ lock' = None /\ failures' \in Nat
  BY <1>0, DecisionKinds, FailedStartTypes DEF StartReturns, Goto, Count, NatTypeOK, LockInv
<1>1. NatTypeOK'
  BY <1>0, <1>b DEF NatTypeOK, StartReturns
<1>2. LockInv'
  BY <1>0, ThreadFacts, DecisionKinds, FailedStartTypes DEF NatTypeOK, LockInv, LaneInv, Past, Asking, StartReturns, Count, Goto
<1>3. LaneInv'
  BY <1>0, ThreadFacts, DecisionKinds, FailedStartTypes DEF NatTypeOK, LockInv, LaneInv, QueueInv, Past, Asking, StartReturns, Count, Goto
<1>4. QueueInv'
  BY <1>0, ThreadFacts, DecisionKinds, FailedStartTypes DEF NatTypeOK, LaneInv, QueueInv, CallInv, StartReturns, Count, Goto
<1>5. FlightInv'
  <2>1. \A u \in Threads : Counted(u)' <=> Counted(u)
    BY <1>0, ThreadFacts, DecisionKinds, FailedStartTypes DEF NatTypeOK, LockInv, LaneInv, QueueInv, CallInv, Counted, method_of, StartReturns, Count, Goto
  <2>2. InFlight' = InFlight
    BY <2>1 DEF InFlight
  <2> QED BY <1>0, <2>2, ThreadFacts, DecisionKinds, FailedStartTypes DEF NatTypeOK, LockInv, LaneInv, QueueInv, FlightInv, StartReturns, Count, Goto
<1>6. SentInv'
  BY <1>0, ThreadFacts, DecisionKinds, FailedStartTypes DEF NatTypeOK, LockInv, LaneInv, SentInv, StartReturns, Count, Goto
<1>7. CallInv'
  BY <1>0, ThreadFacts, DecisionKinds, FailedStartTypes DEF NatTypeOK, LaneInv, QueueInv, CallInv, StartReturns, Count, Goto
<1>8. InputInv'
  BY <1>0, ThreadFacts, DecisionKinds, FailedStartTypes DEF NatTypeOK, LockInv, LaneInv, QueueInv, CallInv, InputInv, InputAhead, Past, Asking, StartReturns, Count, Goto
<1> QED BY <1>1, <1>2, <1>3, <1>4, <1>5, <1>6, <1>7, <1>8 DEF IInv


LEMMA TakeStep ==
  ASSUME IInv, Take
  PROVE  IInv'
<1> USE DEF session, queue
<1>0. NatTypeOK /\ LockInv /\ LaneInv /\ QueueInv /\ FlightInv /\ SentInv /\ CallInv /\ InputInv
  BY DEF IInv
<1>a. /\ Tail(pending) \in Seq(Methods \cup Calls) /\ Head(pending) = pending[1]
      /\ pending[1] \in Methods \cup Calls /\ Len(pending) \in Nat \ {0}
      /\ Len(Tail(pending)) = Len(pending) - 1
      /\ \A i \in 1..Len(pending) - 1 : Tail(pending)[i] = pending[i + 1]
  <2>1. pending \in Seq(Methods \cup Calls) /\ pending # <<>>
    BY <1>0 DEF NatTypeOK, Take
  <2> QED BY <2>1, Taken
<1>b. /\ \/ /\ pending[1] \in Calls /\ pc' = [pc EXCEPT ![pending[1]] = "open"]
            /\ UNCHANGED <<item, closed>> /\ pc[pending[1]] = "wait"
         \/ /\ pending[1] = "steps/sessionEnd" /\ item' = "steps/sessionEnd" /\ closed' = TRUE
            /\ pc' = [pc EXCEPT ![Lane] = "drain"]
         \/ /\ pending[1] \in Methods \ {"steps/sessionEnd"} /\ item' = pending[1]
            /\ pc' = [pc EXCEPT ![Lane] = "open"] /\ UNCHANGED closed
      /\ pending' = Tail(pending) /\ pc[Lane] = "idle" /\ item = None
  BY <1>0, <1>a, ThreadFacts DEF Take, Goto, QueueInv, LaneInv
<1>1. NatTypeOK'
  <2>1. pending' \in Seq(Methods \cup Calls) /\ item' \in Methods \cup {None} /\ closed' \in BOOLEAN
    BY <1>0, <1>a, <1>b DEF NatTypeOK, Methods
  <2>2. pc' \in [Threads -> {"idle", "wait", "open", "hello", "start", "gate", "exchange", "sent", "unsent",
                            "tool", "done", "drain", "decision", "finish"}]
    BY <1>0, <1>b DEF NatTypeOK
  <2> QED BY <1>0, <2>1, <2>2 DEF NatTypeOK, Take
<1>2. LockInv'
  <2>1. UNCHANGED <<lock, decision>>
    BY DEF Take
  <2>2. \A u \in Threads : pc'[u] = pc[u] \/ (pc'[u] \in {"open", "drain"} /\ pc[u] \in {"wait", "idle"})
    BY <1>0, <1>b, ThreadFacts DEF NatTypeOK
  <2> QED BY <1>0, <2>1, <2>2 DEF LockInv, Past, Asking
<1>3. LaneInv'
  BY <1>0, ThreadFacts DEF NatTypeOK, LockInv, LaneInv, QueueInv, Past, Asking, Take, Goto, Methods
<1>4. QueueInv'
  BY <1>0, ThreadFacts DEF NatTypeOK, LaneInv, QueueInv, CallInv, Take, Goto, Methods
<1>5. FlightInv'
  <2>1. \A u \in Threads : Counted(u)' <=> Counted(u)
    BY <1>0, ThreadFacts DEF NatTypeOK, LockInv, LaneInv, QueueInv, CallInv, Counted, method_of, Take, Goto, Methods
  <2>2. InFlight' = InFlight
    BY <2>1 DEF InFlight
  <2> QED BY <1>0, <2>2, ThreadFacts DEF NatTypeOK, LockInv, LaneInv, QueueInv, FlightInv, Take, Goto, Methods
<1>6. SentInv'
  BY <1>0, ThreadFacts DEF NatTypeOK, LockInv, LaneInv, SentInv, Take, Goto, Methods
<1>7. CallInv'
  BY <1>0, ThreadFacts DEF NatTypeOK, LaneInv, QueueInv, CallInv, Take, Goto, Methods
<1>8. InputInv'
  BY <1>0, ThreadFacts DEF NatTypeOK, LockInv, LaneInv, QueueInv, CallInv, InputInv, InputAhead, Past, Asking, Take, Goto, Methods
<1> QED BY <1>1, <1>2, <1>3, <1>4, <1>5, <1>6, <1>7, <1>8 DEF IInv


LEMMA DrainStep ==
  ASSUME IInv, Drain
  PROVE  IInv'
<1> USE DEF session, queue
<1>0. NatTypeOK /\ LockInv /\ LaneInv /\ QueueInv /\ FlightInv /\ SentInv /\ CallInv /\ InputInv
  BY DEF IInv
<1>1. NatTypeOK'
  BY <1>0, ThreadFacts DEF NatTypeOK, Requests, Drain, Goto
<1>2. LockInv'
  BY <1>0, ThreadFacts DEF NatTypeOK, LockInv, LaneInv, Past, Asking, Drain, Goto
<1>3. LaneInv'
  BY <1>0, ThreadFacts DEF NatTypeOK, LockInv, LaneInv, QueueInv, Past, Asking, Drain, Goto
<1>4. QueueInv'
  BY <1>0, ThreadFacts DEF NatTypeOK, LaneInv, QueueInv, CallInv, Drain, Goto
<1>5. FlightInv'
  <2>1. \A u \in Threads : Counted(u)' <=> Counted(u)
    BY <1>0, ThreadFacts DEF NatTypeOK, LockInv, LaneInv, QueueInv, CallInv, Counted, method_of, Drain, Goto
  <2>2. InFlight' = InFlight
    BY <2>1 DEF InFlight
  <2> QED BY <1>0, <2>2, ThreadFacts DEF NatTypeOK, LockInv, LaneInv, QueueInv, FlightInv, Drain, Goto
<1>6. SentInv'
  BY <1>0, ThreadFacts DEF NatTypeOK, LockInv, LaneInv, SentInv, Drain, Goto
<1>7. CallInv'
  BY <1>0, ThreadFacts DEF NatTypeOK, LaneInv, QueueInv, CallInv, Drain, Goto
<1>8. InputInv'
  BY <1>0, ThreadFacts DEF NatTypeOK, LockInv, LaneInv, QueueInv, CallInv, InputInv, InputAhead, Past, Asking, Drain, Goto
<1> QED BY <1>1, <1>2, <1>3, <1>4, <1>5, <1>6, <1>7, <1>8 DEF IInv


LEMMA ReadDecisionStep ==
  ASSUME IInv, ReadDecision
  PROVE  IInv'
<1> USE DEF session, queue
<1>0. NatTypeOK /\ LockInv /\ LaneInv /\ QueueInv /\ FlightInv /\ SentInv /\ CallInv /\ InputInv
  BY DEF IInv
<1>1. NatTypeOK'
  BY <1>0, ThreadFacts DEF NatTypeOK, Requests, ReadDecision, Goto
<1>2. LockInv'
  BY <1>0, ThreadFacts DEF NatTypeOK, LockInv, LaneInv, Past, Asking, ReadDecision, Goto
<1>3. LaneInv'
  BY <1>0, ThreadFacts DEF NatTypeOK, LockInv, LaneInv, QueueInv, Past, Asking, ReadDecision, Goto
<1>4. QueueInv'
  BY <1>0, ThreadFacts DEF NatTypeOK, LaneInv, QueueInv, CallInv, ReadDecision, Goto
<1>5. FlightInv'
  <2>1. \A u \in Threads : Counted(u)' <=> Counted(u)
    BY <1>0, ThreadFacts DEF NatTypeOK, LockInv, LaneInv, QueueInv, CallInv, Counted, method_of, ReadDecision, Goto
  <2>2. InFlight' = InFlight
    BY <2>1 DEF InFlight
  <2> QED BY <1>0, <2>2, ThreadFacts DEF NatTypeOK, LockInv, LaneInv, QueueInv, FlightInv, ReadDecision, Goto
<1>6. SentInv'
  BY <1>0, ThreadFacts DEF NatTypeOK, LockInv, LaneInv, SentInv, ReadDecision, Goto
<1>7. CallInv'
  BY <1>0, ThreadFacts DEF NatTypeOK, LaneInv, QueueInv, CallInv, ReadDecision, Goto
<1>8. InputInv'
  BY <1>0, ThreadFacts DEF NatTypeOK, LockInv, LaneInv, QueueInv, CallInv, InputInv, InputAhead, Past, Asking, ReadDecision, Goto
<1> QED BY <1>1, <1>2, <1>3, <1>4, <1>5, <1>6, <1>7, <1>8 DEF IInv


LEMMA FinishStep ==
  ASSUME IInv, Finish
  PROVE  IInv'
<1> USE DEF session, queue
<1>0. NatTypeOK /\ LockInv /\ LaneInv /\ QueueInv /\ FlightInv /\ SentInv /\ CallInv /\ InputInv
  BY DEF IInv
<1>1. NatTypeOK'
  BY <1>0, ThreadFacts DEF NatTypeOK, Requests, Finish, Goto
<1>2. LockInv'
  BY <1>0, ThreadFacts DEF NatTypeOK, LockInv, LaneInv, Past, Asking, Finish, Goto
<1>3. LaneInv'
  BY <1>0, ThreadFacts DEF NatTypeOK, LockInv, LaneInv, QueueInv, Past, Asking, Finish, Goto
<1>4. QueueInv'
  BY <1>0, ThreadFacts DEF NatTypeOK, LaneInv, QueueInv, CallInv, Finish, Goto
<1>5. FlightInv'
  <2>1. \A u \in Threads : Counted(u)' <=> Counted(u)
    BY <1>0, ThreadFacts DEF NatTypeOK, LockInv, LaneInv, QueueInv, CallInv, Counted, method_of, Finish, Goto
  <2>2. InFlight' = InFlight
    BY <2>1 DEF InFlight
  <2> QED BY <1>0, <2>2, ThreadFacts DEF NatTypeOK, LockInv, LaneInv, QueueInv, FlightInv, Finish, Goto
<1>6. SentInv'
  BY <1>0, ThreadFacts DEF NatTypeOK, LockInv, LaneInv, SentInv, Finish, Goto
<1>7. CallInv'
  BY <1>0, ThreadFacts DEF NatTypeOK, LaneInv, QueueInv, CallInv, Finish, Goto
<1>8. InputInv'
  <2>1. pc' = [pc EXCEPT ![Lane] = "idle"] /\ item' = None
        /\ UNCHANGED <<pending, lock, decision, input_refusal, stage, ran>>
    BY DEF Finish, Goto
  <2>2. InputAhead' => InputAhead
    BY <2>1, ThreadFacts DEF InputAhead, Methods
  <2>3. \A c \in Calls : pc'[c] = pc[c]
    BY <1>0, <2>1, ThreadFacts DEF NatTypeOK
  <2> QED BY <1>0, <2>1, <2>2, <2>3 DEF InputInv
<1> QED BY <1>1, <1>2, <1>3, <1>4, <1>5, <1>6, <1>7, <1>8 DEF IInv

-----------------------------------------------------------------------------
(* The steps past the gate. *)

\* What a step that is over leaves of the thread that took it.
LEMMA OverEffect ==
  ASSUME NatTypeOK, NEW t \in Threads, NEW p \in BOOLEAN, Over(t, p)
  PROVE  /\ \/ t \in Calls /\ UNCHANGED item /\ \E q \in {"tool", "done"} : pc' = [pc EXCEPT ![t] = q]
            \/ t = Lane /\ item = "steps/sessionEnd" /\ UNCHANGED item /\ pc' = [pc EXCEPT ![Lane] = "finish"]
            \/ t = Lane /\ item # "steps/sessionEnd" /\ item' = None /\ pc' = [pc EXCEPT ![Lane] = "idle"]
         /\ t = Lane => ran' = ran
         /\ ~p => ran' = ran /\ pc'[t] # "tool"
         /\ t \in Calls => /\ ran'[t] \in {ran[t], ran[t] \cup {stage[t]}}
                            /\ pc'[t] \in {"tool", "done"} /\ (pc'[t] = "tool" => stage[t] = "pre")
         /\ \A c \in Calls : c # t => ran'[c] = ran[c]
         /\ ran' \in [Calls -> SUBSET {"pre", "post"}]
<1>1. CASE t = Lane
  BY <1>1, ThreadFacts DEF Over, Goto, NatTypeOK
<1>2. CASE t \in Calls
  <2>1. UNCHANGED item /\ Settle(t, p)
    BY <1>2, ThreadFacts DEF Over
  <2>2. /\ ran' = [ran EXCEPT ![t] = IF p THEN @ \cup {stage[t]} ELSE @]
        /\ pc' = [pc EXCEPT ![t] = IF p /\ stage[t] = "pre" THEN "tool" ELSE "done"]
    BY <2>1 DEF Settle, Goto
  <2>3. stage[t] \in {"pre", "post"}
    BY <1>2 DEF NatTypeOK
  <2> QED BY <1>2, <2>1, <2>2, <2>3, ThreadFacts DEF NatTypeOK
<1> QED BY <1>1, <1>2, ThreadFacts

\* A step that is over, whether it was counted as under way or not.
LEMMA OverKeeps ==
  ASSUME IInv, NEW t \in Threads, pc[t] \in Past, NEW p \in BOOLEAN, Over(t, p),
         UNCHANGED <<settings, run, shut, pending, sealed, ended, closed, decision, lock, sent, reported, stage, late>>,
         pc[t] \notin {"sent", "unsent"} => UNCHANGED in_flight,
         pc[t] \in {"sent", "unsent"} =>
           in_flight' = IF method_of(t) = "steps/sessionEnd" THEN in_flight ELSE in_flight - 1,
         failures' \in Nat, input_refusal' \in BOOLEAN,
         input_refusal' => input_refusal \/ (pc[t] \in Asking /\ method_of(t) = "steps/userMessage"),
         t \in Calls /\ input_refusal /\ method_of(t) = "steps/toolCallRequest" => ~p
  PROVE  IInv'
<1>0. NatTypeOK /\ LockInv /\ LaneInv /\ QueueInv /\ FlightInv /\ SentInv /\ CallInv /\ InputInv
  BY DEF IInv
<1>a. /\ \/ t \in Calls /\ UNCHANGED item /\ \E q \in {"tool", "done"} : pc' = [pc EXCEPT ![t] = q]
         \/ t = Lane /\ item = "steps/sessionEnd" /\ UNCHANGED item /\ pc' = [pc EXCEPT ![Lane] = "finish"]
         \/ t = Lane /\ item # "steps/sessionEnd" /\ item' = None /\ pc' = [pc EXCEPT ![Lane] = "idle"]
      /\ t = Lane => ran' = ran
      /\ ~p => ran' = ran /\ pc'[t] # "tool"
      /\ t \in Calls => /\ ran'[t] \in {ran[t], ran[t] \cup {stage[t]}}
                         /\ pc'[t] \in {"tool", "done"} /\ (pc'[t] = "tool" => stage[t] = "pre")
      /\ \A c \in Calls : c # t => ran'[c] = ran[c]
      /\ ran' \in [Calls -> SUBSET {"pre", "post"}]
  BY <1>0, OverEffect
<1>b. item \in Methods \/ t \in Calls
  BY <1>0, ThreadFacts DEF LaneInv, NatTypeOK, Past, Asking
<1>c. /\ \A u \in Threads : u # t => pc'[u] = pc[u]
      /\ pc'[t] \in {"tool", "done", "finish", "idle"}
      /\ \A c \in Calls : method_of(c) # "steps/sessionEnd"
  BY <1>0, <1>a, ThreadFacts DEF NatTypeOK, method_of
<1>5. FlightInv' /\ in_flight' \in Nat
  <2> DEFINE counts == pc[t] \in {"sent", "unsent"} /\ method_of(t) # "steps/sessionEnd"
  <2>1. \A u \in Threads : u # t => (Counted(u)' <=> Counted(u))
    BY <1>0, <1>a, <1>c, ThreadFacts DEF Counted, method_of, LaneInv, Past, Asking, NatTypeOK
  <2>2. ~Counted(t)'
    BY <1>c DEF Counted
  <2>3. InFlight' = InFlight \ {t} /\ (t \in InFlight <=> counts)
    BY <2>1, <2>2 DEF InFlight, Counted
  <2>4. IsFiniteSet(InFlight) /\ in_flight = Cardinality(InFlight) /\ in_flight \in Nat
    BY <1>0, ThreadFacts, FS_Subset DEF InFlight, FlightInv, NatTypeOK
  <2>5. in_flight' = IF counts THEN in_flight - 1 ELSE in_flight
    OBVIOUS
  <2>6. CASE counts
    <3>1. Cardinality(InFlight \ {t}) = Cardinality(InFlight) - 1
      BY <2>3, <2>4, <2>6, FS_RemoveElement
    <3>2. in_flight # 0
      BY <2>3, <2>4, <2>6, FS_EmptySet
    <3>3. ~(closed /\ pc[Lane] # "drain")
      BY <1>0, <3>2 DEF FlightInv
    <3>4. pc[Lane] = "drain" => pc'[Lane] = "drain"
      BY <1>c, ThreadFacts DEF Past, Asking
    <3> QED BY <2>3, <2>4, <2>5, <2>6, <3>1, <3>2, <3>3, <3>4, <1>c, ThreadFacts DEF FlightInv
  <2>7. CASE ~counts
    <3>1. InFlight' = InFlight
      BY <2>3, <2>7
    <3>2. closed' /\ pc'[Lane] # "drain" => closed /\ pc[Lane] # "drain"
      BY <1>0, <1>a, <1>c, ThreadFacts DEF Past, Asking
    <3> QED BY <1>0, <2>4, <2>5, <2>7, <3>1, <3>2 DEF FlightInv
  <2> QED BY <2>6, <2>7
<1>1. NatTypeOK'
  <2>1. pc' \in [Threads -> {"idle", "wait", "open", "hello", "start", "gate", "exchange", "sent", "unsent",
                            "tool", "done", "drain", "decision", "finish"}]
    BY <1>0, <1>a, ThreadFacts DEF NatTypeOK
  <2>2. item' \in Methods \cup {None} /\ ran' \in [Calls -> SUBSET {"pre", "post"}]
    BY <1>0, <1>a DEF NatTypeOK
  <2> QED BY <1>0, <1>5, <2>1, <2>2 DEF NatTypeOK
<1>2. LockInv'
  BY <1>0, <1>c DEF LockInv, Past, Asking
<1>3. LaneInv'
  BY <1>0, <1>a, <1>b, <1>c, ThreadFacts DEF NatTypeOK, LaneInv, Past, Asking
<1>4. QueueInv'
  <2>1. \A i \in 1..Len(pending) : pending[i] \in Calls => pc'[pending[i]] = "wait"
    BY <1>0, <1>c, ThreadFacts DEF QueueInv, Past, Asking
  <2> QED BY <1>0, <2>1 DEF QueueInv
<1>6. SentInv'
  <2>1. ASSUME closed, pc[Lane] \in {"sent", "finish"}
        PROVE  pc'[Lane] \in {"sent", "finish"}
    BY <1>0, <1>a, <1>c, <2>1, ThreadFacts DEF LaneInv, Past, Asking, NatTypeOK
  <2>2. \A u \in Threads : pc'[u] = "hello" => pc[u] = "hello"
    BY <1>c
  <2> QED BY <1>0, <2>1, <2>2 DEF SentInv
<1>7. CallInv'
  <2>1. \A c \in Calls : c # t => ran'[c] = ran[c]
    BY <1>a
  <2>2. \A c \in Calls : c # t => pc'[c] = pc[c]
    BY <1>c, ThreadFacts
  <2>3. CASE t \in Calls
    <3>1. pc[t] \notin {"wait", "open", "done", "idle"} /\ ~late[t]
      BY <1>0, <2>3 DEF CallInv, Past, Asking
    <3>2. stage[t] = "pre" => "post" \notin ran'[t]
      BY <1>0, <1>a, <2>3 DEF CallInv
    <3>3. pc'[t] \in {"tool", "done"} /\ (pc'[t] = "tool" => stage[t] = "pre")
      BY <1>a, <2>3
    <3>4. ~(settings.kind = "workflow" /\ run \in {"idle", "opened", "started"})
      BY <1>0, <2>3, <3>1 DEF CallInv
    <3> QED BY <1>0, <2>1, <2>2, <2>3, <3>1, <3>2, <3>3, <3>4 DEF CallInv
  <2>4. CASE t \notin Calls
    BY <1>0, <2>1, <2>2, <2>4 DEF CallInv
  <2> QED BY <2>3, <2>4
<1>8. InputInv'
  <2>1. InputAhead' => InputAhead
    BY <1>a, ThreadFacts DEF InputAhead, Methods
  <2>2. InputAhead => t = Lane
    BY <1>0, ThreadFacts DEF InputInv, Past, Asking
  <2>3. input_refusal' => input_refusal \/ (t = Lane /\ InputAhead)
    <3>1. method_of(t) = "steps/userMessage" => t = Lane /\ item = "steps/userMessage"
      BY DEF method_of
    <3> QED BY <3>1 DEF InputAhead
  <2>4. CASE t = Lane
    <3>1. \A c \in Calls : pc'[c] = pc[c] /\ ran'[c] = ran[c]
      BY <1>a, <1>c, <2>4, ThreadFacts
    <3>2. InputAhead /\ input_refusal' /\ ~input_refusal =>
            pc[t] \in Asking /\ lock = None /\ decision \in Negotiated
      BY <1>0, <2>2 DEF LockInv, Past, Asking
    <3> QED BY <1>0, <2>1, <2>3, <3>1, <3>2 DEF InputInv, Asking
  <2>5. CASE t \in Calls
    <3>1. ~InputAhead /\ (input_refusal' => input_refusal)
      BY <2>2, <2>3, <2>5, ThreadFacts
    <3>2. ~p \/ ~input_refusal
      BY <1>0, <2>5, ThreadFacts DEF InputInv, method_of
    <3>3. ASSUME input_refusal
          PROVE  \A c \in Calls : stage'[c] = "pre" /\ "pre" \notin ran'[c] /\ pc'[c] \notin Asking \cup {"tool"}
      <4>1. ran' = ran /\ pc'[t] # "tool"
        BY <1>a, <2>5, <3>2, <3>3
      <4> QED BY <1>0, <1>c, <3>3, <4>1, ThreadFacts DEF InputInv, Asking
    <3> QED BY <1>0, <2>1, <3>1, <3>3 DEF InputInv
  <2> QED BY <2>4, <2>5, ThreadFacts
<1> QED BY <1>1, <1>2, <1>3, <1>4, <1>5, <1>6, <1>7, <1>8 DEF IInv

\* What the gate says of a session that has its decision.
LEMMA GateFacts ==
  ASSUME NatTypeOK, NEW d \in Decision, NEW m
  PROVE  /\ gate(d, m) \in {"proceed", "blocked", None}
         /\ gate(d, m) = None => d \in Negotiated
         /\ d \in Negotiated => gate(d, m) \in {None, "blocked"}
<1>1. d.kind \in {"negotiated", "refused", "no_answer"} /\ (d \in Negotiated <=> d.kind = "negotiated")
  BY DecisionKinds
<1> QED BY <1>1, NoneAssumption DEF gate

LEMMA GateStep ==
  ASSUME IInv, NEW t \in Threads, Gate(t)
  PROVE  IInv'
<1> USE DEF session, queue
<1>0. NatTypeOK /\ LockInv /\ LaneInv /\ QueueInv /\ FlightInv /\ SentInv /\ CallInv /\ InputInv
  BY DEF IInv
<1>1. pc[t] = "gate" /\ decision \in Decision /\ lock = None
  BY <1>0 DEF Gate, LockInv, NatTypeOK, Past
<1> DEFINE m == method_of(t)
           g == gate(decision, m)
           input == m = "steps/toolCallRequest" /\ input_refusal
           asks == g = None /\ ~input /\ m \in decision.evaluates
<1>2. input_refusal => g # "proceed"
  BY <1>0, <1>1, GateFacts, NoneAssumption DEF InputInv
<1>3. CASE /\ m # "steps/sessionStart" /\ asks /\ Goto(t, "exchange") /\ UNCHANGED <<item, ran, failures>>
  <2>1. decision \in Negotiated
    BY <1>0, <1>1, <1>3, GateFacts
  <2>a. /\ pc' = [pc EXCEPT ![t] = "exchange"]
        /\ UNCHANGED <<settings, run, shut, queue, session, sent, reported, stage, late, ran>>
    BY <1>3 DEF Gate, Goto
  <2>b. \A u \in Threads : u # t => pc'[u] = pc[u]
    BY <1>0, <2>a DEF NatTypeOK
  <2>2. NatTypeOK'
    BY <1>0, <2>a DEF NatTypeOK
  <2>3. LockInv'
    BY <1>0, <1>1, <2>1, <2>a, <2>b, DecisionKinds DEF LockInv, NatTypeOK, Past, Asking
  <2>4. LaneInv'
    BY <1>0, <1>1, <1>3, <2>a, <2>b, ThreadFacts DEF LaneInv, NatTypeOK, Asking, method_of
  <2>5. QueueInv'
    BY <1>0, <1>1, <2>a, <2>b, ThreadFacts DEF QueueInv
  <2>6. FlightInv'
    <3>1. \A u \in Threads : Counted(u)' <=> Counted(u)
      BY <1>0, <1>1, <2>a DEF Counted, method_of, NatTypeOK
    <3>2. InFlight' = InFlight
      BY <3>1 DEF InFlight
    <3> QED BY <1>0, <1>1, <2>a, <2>b, <3>2, ThreadFacts DEF FlightInv
  <2>7. SentInv'
    BY <1>0, <1>1, <2>a, <2>b, ThreadFacts DEF SentInv, LaneInv, NatTypeOK
  <2>8. CallInv'
    BY <1>0, <1>1, <2>a, <2>b, ThreadFacts DEF CallInv, NatTypeOK
  <2>9. InputInv'
    <3>1. InputAhead => t \notin Calls
      BY <1>0, <1>1 DEF InputInv
    <3>2. input_refusal => t \notin Calls
      BY <1>0, <1>3, ThreadFacts DEF InputInv, method_of
    <3>3. (InputAhead \/ input_refusal) => \A c \in Calls : pc'[c] = pc[c]
      BY <2>b, <3>1, <3>2, ThreadFacts
    <3>4. InputAhead' <=> InputAhead
      BY <2>a DEF InputAhead
    <3> QED BY <1>0, <2>a, <3>3, <3>4 DEF InputInv
  <2> QED BY <2>2, <2>3, <2>4, <2>5, <2>6, <2>7, <2>8, <2>9 DEF IInv
<1>4. ASSUME NEW p \in BOOLEAN, Over(t, p), failures' \in Nat, input => ~p
      PROVE  IInv'
  BY <1>0, <1>1, <1>4, OverKeeps DEF Gate, Past, NatTypeOK
<1>5. CASE m = "steps/sessionStart" /\ Over(t, TRUE) /\ UNCHANGED failures
  BY <1>0, <1>4, <1>5 DEF NatTypeOK
<1>6. CASE /\ m # "steps/sessionStart" /\ ~asks
           /\ Over(t, IF g = None THEN ~input ELSE g = "proceed") /\ UNCHANGED failures
  <2> DEFINE p == IF g = None THEN ~input ELSE g = "proceed"
  <2>1. p \in BOOLEAN /\ (input => ~p)
    BY <1>2
  <2> QED BY <1>0, <1>4, <1>6, <2>1 DEF NatTypeOK
<1>7. CASE asks /\ Count /\ \E closes \in BOOLEAN : Over(t, ~closes /\ ~posture(decision))
  <2>1. PICK closes \in BOOLEAN : Over(t, ~closes /\ ~posture(decision))
    BY <1>7
  <2>2. (~closes /\ ~posture(decision)) \in BOOLEAN /\ failures' \in Nat
    BY <1>0, <1>7 DEF Count, NatTypeOK
  <2> QED BY <1>4, <1>7, <2>1, <2>2
<1> QED BY <1>3, <1>5, <1>6, <1>7 DEF Gate

LEMMA ExchangeStep ==
  ASSUME IInv, NEW t \in Threads, Exchange(t)
  PROVE  IInv'
<1> USE DEF session, queue
<1>0. NatTypeOK /\ LockInv /\ LaneInv /\ QueueInv /\ FlightInv /\ SentInv /\ CallInv /\ InputInv
  BY DEF IInv
<1>1. CASE closed /\ method_of(t) # "steps/sessionEnd"
  <2>1. Over(t, FALSE) /\ UNCHANGED <<in_flight, sent>> /\ pc[t] = "exchange"
    BY <1>1 DEF Exchange
  <2> QED BY <1>0, <2>1, OverKeeps DEF Exchange, Past, Asking, NatTypeOK
<1>2. CASE ~(closed /\ method_of(t) # "steps/sessionEnd")
  <2> DEFINE m == method_of(t)
             ends == m = "steps/sessionEnd"
  <2>a. /\ pc[t] = "exchange" /\ in_flight' = IF ends THEN in_flight ELSE in_flight + 1
        /\ \/ pc' = [pc EXCEPT ![t] = "sent"] /\ sent' = Append(sent, m)
           \/ pc' = [pc EXCEPT ![t] = "unsent"] /\ UNCHANGED sent
        /\ UNCHANGED <<settings, run, shut, pending, sealed, ended, closed, failures, input_refusal, decision, lock,
                       reported, stage, late, item, ran>>
    BY <1>2 DEF Exchange, Goto
  <2>b. /\ pc'[t] \in {"sent", "unsent"} /\ \A u \in Threads : u # t => pc'[u] = pc[u]
        /\ pc' \in [Threads -> {"idle", "wait", "open", "hello", "start", "gate", "exchange", "sent", "unsent",
                               "tool", "done", "drain", "decision", "finish"}]
    BY <1>0, <2>a DEF NatTypeOK
  <2>c. /\ m \in Methods \ {"steps/sessionStart"} /\ (t \in Calls => ~ends)
        /\ decision \in Negotiated /\ lock = None /\ decision # None
        /\ closed <=> ends
    <3>1. CASE t = Lane
      BY <1>0, <1>2, <2>a, <3>1, ThreadFacts DEF LaneInv, LockInv, NatTypeOK, Past, Asking, method_of
    <3>2. CASE t \in Calls
      BY <1>0, <1>2, <2>a, <3>2, ThreadFacts DEF LockInv, Past, Asking, method_of, Methods
    <3> QED BY <3>1, <3>2, ThreadFacts
  <2>d. /\ Append(sent, m) \in Seq(Requests) /\ Len(Append(sent, m)) = Len(sent) + 1
        /\ \A i \in 1..Len(sent) : Append(sent, m)[i] = sent[i]
        /\ Append(sent, m)[Len(sent) + 1] = m /\ Len(sent) \in Nat \ {0}
    <3>1. sent \in Seq(Requests) /\ m \in Requests /\ sent # <<>>
      BY <1>0, <2>c DEF NatTypeOK, SentInv, Requests
    <3> QED BY <3>1, Appended
  <2>2. NatTypeOK'
    <3>1. in_flight' \in Nat
      BY <1>0, <2>a DEF NatTypeOK
    <3>2. sent' \in Seq(Requests)
      BY <1>0, <2>a, <2>d DEF NatTypeOK
    <3> QED BY <1>0, <2>a, <2>b, <3>1, <3>2 DEF NatTypeOK
  <2>3. LockInv'
    BY <1>0, <2>a, <2>b, <2>c DEF LockInv, Past, Asking
  <2>4. LaneInv'
    BY <1>0, <2>a, <2>b, <2>c, ThreadFacts DEF LaneInv, Asking, method_of
  <2>5. QueueInv'
    BY <1>0, <2>a, <2>b, ThreadFacts DEF QueueInv
  <2>6. FlightInv'
    <3>1. InFlight' = (IF ends THEN InFlight ELSE InFlight \cup {t}) /\ t \notin InFlight
      <4>1. t \notin InFlight
        BY <2>a DEF InFlight, Counted
      <4>2. \A u \in Threads : method_of(u)' = method_of(u)
        BY <2>a DEF method_of
      <4>3. \A u \in Threads : u # t => (Counted(u)' <=> Counted(u))
        BY <2>b, <4>2 DEF Counted
      <4>4. Counted(t)' <=> ~ends
        BY <2>b, <4>2 DEF Counted
      <4> QED BY <4>1, <4>3, <4>4 DEF InFlight
    <3>2. IsFiniteSet(InFlight)
      BY ThreadFacts, FS_Subset DEF InFlight
    <3>3. Cardinality(InFlight \cup {t}) = Cardinality(InFlight) + 1
      BY <3>1, <3>2, FS_AddElement
    <3>4. closed /\ pc'[Lane] # "drain" => pc[Lane] # "drain"
      BY <2>a, <2>b, ThreadFacts
    <3> QED BY <1>0, <2>a, <2>c, <3>1, <3>3, <3>4 DEF FlightInv
  <2>7. SentInv'
    <3>1. \A i \in 1..Len(sent) : sent[i] # "steps/sessionEnd"
      <4>1. CASE t = Lane
        <5>1. ~sealed
          BY <1>0, <2>a, <4>1 DEF LaneInv
        <5> QED BY <1>0, <2>a, <4>1, <5>1 DEF SentInv
      <4>2. CASE t \in Calls
        BY <1>0, <2>c, <4>2 DEF SentInv
      <4> QED BY <4>1, <4>2, ThreadFacts
    <3>2. ends => t = Lane
      BY <2>c, ThreadFacts
    <3>3. \A i \in 1..Len(sent) + 1 : i = Len(sent) + 1 \/ i \in 1..Len(sent)
      BY <2>d
    <3>4. m # "handshake/hello"
      BY <2>c DEF Methods
    <3>5. \A u \in Threads : pc'[u] # "hello"
      BY <1>0, <2>b, <2>c DEF LockInv
    <3>6. CASE sent' = Append(sent, m) /\ pc' = [pc EXCEPT ![t] = "sent"]
      <4>1. ends => pc'[Lane] = "sent"
        BY <1>0, <3>2, <3>6, ThreadFacts DEF NatTypeOK
      <4>2. sent' # <<>>
        BY <2>d, <3>6
      <4>3. SUFFICES ASSUME NEW i \in 1..Len(sent) + 1
            PROVE  /\ sent'[i] = "handshake/hello" <=> i = 1
                   /\ sent'[i] = "steps/sessionStart" => i = 2
                   /\ sent'[i] = "steps/sessionEnd" =>
                        i = Len(sent) + 1 /\ closed /\ pc'[Lane] = "sent"
        BY <2>a, <2>c, <2>d, <3>5, <3>6, <4>2 DEF SentInv
      <4>4. CASE i = Len(sent) + 1
        BY <2>c, <2>d, <3>4, <3>6, <4>1, <4>4
      <4>5. CASE i \in 1..Len(sent)
        BY <1>0, <2>d, <3>1, <3>6, <4>5 DEF SentInv
      <4> QED BY <3>3, <4>4, <4>5
    <3>7. CASE UNCHANGED sent
      BY <1>0, <2>a, <2>c, <3>1, <3>5, <3>7 DEF SentInv
    <3> QED BY <2>a, <3>6, <3>7
  <2>8. CallInv'
    BY <1>0, <2>a, <2>b, ThreadFacts DEF CallInv
  <2>9. InputInv'
    <3>1. InputAhead => t \notin Calls
      BY <1>0, <2>a DEF InputInv
    <3>2. input_refusal => t \notin Calls
      BY <1>0, <2>a DEF InputInv, Asking
    <3>3. (InputAhead \/ input_refusal) => \A c \in Calls : pc'[c] = pc[c]
      BY <2>b, <3>1, <3>2, ThreadFacts
    <3>4. InputAhead' <=> InputAhead
      BY <2>a DEF InputAhead
    <3> QED BY <1>0, <2>a, <3>3, <3>4 DEF InputInv
  <2> QED BY <2>2, <2>3, <2>4, <2>5, <2>6, <2>7, <2>8, <2>9 DEF IInv
<1> QED BY <1>1, <1>2

LEMMA ReturnsStep ==
  ASSUME IInv, NEW t \in Threads, NEW a \in Answers, Returns(t, a)
  PROVE  IInv'
<1> USE DEF session, queue
<1>0. NatTypeOK /\ LockInv /\ LaneInv /\ QueueInv /\ FlightInv /\ SentInv /\ CallInv /\ InputInv
  BY DEF IInv
<1>1. pc[t] \in {"sent", "unsent"} /\ Over(t, proceeds(a)) /\ proceeds(a) \in BOOLEAN
  BY DEF Returns, Answered, proceeds
<1>2. failures' \in Nat /\ input_refusal' \in BOOLEAN
  BY <1>0 DEF Returns, Answered, Count, NatTypeOK
<1>3. input_refusal' => input_refusal \/ method_of(t) = "steps/userMessage"
  BY DEF Returns, Answered
<1>4. ~(t \in Calls /\ input_refusal)
  BY <1>0, <1>1 DEF InputInv, Asking
<1> QED BY <1>0, <1>1, <1>2, <1>3, <1>4, OverKeeps DEF Returns, Answered, Past, Asking

-----------------------------------------------------------------------------
(* The invariant, and what follows from it. *)

LEMMA InitHolds == Init => IInv
<1> SUFFICES ASSUME Init PROVE IInv
  OBVIOUS
<1>1. NatTypeOK
  <2>1. settings \in Settings
    BY PosturesAssumption, KindsAssumption DEF Init, Settings
  <2>2. <<>> \in Seq(Methods \cup Calls) /\ <<>> \in Seq(Requests)
    OBVIOUS
  <2>3. /\ run = "idle" /\ shut = "no" /\ pending = <<>> /\ sealed = FALSE /\ item = None
        /\ lock = None /\ decision = None /\ ended = FALSE /\ closed = FALSE /\ in_flight = 0
        /\ failures = 0 /\ input_refusal = FALSE /\ sent = <<>> /\ reported = 0
    BY DEF Init
  <2>4. /\ pc = [t \in Threads |-> "idle"] /\ stage = [c \in Calls |-> "pre"]
        /\ late = [c \in Calls |-> FALSE] /\ ran = [c \in Calls |-> {}]
    BY DEF Init
  <2>5. late \in [Calls -> BOOLEAN] /\ ran \in [Calls -> SUBSET {"pre", "post"}]
    BY <2>4
  <2> QED BY <2>1, <2>2, <2>3, <2>4, <2>5 DEF NatTypeOK
<1>2. LockInv /\ SentInv
  BY ThreadFacts, DecisionKinds DEF Init, LockInv, SentInv, Past, Asking
<1>4. LaneInv /\ QueueInv
  BY ThreadFacts DEF Init, LaneInv, QueueInv, Asking, Threads
<1>5. CallInv /\ InputInv
  <2>1. ~InputAhead
    BY ThreadFacts DEF Init, InputAhead, Methods
  <2> QED BY <2>1, ThreadFacts DEF Init, CallInv, InputInv
<1>3. FlightInv
  <2>1. InFlight = {}
    BY DEF Init, InFlight, Counted
  <2> QED BY <2>1, FS_EmptySet DEF Init, FlightInv
<1> QED BY <1>1, <1>2, <1>3, <1>4, <1>5 DEF IInv

LEMMA StepHolds == IInv /\ [Next]_vars => IInv'
<1> SUFFICES ASSUME IInv, [Next]_vars PROVE IInv'
  OBVIOUS
<1>1. CASE UNCHANGED vars
  BY <1>1 DEF IInv, NatTypeOK, LockInv, LaneInv, QueueInv, FlightInv, InFlight, Counted, method_of, SentInv,
              CallInv, InputInv, InputAhead, vars, session, queue
<1>2. ASSUME NEW t \in Threads, Own(t)
      PROVE  IInv'
  BY <1>2, OpenStep, GateStep, ExchangeStep, HelloReturnsStep, StartReturnsStep, ReturnsStep DEF Own
<1>3. ASSUME Sends
      PROVE  IInv'
  BY <1>2, <1>3, TakeStep, DrainStep, ReadDecisionStep, FinishStep DEF Sends, Threads
<1>4. ASSUME NEW c \in Calls, Begin(c) \/ Own(c)
      PROVE  IInv'
  BY <1>2, <1>4, BeginStep DEF Threads
<1>5. CASE RunnerStops \/ Close
  BY <1>5, RunnerStopsStep, CloseStep
<1>6. ASSUME NEW text \in BOOLEAN, RunnerStarts(text) \/ RunnerReturns(text)
      PROVE  IInv'
  BY <1>6, RunnerStartsStep, RunnerReturnsStep
<1> QED BY <1>1, <1>3, <1>4, <1>5, <1>6 DEF Next

THEOREM NatInvariant == Spec => []IInv
  BY InitHolds, StepHolds, PTL DEF Spec

\* The session, its lane and its calls keep their types.
THEOREM NatTypeCorrect == Spec => []NatTypeOK
<1>1. IInv => NatTypeOK
  BY DEF IInv
<1> QED BY <1>1, NatInvariant, PTL

\* Whatever the calls, the lane and close() race on, the Guardian is sent one session: a
\* hello first, its sessionStart second, its sessionEnd last and with nothing in flight,
\* and the count in flight is that of the exchanges under way (_open, _exchange,
\* _send_session_end).
THEOREM SentAsOneSessionHolds == Spec => []SentAsOneSession
<1>1. IInv => SentAsOneSession
  <2> SUFFICES ASSUME IInv PROVE SentAsOneSession
    OBVIOUS
  <2>1. in_flight = Cardinality({t \in Threads : pc[t] \in {"sent", "unsent"} /\ method_of(t) # "steps/sessionEnd"})
    BY DEF IInv, FlightInv, InFlight, Counted
  <2>2. DOMAIN sent = 1..Len(sent)
    BY DEF IInv, NatTypeOK
  <2>3. closed /\ pc[Lane] # "drain" => in_flight = 0
    BY DEF IInv, FlightInv
  <2>4. sealed => pc[Lane] # "drain"
    BY DEF IInv, LaneInv
  <2> QED BY <2>1, <2>2, <2>3, <2>4 DEF IInv, SentInv, SentAsOneSession
<1> QED BY <1>1, NatInvariant, PTL

\* Once the Guardian refused the run's input no tool of the run runs, however many calls
\* were made before its answer (_step_of, input_refusal).
THEOREM RefusedInputHoldsAlways == Spec => []RefusedInputHolds
<1>1. IInv => RefusedInputHolds
  BY DEF IInv, InputInv, RefusedInputHolds
<1> QED BY <1>1, NatInvariant, PTL

\* A hook begun after its session ended or after close() changes nothing (_open, _refused).
THEOREM LateCallsAreRefusedHolds == Spec => []LateCallsAreRefused
<1>1. IInv => LateCallsAreRefused
  BY DEF IInv, CallInv, LateCallsAreRefused
<1> QED BY <1>1, NatInvariant, PTL

=============================================================================
