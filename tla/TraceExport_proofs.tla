------------------------- MODULE TraceExport_proofs -------------------------
(***************************************************************************)
(* What holds of the trace and of the converted audit log for any number   *)
(* of requests, outputs and signals, any timeouts and any size of queue.    *)
(***************************************************************************)
EXTENDS TraceExport, FiniteSetTheorems, SequenceTheorems, TLAPS

Event == {Decided} \cup {Failure(class) : class \in {"guardian_error", "timeout", "other"}}
Span == [of : Requests, pair : Requests \cup {None}, claimed : Requests \cup {None}, events : SUBSET Event]
Entry == [outcome : {"posture"}, pair : Requests, kind : Failures, replay : BOOLEAN]
Ungoverned == [outcome |-> "ungoverned", pair |-> None, kind |-> None, replay |-> FALSE]

\* A request that is a step claims its own ids, and any other a step's.
Names ==
  /\ kind \in [Requests -> Kinds] /\ pair \in [Requests -> Requests] /\ kind[Genuine] = "step"
  /\ \A r \in Requests : pair[r] = IF kind[r] \in {"step", "other"} THEN r ELSE Genuine

Hosts ==
  /\ host \in [Requests -> {"absent", "idle", "asking", "honoured"} \cup Failures]
  /\ waited \in [Requests -> 0..Timeout]
  /\ response \in [Requests -> {None, "decision", "error"}]

\* A handler's clock is never ahead of the clock of the host it answers.
Handlers ==
  /\ handler \in [Requests -> {"none", "open", "done"}]
  /\ elapsed \in [Requests -> 0..(Timeout + 1)]
  /\ \A r \in Requests : host[r] \in {"idle", "absent"} => handler[r] = "none"
  /\ \A r \in Requests : handler[r] # "open" => elapsed[r] = 0
  /\ \A r \in Requests : host[r] = "asking" /\ handler[r] = "open" => elapsed[r] <= waited[r]

\* The exporter stops with the first shutdown, which a signal began.
Closing ==
  /\ sig \in [Signals -> {"absent", "none", "draining", "flushing", "gone"}]
  /\ shutdown \in {"none", "flushing", "done", "timeout", "failed"}
  /\ closing \in [Signals -> 0..Timeout]
  /\ exited \in BOOLEAN /\ stopped \in BOOLEAN
  /\ stopped <=> shutdown # "none"
  /\ stopped => signalled # {}
  /\ exited => shutdown \in {"done", "timeout", "failed"}

Opened ==
  /\ open = IF stopped THEN {} ELSE {r \in Requests : handler[r] = "open" /\ recorded(r)}
  /\ IsFiniteSet(open)

\* Each request that was taken has one span, open or ended.
Spanned ==
  /\ ended \in Seq(Span)
  /\ \A i \in DOMAIN ended :
       /\ recorded(ended[i].of) /\ ended[i].of \notin open /\ handler[ended[i].of] # "none"
       /\ ended[i].pair = IF kind[ended[i].of] = "step" THEN ended[i].of ELSE None
       /\ kind[ended[i].of] = "step" => ended[i].events # {}
  /\ \A i, j \in DOMAIN ended : ended[i].of = ended[j].of => i = j
  /\ \A r \in Requests : handler[r] # "none" /\ recorded(r) => r \in open \/ \E i \in DOMAIN ended : ended[i].of = r

\* A decision on its way, or acted on, is what the step's span says.
Honoured ==
  \A r \in Requests : kind[r] = "step" /\ (response[r] = "decision" \/ host[r] = "honoured") =>
    \E i \in DOMAIN ended : ended[i].of = r /\ ended[i].events = {Decided}

\* The audit log has the failures of the hosts, and no other's.
Audited ==
  /\ audit \subseteq {Ungoverned} \cup Entry
  /\ \A e \in audit : e.outcome = "posture" /\ ~e.replay => host[e.pair] \in Failures
  /\ \A r \in Requests : kind[r] = "step" /\ host[r] \in Failures => entry(r, host[r]) \in audit

\* An output that has not failed holds, or has queued, all it did not drop.
Batched ==
  /\ queue \in [Outputs -> Seq(Span)] /\ written \in [Outputs -> Seq(Span)]
  /\ dead \in [Outputs -> BOOLEAN] /\ dropped \in [Outputs -> SUBSET Span]
  /\ \A o \in Outputs : Len(queue[o]) <= QueueSize
  /\ \A o \in Outputs : ~dead[o] => \A x \in dropped[o] : \E i \in DOMAIN ended : ended[i] = x
  /\ \A o \in Outputs : ~dead[o] => carries(written[o] \o queue[o], ended, dropped[o])

\* A shutdown that is done has left nothing queued.
Drained == shutdown = "done" => \A o \in Outputs : queue[o] = <<>>

TraceInv ==
  Names /\ Hosts /\ Handlers /\ Closing /\ Opened /\ Spanned /\ Honoured /\ Audited /\ Batched /\ Drained

-----------------------------------------------------------------------------
(* Sequences and sets. *)

LEMMA Appended ==
  ASSUME NEW S, NEW s \in Seq(S), NEW t \in Seq(S)
  PROVE  /\ s \o t \in Seq(S)
         /\ \A i \in DOMAIN s : i \in DOMAIN (s \o t) /\ (s \o t)[i] = s[i]
         /\ \A j \in DOMAIN t : Len(s) + j \in DOMAIN (s \o t) /\ (s \o t)[Len(s) + j] = t[j]
         /\ \A i \in DOMAIN (s \o t) : i \in DOMAIN s \/ \E j \in DOMAIN t : i = Len(s) + j
<1> DEFINE u == s \o t
<1>1. u \in Seq(S) /\ Len(u) = Len(s) + Len(t)
      /\ \A i \in 1 .. Len(s) + Len(t) : u[i] = IF i <= Len(s) THEN s[i] ELSE t[i - Len(s)]
  BY ConcatProperties
<1>2. DOMAIN u = 1..Len(u) /\ DOMAIN s = 1..Len(s) /\ DOMAIN t = 1..Len(t) /\ Len(s) \in Nat /\ Len(t) \in Nat
  BY <1>1, LenProperties
<1> HIDE DEF u
<1>3. \A i \in DOMAIN s : i \in DOMAIN u /\ u[i] = s[i]
  BY <1>1, <1>2
<1>4. ASSUME NEW j \in DOMAIN t PROVE Len(s) + j \in DOMAIN u /\ u[Len(s) + j] = t[j]
  <2>1. Len(s) + j \in 1..(Len(s) + Len(t)) /\ ~(Len(s) + j <= Len(s)) /\ (Len(s) + j) - Len(s) = j
    BY <1>2, <1>4
  <2> QED BY <2>1, <1>1, <1>2
<1>5. ASSUME NEW i \in DOMAIN u, i \notin DOMAIN s PROVE \E j \in DOMAIN t : i = Len(s) + j
  <2>1. i - Len(s) \in DOMAIN t /\ i = Len(s) + (i - Len(s))
    BY <1>1, <1>2, <1>5
  <2> QED BY <2>1
<1> QED BY <1>1, <1>3, <1>4, <1>5 DEF u

LEMMA SequenceOfSet ==
  ASSUME NEW S, IsFiniteSet(S)
  PROVE  /\ SetToSeq(S) \in Seq(S)
         /\ \A i, j \in DOMAIN SetToSeq(S) : SetToSeq(S)[i] = SetToSeq(S)[j] => i = j
         /\ \A x \in S : \E i \in DOMAIN SetToSeq(S) : SetToSeq(S)[i] = x
<1> DEFINE n == Cardinality(S)
           q == SetToSeq(S)
<1>1. n \in Nat /\ ExistsBijection(1..n, S)
  BY FS_CardinalityType
<1>2. \E f \in [1..n -> S] : IsInjective(f)
  BY <1>1 DEF ExistsBijection, Bijection, Injection
<1>3. q \in [1..n -> S] /\ IsInjective(q)
  BY <1>2 DEF SetToSeq
<1> HIDE DEF q
<1>4. IsFiniteSet(1..n) /\ Cardinality(1..n) = n
  <2>1. 1 \in Int /\ n \in Int BY <1>1
  <2>2. IsFiniteSet(1..n) /\ Cardinality(1..n) = IF 1 > n THEN 0 ELSE n - 1 + 1
    BY <2>1, FS_Interval
  <2> HIDE DEF n
  <2> QED BY <2>2, <1>1
<1>5. q \in Injection(1..n, S)
  BY <1>3 DEF Injection
<1>6. q \in Surjection(1..n, S)
  <2> HIDE DEF n
  <2>1. Cardinality(1..n) = Cardinality(S) BY <1>4 DEF n
  <2> QED BY <1>5, <2>1, FS_Injection
<1>7. q \in Seq(S) /\ DOMAIN q = 1..n
  <2> HIDE DEF n
  <2>1. DOMAIN q = 1..n BY <1>3
  <2>2. q \in UNION {[1..k -> S] : k \in Nat} BY <1>1, <1>3
  <2> QED BY <2>1, <2>2, SeqDef
<1> HIDE DEF n
<1>8. \A i, j \in DOMAIN q : q[i] = q[j] => i = j
  BY <1>3, <1>7 DEF IsInjective
<1>9. \A x \in S : \E i \in DOMAIN q : q[i] = x
  BY <1>6, <1>7 DEF Surjection
<1> QED BY <1>7, <1>8, <1>9 DEF q

\* An output that carries the spans carries those that end next, as far as
\* its queue has room.
LEMMA CarriesOn ==
  ASSUME NEW S, NEW log \in Seq(S), NEW spans \in Seq(S), NEW lost \in SUBSET S,
         NEW new \in Seq(S), NEW n \in 0..Len(new), NEW more,
         carries(log, spans, lost),
         \A i, j \in DOMAIN (spans \o new) : (spans \o new)[i] = (spans \o new)[j] => i = j,
         \A x \in lost : \E i \in DOMAIN spans : spans[i] = x,
         more = lost \cup {new[i] : i \in {j \in DOMAIN new : j > n}}
  PROVE  carries(log \o SubSeq(new, 1, n), spans \o new, more)
<1> DEFINE sub == SubSeq(new, 1, n)
           log2 == log \o sub
           spans2 == spans \o new
<1>1. Len(new) \in Nat /\ DOMAIN new = 1..Len(new) /\ n \in Nat
  BY LenProperties
<1>2. sub \in Seq(S) /\ DOMAIN sub = 1..n /\ \A i \in 1..n : sub[i] = new[i]
  <2>1. \A i \in 1..n : new[i] \in S BY <1>1, ElementOfSeq
  <2>2. 1 \in Int /\ n \in Int BY <1>1
  <2>3. /\ sub \in Seq(S)
        /\ Len(sub) = IF 1 <= n THEN n - 1 + 1 ELSE 0
        /\ \A i \in 1 .. n - 1 + 1 : sub[i] = new[1 + i - 1]
    BY <2>1, <2>2, SubSeqProperties
  <2>4. DOMAIN sub = 1..Len(sub) BY <2>3, LenProperties
  <2> HIDE DEF sub
  <2> QED BY <1>1, <2>3, <2>4
<1> HIDE DEF sub
<1>3. /\ \A i \in DOMAIN log : i \in DOMAIN log2 /\ log2[i] = log[i]
      /\ \A j \in DOMAIN sub : Len(log) + j \in DOMAIN log2 /\ log2[Len(log) + j] = sub[j]
      /\ \A i \in DOMAIN log2 : i \in DOMAIN log \/ \E j \in DOMAIN sub : i = Len(log) + j
  BY <1>2, Appended
<1>4. /\ \A i \in DOMAIN spans : i \in DOMAIN spans2 /\ spans2[i] = spans[i]
      /\ \A j \in DOMAIN new : Len(spans) + j \in DOMAIN spans2 /\ spans2[Len(spans) + j] = new[j]
      /\ \A i \in DOMAIN spans2 : i \in DOMAIN spans \/ \E j \in DOMAIN new : i = Len(spans) + j
  BY Appended
<1>5. \A i, j \in DOMAIN spans2 : spans2[i] = spans2[j] => i = j
  OBVIOUS
<1>6. DOMAIN spans = 1..Len(spans) /\ Len(spans) \in Nat /\ DOMAIN log = 1..Len(log) /\ Len(log) \in Nat
  BY LenProperties
<1> HIDE DEF log2, spans2
<1>7. /\ \A k \in DOMAIN log : \E i \in DOMAIN spans : spans[i] \notin lost /\ log[k] = spans[i]
      /\ \A i \in DOMAIN spans : spans[i] \notin lost => \E k \in DOMAIN log : log[k] = spans[i]
      /\ \A k, l \in DOMAIN log, i, j \in DOMAIN spans :
           k < l /\ log[k] = spans[i] /\ log[l] = spans[j] => i < j
  BY DEF carries
\* A span that ended before is lost as before, a new one beyond the room.
<1>8. \A i \in DOMAIN spans : spans2[i] \in more <=> spans[i] \in lost
  <2> SUFFICES ASSUME NEW i \in DOMAIN spans, NEW j \in DOMAIN new, spans[i] = new[j] PROVE FALSE
    BY <1>4
  <2>1. i = Len(spans) + j BY <1>4, <1>5
  <2> QED BY <2>1, <1>1, <1>6
<1>9. \A j \in DOMAIN new : new[j] \in more <=> j > n
  <2> SUFFICES ASSUME NEW j \in DOMAIN new, new[j] \in more PROVE j > n
    OBVIOUS
  <2>1. CASE new[j] \in lost
    <3>1. PICK i \in DOMAIN spans : spans[i] = new[j] BY <2>1
    <3>2. i = Len(spans) + j BY <3>1, <1>4, <1>5
    <3> QED BY <3>2, <1>1, <1>6
  <2>2. CASE \E i \in DOMAIN new : i > n /\ new[i] = new[j]
    <3>1. PICK i \in DOMAIN new : i > n /\ new[i] = new[j] BY <2>2
    <3>2. Len(spans) + i = Len(spans) + j BY <3>1, <1>4, <1>5
    <3> QED BY <3>1, <3>2, <1>1, <1>6
  <2> QED BY <2>1, <2>2
\* What is on the log is at one place of the spans.
<1>10. \A j \in DOMAIN sub : j \in DOMAIN new /\ Len(spans) + j \in DOMAIN spans2
                             /\ sub[j] = spans2[Len(spans) + j] /\ spans2[Len(spans) + j] \notin more
  BY <1>1, <1>2, <1>4, <1>9
<1>11. ASSUME NEW k \in DOMAIN log2
       PROVE  \E i \in DOMAIN spans2 : spans2[i] \notin more /\ log2[k] = spans2[i]
  <2>1. CASE k \in DOMAIN log
    <3>1. PICK i \in DOMAIN spans : spans[i] \notin lost /\ log[k] = spans[i] BY <2>1, <1>7
    <3> QED BY <2>1, <3>1, <1>3, <1>4, <1>8
  <2>2. CASE \E j \in DOMAIN sub : k = Len(log) + j
    BY <2>2, <1>3, <1>10
  <2> QED BY <2>1, <2>2, <1>3
<1>12. ASSUME NEW i \in DOMAIN spans2, spans2[i] \notin more
       PROVE  \E k \in DOMAIN log2 : log2[k] = spans2[i]
  <2>1. CASE i \in DOMAIN spans
    <3>1. PICK k \in DOMAIN log : log[k] = spans[i] BY <2>1, <1>7, <1>8, <1>12
    <3> QED BY <2>1, <3>1, <1>3, <1>4
  <2>2. ASSUME NEW j \in DOMAIN new, i = Len(spans) + j PROVE \E k \in DOMAIN log2 : log2[k] = spans2[i]
    <3>1. j \in 1..n BY <2>2, <1>1, <1>4, <1>9, <1>12
    <3>2. j \in DOMAIN sub BY <3>1, <1>2
    <3>3. Len(log) + j \in DOMAIN log2 /\ log2[Len(log) + j] = sub[j] BY <3>2, <1>3
    <3> QED BY <2>2, <3>2, <3>3, <1>10
  <2> QED BY <2>1, <2>2, <1>4
<1>13. ASSUME NEW k \in DOMAIN log2, NEW l \in DOMAIN log2, NEW i \in DOMAIN spans2, NEW j \in DOMAIN spans2,
              k < l, log2[k] = spans2[i], log2[l] = spans2[j]
       PROVE  i < j
  <2>1. \A x \in DOMAIN log, y \in DOMAIN spans2 : log2[x] = spans2[y] => y \in DOMAIN spans /\ log[x] = spans[y]
    <3> SUFFICES ASSUME NEW x \in DOMAIN log, NEW y \in DOMAIN spans2, log2[x] = spans2[y]
                 PROVE  y \in DOMAIN spans /\ log[x] = spans[y]
      OBVIOUS
    <3>1. PICK z \in DOMAIN spans : log[x] = spans[z] BY <1>7
    <3>2. y = z BY <3>1, <1>3, <1>4, <1>5
    <3> QED BY <3>1, <3>2
  <2>2. \A x \in DOMAIN sub, y \in DOMAIN spans2 : log2[Len(log) + x] = spans2[y] => y = Len(spans) + x
    BY <1>3, <1>5, <1>10
  <2>3. CASE k \in DOMAIN log /\ l \in DOMAIN log
    BY <2>1, <2>3, <1>7, <1>13
  <2>4. ASSUME k \in DOMAIN log, NEW x \in DOMAIN sub, l = Len(log) + x PROVE i < j
    <3>1. i \in DOMAIN spans /\ j = Len(spans) + x BY <2>1, <2>2, <2>4, <1>13
    <3> QED BY <3>1, <1>2, <1>6
  <2>5. ASSUME NEW x \in DOMAIN sub, k = Len(log) + x, l \in DOMAIN log PROVE FALSE
    BY <2>5, <1>2, <1>6, <1>13
  <2>6. ASSUME NEW x \in DOMAIN sub, NEW y \in DOMAIN sub, k = Len(log) + x, l = Len(log) + y PROVE i < j
    <3>1. i = Len(spans) + x /\ j = Len(spans) + y BY <2>2, <2>6, <1>13
    <3> QED BY <3>1, <2>6, <1>2, <1>6, <1>13
  <2> QED BY <2>3, <2>4, <2>5, <2>6, <1>3
<1>14. carries(log2, spans2, more)
  BY <1>11, <1>12, <1>13 DEF carries
<1> QED BY <1>14 DEF log2, spans2, sub

\* Spans given up are lost, and the output carries the others.
LEMMA CarriesLess ==
  ASSUME NEW S, NEW log \in Seq(S), NEW batch \in Seq(S), NEW spans \in Seq(S), NEW lost \in SUBSET S,
         carries(log \o batch, spans, lost)
  PROVE  carries(log, spans, lost \cup ToSet(batch))
<1> DEFINE all == log \o batch
           more == lost \cup ToSet(batch)
<1>1. /\ \A i \in DOMAIN log : i \in DOMAIN all /\ all[i] = log[i]
      /\ \A j \in DOMAIN batch : Len(log) + j \in DOMAIN all /\ all[Len(log) + j] = batch[j]
      /\ \A i \in DOMAIN all : i \in DOMAIN log \/ \E j \in DOMAIN batch : i = Len(log) + j
  BY Appended
<1>2. DOMAIN log = 1..Len(log) /\ Len(log) \in Nat /\ DOMAIN batch = 1..Len(batch) /\ Len(batch) \in Nat
      /\ DOMAIN spans = 1..Len(spans) /\ Len(spans) \in Nat
  BY LenProperties
<1>3. /\ \A k \in DOMAIN all : \E i \in DOMAIN spans : spans[i] \notin lost /\ all[k] = spans[i]
      /\ \A i \in DOMAIN spans : spans[i] \notin lost => \E k \in DOMAIN all : all[k] = spans[i]
      /\ \A k, l \in DOMAIN all, i, j \in DOMAIN spans :
           k < l /\ all[k] = spans[i] /\ all[l] = spans[j] => i < j
  BY DEF carries
<1>4. \A x : x \in more <=> x \in lost \/ \E j \in DOMAIN batch : batch[j] = x
  BY DEF ToSet
<1> HIDE DEF all, more
<1>5. ASSUME NEW k \in DOMAIN log PROVE \E i \in DOMAIN spans : spans[i] \notin more /\ log[k] = spans[i]
  <2>1. PICK i \in DOMAIN spans : spans[i] \notin lost /\ all[k] = spans[i] BY <1>1, <1>3
  <2>2. ASSUME NEW j \in DOMAIN batch, batch[j] = spans[i] PROVE FALSE
    <3>1. k \in DOMAIN all /\ Len(log) + j \in DOMAIN all /\ k < Len(log) + j /\ all[Len(log) + j] = spans[i]
      BY <2>2, <1>1, <1>2
    <3>2. i < i BY <3>1, <2>1, <1>3
    <3> QED BY <3>2, <1>2
  <2> QED BY <2>1, <2>2, <1>1, <1>4
<1>6. ASSUME NEW i \in DOMAIN spans, spans[i] \notin more PROVE \E k \in DOMAIN log : log[k] = spans[i]
  <2>1. PICK k \in DOMAIN all : all[k] = spans[i] BY <1>3, <1>4, <1>6
  <2>2. ~\E j \in DOMAIN batch : k = Len(log) + j BY <2>1, <1>1, <1>4, <1>6
  <2> QED BY <2>1, <2>2, <1>1
<1>7. \A k, l \in DOMAIN log, i, j \in DOMAIN spans :
        k < l /\ log[k] = spans[i] /\ log[l] = spans[j] => i < j
  BY <1>1, <1>3
<1>8. carries(log, spans, more)
  BY <1>5, <1>6, <1>7 DEF carries
<1> QED BY <1>8 DEF more

-----------------------------------------------------------------------------
(* The spans that end. *)

\* new are the spans a step ends: of requests that were open, one of each,
\* and every request that is open no longer.
Ends(new) ==
  /\ new \in Seq(Span) /\ ~stopped /\ pushed(new)
  /\ \A j \in DOMAIN new :
       /\ recorded(new[j].of) /\ new[j].of \in open /\ new[j].of \notin open'
       /\ new[j].pair = IF kind[new[j].of] = "step" THEN new[j].of ELSE None
       /\ kind[new[j].of] = "step" => new[j].events # {}
  /\ \A j, k \in DOMAIN new : new[j].of = new[k].of => j = k
  /\ \A r \in open : r \in open' \/ \E j \in DOMAIN new : new[j].of = r

LEMMA FinishIs ==
  ASSUME Names, Handlers, NEW r \in Requests, recorded(r), NEW answer \in {"decision", "error", None}
  PROVE  /\ finish(r, answer) \in Span /\ finish(r, answer).of = r
         /\ finish(r, answer).pair = IF kind[r] = "step" THEN r ELSE None
         /\ kind[r] = "step" => finish(r, answer).events # {}
         /\ kind[r] = "step" /\ answer = "decision" /\ elapsed[r] <= Timeout =>
              finish(r, answer).events = {Decided}
<1> DEFINE f == finish(r, answer)
<1>1. DOMAIN RejectionReason = {"invalid", "fault"} BY DEF RejectionReason
<1>2. CASE kind[r] = "step"
  <2> DEFINE said == CASE answer = "error" -> {Failure("guardian_error")}
                       [] answer = "decision" -> {Decided} \cup (IF elapsed[r] > Timeout THEN {Failure("timeout")} ELSE {})
                       [] OTHER -> {Failure("other")}
  <2>1. f = [of |-> r, pair |-> pair[r], claimed |-> None, events |-> said]
    BY <1>1, <1>2 DEF finish, stepSpan
  <2>2. pair[r] = r BY <1>2 DEF Names
  <2>3. Decided \in Event /\ Failure("guardian_error") \in Event /\ Failure("timeout") \in Event
        /\ Failure("other") \in Event
    BY DEF Event
  <2>4. said \in SUBSET Event /\ said # {}
    <3>1. CASE answer = "error" BY <2>3, <3>1
    <3>2. CASE answer # "error" /\ answer = "decision" BY <2>3, <3>2
    <3>3. CASE answer # "error" /\ answer # "decision" BY <2>3, <3>3
    <3> QED BY <3>1, <3>2, <3>3
  <2>5. answer = "decision" /\ elapsed[r] <= Timeout => said = {Decided}
    <3>1. Timeout \in Nat BY TraceAssumption
    <3>2. ASSUME answer = "decision", elapsed[r] <= Timeout PROVE said = {Decided}
      <4>1. elapsed[r] \in Nat BY <3>1 DEF Handlers
      <4>2. ~(elapsed[r] > Timeout) BY <4>1, <3>2, <3>1
      <4> QED BY <3>2, <4>2
    <3> QED BY <3>2
  <2> HIDE DEF said, f
  <2> QED BY <1>2, <2>1, <2>2, <2>4, <2>5 DEF Span, f
<1>3. CASE kind[r] # "step"
  <2>1. kind[r] \in {"invalid", "fault"} BY <1>3 DEF Names, Kinds, recorded
  <2> DEFINE said == IF RejectionReason[kind[r]] = "guardian_fault" THEN {Failure("guardian_error")} ELSE {}
  <2>2. f = [of |-> r, pair |-> None, claimed |-> pair[r], events |-> said]
    BY <1>1, <2>1 DEF finish, rejectedSpan
  <2>3. pair[r] \in Requests BY DEF Names
  <2>4. said \in SUBSET Event BY DEF Event
  <2> HIDE DEF said, f
  <2> QED BY <1>3, <2>2, <2>3, <2>4 DEF Span, f
<1> QED BY <1>2, <1>3

\* An answer ends the span of its request, if it is open.
LEMMA AnswerEnds ==
  ASSUME Names, Handlers, Opened, Spanned, NEW r \in Requests, NEW answer \in answers(r), answered(r, answer),
         open' = open \ {r}, r \in open, ~stopped, pushed(<<finish(r, answer)>>)
  PROVE  /\ recorded(r) /\ Ends(<<finish(r, answer)>>)
         /\ <<finish(r, answer)>>[1] = finish(r, answer) /\ DOMAIN <<finish(r, answer)>> = 1..1
<1> DEFINE f == finish(r, answer)
<1>1. recorded(r) BY DEF Opened
<1>2. answer \in {"decision", "error", None} BY DEF answers
<1>3. /\ f \in Span /\ f.of = r /\ f.pair = IF kind[r] = "step" THEN r ELSE None
      /\ kind[r] = "step" => f.events # {}
  BY <1>1, <1>2, FinishIs
<1> HIDE DEF f
<1>4. <<f>> \in Seq(Span) /\ DOMAIN <<f>> = 1..1 /\ <<f>>[1] = f
  BY <1>3
<1>5. pushed(<<f>>) BY DEF f
<1> HIDE DEF pushed
<1>6. \A j \in DOMAIN <<f>> : <<f>>[j] = f /\ j = 1 BY <1>4
<1>7. \A q \in open : q \in open' \/ \E j \in DOMAIN <<f>> : <<f>>[j].of = q
  BY <1>3, <1>4
<1>8. Ends(<<f>>)
  BY <1>1, <1>3, <1>4, <1>5, <1>6, <1>7 DEF Ends
<1> QED BY <1>1, <1>4, <1>8 DEF f

\* The first shutdown ends every span that is open.
LEMMA ShutdownEnds ==
  ASSUME Names, Handlers, Opened, Closing, NEW s \in Signals, Shutdown(s)
  PROVE  \E new : Ends(new)
<1> DEFINE rest == SetToSeq(open)
           new == [i \in DOMAIN rest |-> finish(rest[i], None)]
<1>1. ~stopped /\ open' = {} /\ pushed(new)
  BY DEF Shutdown, Closing
<1>2. open \subseteq Requests /\ IsFiniteSet(open) /\ \A r \in open : recorded(r)
  BY <1>1 DEF Opened
<1>3. /\ rest \in Seq(open)
      /\ \A i, j \in DOMAIN rest : rest[i] = rest[j] => i = j
      /\ \A x \in open : \E i \in DOMAIN rest : rest[i] = x
  BY <1>2, SequenceOfSet
<1> HIDE DEF rest
<1>4. DOMAIN rest = 1..Len(rest) /\ Len(rest) \in Nat /\ \A i \in DOMAIN rest : rest[i] \in open
  BY <1>3, LenProperties, ElementOfSeq
<1>5. ASSUME NEW i \in DOMAIN rest
      PROVE  /\ finish(rest[i], None) \in Span /\ finish(rest[i], None).of = rest[i]
             /\ finish(rest[i], None).pair = IF kind[rest[i]] = "step" THEN rest[i] ELSE None
             /\ kind[rest[i]] = "step" => finish(rest[i], None).events # {}
  <2>1. rest[i] \in Requests /\ recorded(rest[i]) BY <1>2, <1>4
  <2> QED BY <2>1, FinishIs
<1>6. DOMAIN new = DOMAIN rest /\ \A i \in DOMAIN rest : new[i] = finish(rest[i], None)
  OBVIOUS
<1> HIDE DEF new
<1>7. new \in Seq(Span)
  <2>1. new \in [1..Len(rest) -> Span] BY <1>4, <1>5, <1>6, <1>1 DEF new
  <2> QED BY <2>1, <1>4, SeqDef
<1>8. \A j \in DOMAIN new :
       /\ recorded(new[j].of) /\ new[j].of \in open /\ new[j].of \notin open'
       /\ new[j].pair = IF kind[new[j].of] = "step" THEN new[j].of ELSE None
       /\ kind[new[j].of] = "step" => new[j].events # {}
  BY <1>1, <1>2, <1>4, <1>5, <1>6
<1>9. \A j, k \in DOMAIN new : new[j].of = new[k].of => j = k
  BY <1>3, <1>5, <1>6
<1>10. \A r \in open : r \in open' \/ \E j \in DOMAIN new : new[j].of = r
  BY <1>3, <1>5, <1>6
<1> HIDE DEF pushed
<1>11. Ends(new)
  BY <1>1, <1>7, <1>8, <1>9, <1>10 DEF Ends
<1> QED BY <1>11

\* What was ended stays where it is, and what ends now comes after it.
LEMMA EndsAfter ==
  ASSUME Spanned, NEW new, Ends(new)
  PROVE  /\ ended' \in Seq(Span)
         /\ \A i \in DOMAIN ended : i \in DOMAIN ended' /\ ended'[i] = ended[i]
         /\ \A j \in DOMAIN new : Len(ended) + j \in DOMAIN ended' /\ ended'[Len(ended) + j] = new[j]
         /\ \A i \in DOMAIN ended' : i \in DOMAIN ended \/ \E j \in DOMAIN new : i = Len(ended) + j
<1>1. ended' = ended \o new /\ new \in Seq(Span) /\ ended \in Seq(Span) BY DEF Ends, pushed, Spanned
<1> QED BY <1>1, Appended

\* One span of a request, whatever ends.
LEMMA OneSpanEach ==
  ASSUME Spanned, NEW new, Ends(new)
  PROVE  \A i, j \in DOMAIN ended' : ended'[i].of = ended'[j].of => i = j
<1>1. /\ \A i \in DOMAIN ended : i \in DOMAIN ended' /\ ended'[i] = ended[i]
      /\ \A j \in DOMAIN new : Len(ended) + j \in DOMAIN ended' /\ ended'[Len(ended) + j] = new[j]
      /\ \A i \in DOMAIN ended' : i \in DOMAIN ended \/ \E j \in DOMAIN new : i = Len(ended) + j
  BY EndsAfter
<1>2. /\ \A i, j \in DOMAIN ended : ended[i].of = ended[j].of => i = j
      /\ \A i \in DOMAIN ended : ended[i].of \notin open
  BY DEF Spanned
<1>3. /\ \A j, k \in DOMAIN new : new[j].of = new[k].of => j = k
      /\ \A j \in DOMAIN new : new[j].of \in open
  BY DEF Ends
<1>4. \A i \in DOMAIN ended, j \in DOMAIN new : ended[i].of # new[j].of
  BY <1>2, <1>3
<1> QED BY <1>1, <1>2, <1>3, <1>4

-----------------------------------------------------------------------------
(* The steps keep the invariant, one part at a time. *)

LEMMA NamesKept ==
  ASSUME Names, [Next]_vars
  PROVE  kind' = kind /\ pair' = pair /\ Names'
<1>1. UNCHANGED <<kind, pair>>
  <2>1. ASSUME NEW r \in Requests, Client(r) PROVE UNCHANGED <<kind, pair>>
    BY <2>1 DEF Client, Send, Receive, TimesOut, Unreachable, ReplayRefused, hostEnds
  <2>2. ASSUME NEW r \in Requests, Arrive(r) \/ Answer(r) PROVE UNCHANGED <<kind, pair>>
    BY <2>2 DEF Arrive, Answer, answered
  <2>3. ASSUME NEW o \in Outputs, Output(o) PROVE UNCHANGED <<kind, pair>>
    BY <2>3 DEF Output, Write, Fail, Abandon, exports, output
  <2>4. ASSUME NEW s \in Signals, Signal(s) \/ Close(s) PROVE UNCHANGED <<kind, pair>>
    BY <2>4 DEF Signal, Close, Shutdown, ShutdownJoin, Exit
  <2>5. CASE Flushed \/ Tick BY <2>5 DEF Flushed, Tick
  <2>6. CASE UNCHANGED vars BY <2>6 DEF vars
  <2> QED BY <2>1, <2>2, <2>3, <2>4, <2>5, <2>6 DEF Next
<1> QED BY <1>1 DEF Names

\* A timer that runs goes on by one, up to its limit.
LEMMA Older ==
  ASSUME NEW S, NEW limit \in Nat, NEW age \in [S -> 0..limit], NEW running, NEW next,
         next = [i \in DOMAIN age |-> IF running[i] /\ age[i] < limit THEN age[i] + 1 ELSE age[i]]
  PROVE  next \in [S -> 0..limit]
<1>1. DOMAIN age = S /\ \A i \in S : age[i] \in 0..limit OBVIOUS
<1>2. ASSUME NEW i \in S PROVE (IF running[i] /\ age[i] < limit THEN age[i] + 1 ELSE age[i]) \in 0..limit
  BY <1>1, <1>2
<1> QED BY <1>1, <1>2

LEMMA ClosingKept ==
  ASSUME Closing, [Next]_vars
  PROVE  Closing'
<1>0. Timeout \in Nat BY TraceAssumption
<1>1. CASE UNCHANGED <<sig, shutdown, closing, exited, stopped>>
  BY <1>1 DEF Closing, signalled
<1>2. ASSUME NEW r \in Requests, Client(r) \/ Arrive(r) \/ Answer(r)
      PROVE  UNCHANGED <<sig, shutdown, closing, exited, stopped>>
  <2>1. CASE Client(r)
    BY <2>1 DEF Client, Send, Receive, TimesOut, Unreachable, ReplayRefused, hostEnds, process, exporter
  <2>2. CASE Arrive(r) BY <2>2 DEF Arrive, process
  <2>3. CASE Answer(r) BY <2>3 DEF Answer, answered, process
  <2> QED BY <1>2, <2>1, <2>2, <2>3
<1>3. ASSUME NEW o \in Outputs, Output(o)
      PROVE  Closing'
  <2>1. UNCHANGED <<sig, closing, exited, stopped>> /\ ~exited
        /\ shutdown' \in {shutdown, IF shutdown = "flushing" THEN "failed" ELSE shutdown}
    BY <1>3 DEF Output, Write, Fail, Abandon, exports, output
  <2> QED BY <2>1 DEF Closing, signalled
<1>4. ASSUME NEW s \in Signals, Signal(s) \/ ShutdownJoin(s)
      PROVE  Closing'
  <2>1. /\ UNCHANGED <<shutdown, closing, exited, stopped>>
        /\ sig' \in {[sig EXCEPT ![s] = "draining"], [sig EXCEPT ![s] = "flushing"]}
    BY <1>4 DEF Signal, ShutdownJoin, exporter
  <2>2. sig' \in [Signals -> {"absent", "none", "draining", "flushing", "gone"}]
    BY <2>1 DEF Closing
  <2>3. \A q \in Signals : sig[q] \notin {"none", "absent"} => sig'[q] \notin {"none", "absent"}
    BY <2>1 DEF Closing
  <2> QED BY <2>1, <2>2, <2>3 DEF Closing, signalled
<1>5. ASSUME NEW s \in Signals, Shutdown(s) PROVE Closing'
  <2>1. sig' = [sig EXCEPT ![s] = "flushing"] /\ shutdown' = "flushing" /\ stopped' = TRUE
        /\ UNCHANGED <<closing, exited>> /\ ~exited
    BY <1>5 DEF Shutdown, drained
  <2>2. sig' \in [Signals -> {"absent", "none", "draining", "flushing", "gone"}] /\ sig'[s] = "flushing"
    BY <2>1 DEF Closing
  <2> QED BY <2>1, <2>2 DEF Closing, signalled
<1>6. ASSUME NEW s \in Signals, Exit(s) PROVE Closing'
  <2>1. sig' = [sig EXCEPT ![s] = "gone"] /\ exited' = TRUE /\ shutdown \in {"done", "timeout", "failed"}
        /\ UNCHANGED <<closing, shutdown, stopped>>
    BY <1>6 DEF Exit, exporter
  <2>2. sig' \in [Signals -> {"absent", "none", "draining", "flushing", "gone"}] /\ sig'[s] = "gone"
    BY <2>1 DEF Closing
  <2> QED BY <2>1, <2>2 DEF Closing, signalled
<1>7. CASE Flushed
  BY <1>7 DEF Flushed, Closing, signalled, exporter
<1>8. CASE Tick
  <2>1. UNCHANGED <<sig, shutdown, exited, stopped>> BY <1>8 DEF Tick, exporter
  <2>2. closing' = [i \in DOMAIN closing |->
           IF [s \in Signals |-> sig[s] = "draining" /\ ~exited][i] /\ closing[i] < Timeout THEN closing[i] + 1 ELSE closing[i]]
    BY <1>8 DEF Tick
  <2>3. closing' \in [Signals -> 0..Timeout]
    <3>1. closing \in [Signals -> 0..Timeout] BY DEF Closing
    <3> QED BY <1>0, <2>2, <3>1, Older
  <2> QED BY <2>1, <2>3 DEF Closing, signalled
<1>9. CASE UNCHANGED vars BY <1>1, <1>9 DEF vars, process, exporter
<1> QED BY <1>1, <1>2, <1>3, <1>4, <1>5, <1>6, <1>7, <1>8, <1>9 DEF Next, Close

\* A host waits from the moment it asks, its handler counts from the moment
\* the request arrives, and both stop counting when the step is over.
LEMMA TimersKept ==
  ASSUME Hosts, Handlers, [Next]_vars
  PROVE  Hosts' /\ Handlers'
<1>0. Timeout \in Nat /\ None \notin {"decision", "error"} BY TraceAssumption
<1> USE DEF Failures
<1>1. CASE UNCHANGED <<host, waited, response, handler, elapsed>>
  BY <1>1 DEF Hosts, Handlers
<1>2. ASSUME NEW r \in Requests, Send(r) PROVE Hosts' /\ Handlers'
  <2>1. host[r] = "idle" /\ host' = [host EXCEPT ![r] = "asking"] /\ UNCHANGED <<waited, response, handler, elapsed>>
    BY <1>2 DEF Send, handlers
  <2>2. Hosts' BY <2>1 DEF Hosts
  <2>3. handler[r] = "none" BY <2>1 DEF Handlers
  <2> QED BY <2>1, <2>2, <2>3 DEF Hosts, Handlers
<1>3. ASSUME NEW r \in Requests, NEW outcome \in {"honoured"} \cup Failures, hostEnds(r, outcome)
      PROVE  Hosts' /\ Handlers'
  <2>1. /\ host[r] = "asking" /\ host' = [host EXCEPT ![r] = outcome] /\ UNCHANGED <<handler, elapsed>>
        /\ waited' = [waited EXCEPT ![r] = 0] /\ response' = [response EXCEPT ![r] = None]
    BY <1>3 DEF hostEnds
  <2>2. Hosts' BY <2>1, <1>0 DEF Hosts
  <2> QED BY <2>1, <2>2 DEF Hosts, Handlers
<1>4. ASSUME NEW r \in Requests, Receive(r) \/ TimesOut(r) \/ Unreachable(r) PROVE Hosts' /\ Handlers'
  <2>1. \E outcome \in {"honoured"} \cup Failures : hostEnds(r, outcome)
    BY <1>4 DEF Receive, TimesOut, Unreachable
  <2> QED BY <2>1, <1>3
<1>5. ASSUME NEW r \in Requests, ReplayRefused(r) PROVE UNCHANGED <<host, waited, response, handler, elapsed>>
  BY <1>5 DEF ReplayRefused, handlers
<1>6. ASSUME NEW r \in Requests, Arrive(r) PROVE Hosts' /\ Handlers'
  <2>1. host[r] = "asking" /\ handler[r] = "none" /\ handler' = [handler EXCEPT ![r] = "open"]
        /\ UNCHANGED <<host, waited, response, elapsed>>
    BY <1>6 DEF Arrive, clients
  <2>2. elapsed[r] = 0 /\ waited[r] \in 0..Timeout BY <2>1 DEF Hosts, Handlers
  <2> QED BY <1>0, <2>1, <2>2 DEF Hosts, Handlers
<1>7. ASSUME NEW r \in Requests, Answer(r) PROVE Hosts' /\ Handlers'
  <2>1. PICK answer \in answers(r) : answered(r, answer) BY <1>7 DEF Answer
  <2>2. /\ handler[r] = "open" /\ handler' = [handler EXCEPT ![r] = "done"] /\ elapsed' = [elapsed EXCEPT ![r] = 0]
        /\ UNCHANGED <<host, waited>> /\ response' \in {response, [response EXCEPT ![r] = answer]}
    BY <2>1 DEF answered, clients
  <2>3. answer \in {"decision", "error"} BY DEF answers
  <2>4. host[r] \notin {"idle", "absent"} BY <2>2 DEF Handlers
  <2>5. Hosts' BY <2>2, <2>3 DEF Hosts
  <2>6. handler' \in [Requests -> {"none", "open", "done"}] /\ elapsed' \in [Requests -> 0..(Timeout + 1)]
    BY <1>0, <2>2 DEF Handlers
  <2>7. \A q \in Requests : handler'[q] = (IF q = r THEN "done" ELSE handler[q])
                             /\ elapsed'[q] = (IF q = r THEN 0 ELSE elapsed[q])
    BY <2>2 DEF Handlers
  <2>8. host' = host /\ waited' = waited BY <2>2
  <2> QED BY <2>4, <2>5, <2>6, <2>7, <2>8 DEF Handlers
<1>8. ASSUME NEW o \in Outputs, Output(o) PROVE UNCHANGED <<host, waited, response, handler, elapsed>>
  BY <1>8 DEF Output, Write, Fail, Abandon, exports, output, clients, handlers
<1>9. ASSUME NEW s \in Signals, Signal(s) \/ Close(s) PROVE UNCHANGED <<host, waited, response, handler, elapsed>>
  BY <1>9 DEF Signal, Close, Shutdown, ShutdownJoin, Exit, clients, handlers
<1>10. CASE Flushed BY <1>1, <1>10 DEF Flushed, clients, handlers
<1>11. CASE Tick
  <2>1. UNCHANGED <<host, response, handler>> BY <1>11 DEF Tick
  <2>2. /\ \A r \in Requests : host[r] = "asking" => waited[r] < Timeout
        /\ waited' = [i \in DOMAIN waited |->
             IF [r \in Requests |-> host[r] = "asking"][i] /\ waited[i] < Timeout THEN waited[i] + 1 ELSE waited[i]]
        /\ elapsed' = [i \in DOMAIN elapsed |->
             IF [r \in Requests |-> handler[r] = "open"][i] /\ elapsed[i] < Timeout + 1 THEN elapsed[i] + 1 ELSE elapsed[i]]
    BY <1>11 DEF Tick
  <2>3. waited \in [Requests -> 0..Timeout] /\ elapsed \in [Requests -> 0..(Timeout + 1)]
    BY DEF Hosts, Handlers
  <2>4. waited' \in [Requests -> 0..Timeout] BY <1>0, <2>2, <2>3, Older
  <2>5. elapsed' \in [Requests -> 0..(Timeout + 1)]
    <3>1. Timeout + 1 \in Nat BY <1>0
    <3> QED BY <3>1, <2>2, <2>3, Older
  <2>6. ASSUME NEW r \in Requests, host[r] = "asking", handler[r] = "open" PROVE elapsed'[r] <= waited'[r]
    <3>1. elapsed[r] <= waited[r] /\ waited[r] < Timeout /\ elapsed[r] \in Nat /\ waited[r] \in Nat
      BY <1>0, <2>2, <2>3, <2>6 DEF Handlers
    <3>2. waited'[r] = waited[r] + 1 BY <2>2, <2>3, <2>6
    <3>3. elapsed'[r] = elapsed[r] + 1
      <4>1. elapsed'[r] = IF handler[r] = "open" /\ elapsed[r] < Timeout + 1 THEN elapsed[r] + 1 ELSE elapsed[r]
        BY <2>2, <2>3
      <4>2. elapsed[r] < Timeout + 1 BY <1>0, <3>1
      <4> QED BY <4>1, <4>2, <2>6
    <3> QED BY <3>1, <3>2, <3>3
  <2>7. \A r \in Requests : handler[r] # "open" => elapsed'[r] = 0
    BY <2>2, <2>3 DEF Handlers
  <2> QED BY <2>1, <2>4, <2>5, <2>6, <2>7 DEF Hosts, Handlers
<1>12. CASE UNCHANGED vars BY <1>1, <1>12 DEF vars, clients, handlers
<1> QED BY <1>1, <1>2, <1>4, <1>5, <1>6, <1>7, <1>8, <1>9, <1>10, <1>11, <1>12 DEF Next, Client

\* Handlers come and go, and spans with them, in three kinds of step.
LEMMA HandlerSteps ==
  ASSUME [Next]_vars
  PROVE  \/ UNCHANGED <<handler, open, stopped, ended>>
         \/ \E r \in Requests : Arrive(r) \/ Answer(r)
         \/ \E s \in Signals : Shutdown(s)
<1>1. ASSUME NEW r \in Requests, Client(r) PROVE UNCHANGED <<handler, open, stopped, ended>>
  BY <1>1 DEF Client, Send, Receive, TimesOut, Unreachable, ReplayRefused, hostEnds, handlers, exporter
<1>2. ASSUME NEW o \in Outputs, Output(o) PROVE UNCHANGED <<handler, open, stopped, ended>>
  BY <1>2 DEF Output, Write, Fail, Abandon, exports, output, handlers
<1>3. ASSUME NEW s \in Signals, Signal(s) \/ ShutdownJoin(s) \/ Exit(s) PROVE UNCHANGED <<handler, open, stopped, ended>>
  BY <1>3 DEF Signal, ShutdownJoin, Exit, handlers, exporter
<1>4. CASE Flushed \/ Tick BY <1>4 DEF Flushed, Tick, handlers, exporter
<1>5. CASE UNCHANGED vars BY <1>5 DEF vars, handlers, exporter
<1> QED BY <1>1, <1>2, <1>3, <1>4, <1>5 DEF Next, Close

\* A span is open exactly while its handler is and the exporter runs.
LEMMA OpenedKept ==
  ASSUME Names, Hosts, Handlers, Closing, Opened, [Next]_vars
  PROVE  Opened'
<1>1. kind' = kind BY NamesKept
<1>2. \A r : recorded(r)' <=> recorded(r) BY <1>1 DEF recorded
<1>3. CASE UNCHANGED <<handler, open, stopped, ended>>
  BY <1>2, <1>3 DEF Opened
<1>4. ASSUME NEW r \in Requests, Arrive(r) PROVE Opened'
  <2>1. handler[r] = "none" /\ handler' = [handler EXCEPT ![r] = "open"] /\ stopped' = stopped
        /\ open' = IF recorded(r) /\ ~stopped THEN open \cup {r} ELSE open
    BY <1>4 DEF Arrive
  <2>2. \A q \in Requests : handler'[q] = (IF q = r THEN "open" ELSE handler[q])
    BY <2>1 DEF Handlers
  <2>3. IsFiniteSet(open') BY <2>1, FS_AddElement DEF Opened
  <2>4. open' = IF stopped THEN {} ELSE {q \in Requests : handler'[q] = "open" /\ recorded(q)}
    BY <2>1, <2>2 DEF Opened
  <2> QED BY <1>2, <2>1, <2>3, <2>4 DEF Opened
<1>5. ASSUME NEW r \in Requests, Answer(r) PROVE Opened'
  <2>1. handler' = [handler EXCEPT ![r] = "done"] /\ stopped' = stopped /\ open' = open \ {r}
    BY <1>5 DEF Answer, answered
  <2>2. \A q \in Requests : handler'[q] = (IF q = r THEN "done" ELSE handler[q])
    BY <2>1 DEF Handlers
  <2>3. IsFiniteSet(open') BY <2>1, FS_RemoveElement DEF Opened
  <2>4. open' = IF stopped THEN {} ELSE {q \in Requests : handler'[q] = "open" /\ recorded(q)}
    BY <2>1, <2>2 DEF Opened
  <2> QED BY <1>2, <2>1, <2>3, <2>4 DEF Opened
<1>6. ASSUME NEW s \in Signals, Shutdown(s) PROVE Opened'
  <2>1. stopped' = TRUE /\ open' = {} BY <1>6 DEF Shutdown
  <2>2. IsFiniteSet(open') BY <2>1, FS_EmptySet
  <2> QED BY <2>1, <2>2 DEF Opened
<1> QED BY <1>3, <1>4, <1>5, <1>6, HandlerSteps

LEMMA SpansGoOn ==
  ASSUME Names, Spanned, NEW new, Ends(new), kind' = kind, open' \subseteq open,
         \A r \in Requests : handler'[r] = "none" <=> handler[r] = "none",
         \A r \in open : handler[r] # "none"
  PROVE  Spanned'
<1>1. /\ ended' \in Seq(Span)
      /\ \A i \in DOMAIN ended : i \in DOMAIN ended' /\ ended'[i] = ended[i]
      /\ \A j \in DOMAIN new : Len(ended) + j \in DOMAIN ended' /\ ended'[Len(ended) + j] = new[j]
      /\ \A i \in DOMAIN ended' : i \in DOMAIN ended \/ \E j \in DOMAIN new : i = Len(ended) + j
  BY EndsAfter
<1>2. \A r : recorded(r)' <=> recorded(r) BY DEF recorded
<1>3. \A i \in DOMAIN ended : ended[i].of \in Requests
  <2>1. \A i \in DOMAIN ended : ended[i] \in Span BY LenProperties, ElementOfSeq DEF Spanned
  <2> QED BY <2>1 DEF Span
<1>4. \A j \in DOMAIN new : new[j].of \in Requests
  <2>1. new \in Seq(Span) BY DEF Ends
  <2>2. \A j \in DOMAIN new : new[j] \in Span BY <2>1, LenProperties, ElementOfSeq
  <2> QED BY <2>2 DEF Span
<1> DEFINE Fits(span) == /\ recorded(span.of) /\ span.of \notin open' /\ handler'[span.of] # "none"
                         /\ span.pair = IF kind[span.of] = "step" THEN span.of ELSE None
                         /\ kind[span.of] = "step" => span.events # {}
<1>5. \A i \in DOMAIN ended : Fits(ended[i])
  BY <1>3 DEF Spanned
<1>6. \A j \in DOMAIN new : Fits(new[j])
  BY <1>4 DEF Ends
<1> HIDE DEF Fits
<1>7. \A i \in DOMAIN ended' : Fits(ended'[i])
  BY <1>1, <1>5, <1>6
<1>8. \A i, j \in DOMAIN ended' : ended'[i].of = ended'[j].of => i = j
  BY OneSpanEach
<1>9. ASSUME NEW r \in Requests, handler'[r] # "none", recorded(r)
      PROVE  r \in open' \/ \E i \in DOMAIN ended' : ended'[i].of = r
  <2>1. CASE r \in open
    <3>1. r \in open' \/ \E j \in DOMAIN new : new[j].of = r BY <2>1 DEF Ends
    <3> QED BY <3>1, <1>1
  <2>2. CASE r \notin open
    <3>1. \E i \in DOMAIN ended : ended[i].of = r BY <2>2, <1>9 DEF Spanned
    <3> QED BY <3>1, <1>1
  <2> QED BY <2>1, <2>2
<1> QED BY <1>1, <1>2, <1>7, <1>8, <1>9 DEF Spanned, Fits

\* An answer that finds no span to end changes none.
LEMMA AnswersOfNone ==
  ASSUME Opened, NEW r \in Requests, open' = open \ {r}, ~(r \in open /\ ~stopped)
  PROVE  open' = open
BY DEF Opened

LEMMA SpannedKept ==
  ASSUME Names, Hosts, Handlers, Closing, Opened, Spanned, [Next]_vars
  PROVE  Spanned'
<1>1. kind' = kind BY NamesKept
<1>2. \A r : recorded(r)' <=> recorded(r) BY <1>1 DEF recorded
<1>3. \A i \in DOMAIN ended : ended[i].of \in Requests
  <2>1. \A i \in DOMAIN ended : ended[i] \in Span BY LenProperties, ElementOfSeq DEF Spanned
  <2> QED BY <2>1 DEF Span
<1>4. \A r \in open : r \in Requests /\ handler[r] = "open" /\ recorded(r) BY DEF Opened
<1>5. CASE UNCHANGED <<handler, open, stopped, ended>>
  BY <1>1, <1>2, <1>5 DEF Spanned
<1>6. ASSUME NEW r \in Requests, Arrive(r) PROVE Spanned'
  <2>1. handler[r] = "none" /\ handler' = [handler EXCEPT ![r] = "open"] /\ ended' = ended /\ ~Closed
        /\ open' = IF recorded(r) /\ ~stopped THEN open \cup {r} ELSE open
    BY <1>6 DEF Arrive
  <2>2. ~stopped BY <2>1 DEF Closing, Closed
  <2>3. \A q \in Requests : handler'[q] = (IF q = r THEN "open" ELSE handler[q])
    BY <2>1 DEF Handlers
  <2>4. \A i \in DOMAIN ended : ended[i].of # r BY <2>1 DEF Spanned
  <2>5. \A i \in DOMAIN ended : ended[i].of \notin open' /\ handler'[ended[i].of] # "none"
    BY <1>3, <2>1, <2>3, <2>4 DEF Spanned
  <2>6. \A q \in Requests : handler'[q] # "none" /\ recorded(q) => q \in open' \/ \E i \in DOMAIN ended : ended[i].of = q
    BY <2>1, <2>2, <2>3 DEF Spanned
  <2> QED BY <1>1, <1>2, <2>1, <2>5, <2>6 DEF Spanned
<1>7. ASSUME NEW r \in Requests, Answer(r) PROVE Spanned'
  <2>1. PICK answer \in answers(r) : answered(r, answer) /\ open' = open \ {r}
          /\ IF r \in open /\ ~stopped THEN pushed(<<finish(r, answer)>>) ELSE UNCHANGED <<queue, ended, dropped>>
    BY <1>7 DEF Answer
  <2>2. handler[r] = "open" /\ handler' = [handler EXCEPT ![r] = "done"] BY <2>1 DEF answered
  <2>3. \A q \in Requests : handler'[q] = "none" <=> handler[q] = "none"
    BY <2>2 DEF Handlers
  <2>4. CASE r \in open /\ ~stopped
    <3>1. Ends(<<finish(r, answer)>>) BY <2>1, <2>4, AnswerEnds
    <3>2. \A q \in open : handler[q] # "none" BY <1>4
    <3> QED BY <1>1, <2>1, <2>3, <3>1, <3>2, SpansGoOn
  <2>5. CASE ~(r \in open /\ ~stopped)
    <3>1. open' = open BY <2>1, <2>5, AnswersOfNone
    <3>2. ended' = ended BY <2>1, <2>5
    <3>3. \A i \in DOMAIN ended : handler'[ended[i].of] # "none" BY <1>3, <2>3 DEF Spanned
    <3> QED BY <1>1, <1>2, <2>3, <3>1, <3>2, <3>3 DEF Spanned
  <2> QED BY <2>4, <2>5
<1>8. ASSUME NEW s \in Signals, Shutdown(s) PROVE Spanned'
  <2>1. PICK new : Ends(new) BY <1>8, ShutdownEnds
  <2>2. open' = {} /\ handler' = handler BY <1>8 DEF Shutdown, handlers
  <2>3. \A q \in open : handler[q] # "none" BY <1>4
  <2>4. open' \subseteq open /\ \A r \in Requests : handler'[r] = "none" <=> handler[r] = "none" BY <2>2
  <2> QED BY <1>1, <2>1, <2>3, <2>4, SpansGoOn
<1> QED BY <1>5, <1>6, <1>7, <1>8, HandlerSteps

LEMMA EndedStay ==
  ASSUME Names, Handlers, Closing, Opened, Spanned, [Next]_vars
  PROVE  \A i \in DOMAIN ended : i \in DOMAIN ended' /\ ended'[i] = ended[i]
<1>1. CASE ended' = ended BY <1>1
<1>2. ASSUME NEW r \in Requests, Arrive(r) PROVE ended' = ended BY <1>2 DEF Arrive
<1>3. ASSUME NEW r \in Requests, Answer(r)
      PROVE  ended' = ended \/ \E new : Ends(new)
  <2>1. PICK answer \in answers(r) : answered(r, answer) /\ open' = open \ {r}
          /\ IF r \in open /\ ~stopped THEN pushed(<<finish(r, answer)>>) ELSE UNCHANGED <<queue, ended, dropped>>
    BY <1>3 DEF Answer
  <2>2. CASE r \in open /\ ~stopped
    <3>1. Ends(<<finish(r, answer)>>) BY <2>1, <2>2, AnswerEnds
    <3> QED BY <3>1
  <2> QED BY <2>1, <2>2
<1>4. ASSUME NEW s \in Signals, Shutdown(s) PROVE \E new : Ends(new)
  BY <1>4, ShutdownEnds
<1>5. ended' = ended \/ \E new : Ends(new)
  BY <1>2, <1>3, <1>4, HandlerSteps
<1> QED BY <1>1, <1>5, EndsAfter

\* A decision on its way was answered within the timeout of its host, to a
\* connection that was open, by a Guardian whose exporter ran.
LEMMA HonouredKept ==
  ASSUME Names, Hosts, Handlers, Closing, Opened, Spanned, Honoured, [Next]_vars
  PROVE  Honoured'
<1>0. Timeout \in Nat /\ None \notin {"decision", "error"} BY TraceAssumption
<1>1. kind' = kind BY NamesKept
<1>2. \A i \in DOMAIN ended : i \in DOMAIN ended' /\ ended'[i] = ended[i] BY EndedStay
<1> DEFINE Said(q) == response[q] = "decision" \/ host[q] = "honoured"
           Shown(q) == \E i \in DOMAIN ended : ended[i].of = q /\ ended[i].events = {Decided}
<1>3. \A q \in Requests : kind[q] = "step" /\ Said(q) => Shown(q) BY DEF Honoured
<1>4. \A q \in Requests : Shown(q) => Shown(q)' BY <1>2
<1>5. SUFFICES ASSUME NEW q \in Requests, kind[q] = "step", Said(q)', ~Said(q) PROVE Shown(q)'
  BY <1>1, <1>3, <1>4 DEF Honoured
<1>6. ASSUME UNCHANGED <<host, response>> PROVE FALSE BY <1>5, <1>6
<1>7. ASSUME NEW r \in Requests, Send(r) PROVE FALSE
  BY <1>5, <1>7 DEF Send, handlers, Hosts
<1>8. ASSUME NEW r \in Requests, NEW outcome, hostEnds(r, outcome), outcome = "honoured" => response[r] = "decision"
      PROVE FALSE
  <2>1. host' = [host EXCEPT ![r] = outcome] /\ response' = [response EXCEPT ![r] = None]
    BY <1>8 DEF hostEnds
  <2> QED BY <1>0, <1>5, <1>8, <2>1 DEF Hosts
<1>9. ASSUME NEW r \in Requests, Receive(r) \/ TimesOut(r) \/ Unreachable(r) PROVE FALSE
  <2>1. \E outcome : hostEnds(r, outcome) /\ (outcome = "honoured" => response[r] = "decision")
    BY <1>9 DEF Receive, TimesOut, Unreachable
  <2> QED BY <2>1, <1>8
<1>10. ASSUME NEW r \in Requests, ReplayRefused(r) PROVE FALSE
  BY <1>6, <1>10 DEF ReplayRefused, handlers
<1>11. ASSUME NEW r \in Requests, Arrive(r) PROVE FALSE
  BY <1>6, <1>11 DEF Arrive, clients
<1>12. ASSUME NEW r \in Requests, Answer(r) PROVE Shown(q)'
  <2>1. PICK answer \in answers(r) : answered(r, answer) /\ open' = open \ {r}
          /\ IF r \in open /\ ~stopped THEN pushed(<<finish(r, answer)>>) ELSE UNCHANGED <<queue, ended, dropped>>
    BY <1>12 DEF Answer
  <2>2. /\ handler[r] = "open" /\ host' = host
        /\ response' = IF Closed \/ host[r] # "asking" THEN response ELSE [response EXCEPT ![r] = answer]
    BY <2>1 DEF answered, clients
  <2>3. q = r /\ answer = "decision" /\ ~Closed /\ host[r] = "asking"
    BY <1>5, <2>2 DEF Hosts
  <2>4. r \in open /\ ~stopped
    <3>1. ~stopped BY <2>3 DEF Closed, Closing
    <3>2. recorded(r) BY <1>5, <2>3 DEF recorded
    <3> QED BY <3>1, <3>2, <2>2 DEF Opened
  <2>5. elapsed[r] <= Timeout
    <3>1. elapsed[r] <= waited[r] /\ elapsed[r] \in 0..(Timeout + 1) /\ waited[r] \in 0..Timeout
      BY <2>2, <2>3 DEF Hosts, Handlers
    <3> QED BY <1>0, <3>1
  <2>6. recorded(r) /\ Ends(<<finish(r, answer)>>)
        /\ <<finish(r, answer)>>[1] = finish(r, answer) /\ DOMAIN <<finish(r, answer)>> = 1..1
    BY <2>1, <2>4, AnswerEnds
  <2>7. finish(r, answer).of = r /\ finish(r, answer).events = {Decided}
    <3>1. kind[r] = "step" /\ answer \in {"decision", "error", None} BY <1>5, <2>3
    <3> QED BY <2>3, <2>5, <2>6, <3>1, FinishIs
  <2>8. Len(ended) + 1 \in DOMAIN ended' /\ ended'[Len(ended) + 1] = finish(r, answer)
    <3> DEFINE new == <<finish(r, answer)>>
    <3>1. Ends(new) /\ 1 \in DOMAIN new /\ new[1] = finish(r, answer) BY <2>6
    <3> HIDE DEF new
    <3> QED BY <3>1, EndsAfter
  <2> QED BY <2>3, <2>7, <2>8
<1>13. ASSUME NEW o \in Outputs, Output(o) PROVE FALSE
  BY <1>6, <1>13 DEF Output, Write, Fail, Abandon, exports, output, clients, handlers
<1>14. ASSUME NEW s \in Signals, Signal(s) \/ Close(s) PROVE FALSE
  BY <1>6, <1>14 DEF Signal, Close, Shutdown, ShutdownJoin, Exit, clients, handlers
<1>15. ASSUME Flushed \/ Tick PROVE FALSE BY <1>6, <1>15 DEF Flushed, Tick, clients, handlers
<1>16. ASSUME UNCHANGED vars PROVE FALSE BY <1>6, <1>16 DEF vars, clients, handlers
<1> QED BY <1>7, <1>9, <1>10, <1>11, <1>12, <1>13, <1>14, <1>15, <1>16 DEF Next, Client

LEMMA AuditedKept ==
  ASSUME Names, Hosts, Audited, [Next]_vars
  PROVE  Audited'
<1>1. kind' = kind BY NamesKept
<1>2. CASE UNCHANGED <<host, audit>> BY <1>1, <1>2 DEF Audited
<1>3. \A e \in audit : e.outcome = "posture" => e.pair \in Requests
  BY DEF Audited, Entry, Ungoverned
<1>4. ASSUME NEW r \in Requests, Send(r) PROVE Audited'
  <2>1. host[r] = "idle" /\ host' = [host EXCEPT ![r] = "asking"] /\ audit' = audit BY <1>4 DEF Send
  <2>2. \A q \in Requests : host'[q] \in Failures <=> host[q] \in Failures
    BY <2>1 DEF Hosts, Failures
  <2>3. \A q \in Requests : host[q] \in Failures => host'[q] = host[q]
    BY <2>1 DEF Hosts, Failures
  <2> QED BY <1>1, <1>3, <2>1, <2>2, <2>3 DEF Audited
<1>5. ASSUME NEW r \in Requests, NEW outcome \in {"honoured"} \cup Failures, hostEnds(r, outcome) PROVE Audited'
  <2>1. /\ host[r] = "asking" /\ host' = [host EXCEPT ![r] = outcome]
        /\ audit' = IF outcome \in Failures /\ pair[r] = r THEN audit \cup {entry(r, outcome)} ELSE audit
    BY <1>5 DEF hostEnds
  <2>2. \A q \in Requests : host'[q] = (IF q = r THEN outcome ELSE host[q]) BY <2>1 DEF Hosts
  <2>3. host[r] \notin Failures BY <2>1 DEF Failures
  <2>4. outcome \in Failures => entry(r, outcome) \in Entry /\ entry(r, outcome).pair = r BY DEF entry, Entry
  <2>5. audit' \subseteq {Ungoverned} \cup Entry BY <2>1, <2>4 DEF Audited
  <2>6. \A e \in audit : e.outcome = "posture" /\ ~e.replay => host'[e.pair] \in Failures
    BY <1>3, <2>2, <2>3 DEF Audited
  <2>7. \A e \in audit' : e.outcome = "posture" /\ ~e.replay => host'[e.pair] \in Failures
    BY <2>1, <2>2, <2>4, <2>6
  <2>8. ASSUME NEW q \in Requests, kind[q] = "step", host'[q] \in Failures PROVE entry(q, host'[q]) \in audit'
    <3>1. pair[q] = q BY <2>8 DEF Names
    <3>2. CASE q = r BY <2>1, <2>2, <2>8, <3>1, <3>2
    <3>3. CASE q # r BY <2>1, <2>2, <2>8, <3>3 DEF Audited
    <3> QED BY <3>2, <3>3
  <2> QED BY <1>1, <2>5, <2>7, <2>8 DEF Audited
<1>6. ASSUME NEW r \in Requests, Receive(r) \/ TimesOut(r) \/ Unreachable(r) PROVE Audited'
  <2>1. \E outcome \in {"honoured"} \cup Failures : hostEnds(r, outcome)
    BY <1>6 DEF Receive, TimesOut, Unreachable, Failures
  <2> QED BY <2>1, <1>5
<1>7. ASSUME NEW r \in Requests, ReplayRefused(r) PROVE Audited'
  <2> DEFINE again == [entry(r, "error_without_decision") EXCEPT !.replay = TRUE]
  <2>1. host' = host /\ audit' = audit \cup {again} BY <1>7 DEF ReplayRefused
  <2>2. again \in Entry /\ again.replay = TRUE BY DEF entry, Entry, Failures
  <2> HIDE DEF again
  <2> QED BY <1>1, <2>1, <2>2 DEF Audited
<1>8. ASSUME NEW r \in Requests, Arrive(r) \/ Answer(r) PROVE UNCHANGED <<host, audit>>
  BY <1>8 DEF Arrive, Answer, answered, clients
<1>9. ASSUME NEW o \in Outputs, Output(o) PROVE UNCHANGED <<host, audit>>
  BY <1>9 DEF Output, Write, Fail, Abandon, exports, output, clients
<1>10. ASSUME NEW s \in Signals, Signal(s) \/ Close(s) PROVE UNCHANGED <<host, audit>>
  BY <1>10 DEF Signal, Close, Shutdown, ShutdownJoin, Exit, clients
<1>11. ASSUME Flushed \/ Tick PROVE UNCHANGED <<host, audit>> BY <1>11 DEF Flushed, Tick, clients
<1>12. ASSUME UNCHANGED vars PROVE UNCHANGED <<host, audit>> BY <1>12 DEF vars, clients
<1> QED BY <1>2, <1>4, <1>6, <1>7, <1>8, <1>9, <1>10, <1>11, <1>12 DEF Next, Client

\* What ends is queued as far as there is room, and lost beyond it.
LEMMA PushedIsBatched ==
  ASSUME Spanned, Batched, NEW new, Ends(new), dead' = dead, written' = written
  PROVE  Batched'
<1>0. QueueSize \in Nat BY TraceAssumption
<1>1. /\ new \in Seq(Span) /\ ended \in Seq(Span) /\ ended' = ended \o new
      /\ queue' = [o \in Outputs |-> IF dead[o] THEN <<>> ELSE queue[o] \o SubSeq(new, 1, Min({room(o), Len(new)}))]
      /\ dropped' = [o \in Outputs |->
           IF dead[o] THEN {} ELSE dropped[o] \cup {new[i] : i \in {j \in DOMAIN new : j > room(o)}}]
  BY DEF Ends, pushed, Spanned
<1>2. /\ queue \in [Outputs -> Seq(Span)] /\ written \in [Outputs -> Seq(Span)]
      /\ dead \in [Outputs -> BOOLEAN] /\ dropped \in [Outputs -> SUBSET Span]
      /\ \A o \in Outputs : Len(queue[o]) <= QueueSize
      /\ \A o \in Outputs : ~dead[o] => \A x \in dropped[o] : \E i \in DOMAIN ended : ended[i] = x
      /\ \A o \in Outputs : ~dead[o] => carries(written[o] \o queue[o], ended, dropped[o])
  BY DEF Batched
<1>3. Len(new) \in Nat /\ DOMAIN new = 1..Len(new) /\ \A j \in DOMAIN new : new[j] \in Span
  BY <1>1, LenProperties, ElementOfSeq
<1>4. /\ \A i \in DOMAIN ended : i \in DOMAIN ended' /\ ended'[i] = ended[i]
      /\ \A j \in DOMAIN new : Len(ended) + j \in DOMAIN ended' /\ ended'[Len(ended) + j] = new[j]
  BY EndsAfter
<1>5. \A i, j \in DOMAIN (ended \o new) : (ended \o new)[i] = (ended \o new)[j] => i = j
  BY <1>1, OneSpanEach
<1>6. ASSUME NEW o \in Outputs
      PROVE  /\ queue'[o] \in Seq(Span) /\ Len(queue'[o]) <= QueueSize
             /\ dropped'[o] \in SUBSET Span
             /\ \A x \in dropped'[o] : \E i \in DOMAIN ended' : ended'[i] = x
             /\ ~dead[o] => carries(written[o] \o queue'[o], ended', dropped'[o])
  <2>1. CASE dead[o]
    <3>1. queue'[o] = <<>> /\ dropped'[o] = {} BY <1>1, <2>1
    <3>2. <<>> \in Seq(Span) /\ Len(<<>>) = 0 BY EmptySeq
    <3> QED BY <1>0, <2>1, <3>1, <3>2
  <2>2. CASE ~dead[o]
    <3> DEFINE n == Min({room(o), Len(new)})
               sub == SubSeq(new, 1, n)
               more == dropped[o] \cup {new[i] : i \in {j \in DOMAIN new : j > n}}
    <3>1. queue[o] \in Seq(Span) /\ Len(queue[o]) \in Nat /\ Len(queue[o]) <= QueueSize
      BY <1>2, LenProperties
    <3>2. room(o) \in Nat /\ Len(queue[o]) + room(o) = QueueSize BY <1>0, <3>1 DEF room
    <3>3. n \in {room(o), Len(new)} /\ n <= room(o) /\ n <= Len(new) BY <1>3, <3>2 DEF Min
    <3> HIDE DEF n
    <3>4. \A j \in DOMAIN new : j > room(o) <=> j > n BY <1>3, <3>2, <3>3
    <3>5. dropped'[o] = more BY <1>1, <2>2, <3>4
    <3>6. sub \in Seq(Span) /\ Len(sub) = n
      <4>1. n \in Nat BY <1>3, <3>2, <3>3
      <4>2. \A i \in 1..n : new[i] \in Span
        <5>1. n <= Len(new) /\ Len(new) \in Nat /\ DOMAIN new = 1..Len(new) BY <1>3, <3>3
        <5>2. \A i \in 1..n : i \in DOMAIN new BY <4>1, <5>1
        <5> QED BY <1>3, <5>2
      <4>3. 1 \in Int /\ n \in Int BY <4>1
      <4>4. sub \in Seq(Span) /\ Len(sub) = IF 1 <= n THEN n - 1 + 1 ELSE 0 BY <4>2, <4>3, SubSeqProperties
      <4> HIDE DEF sub
      <4> QED BY <4>1, <4>4
    <3>7. queue'[o] = queue[o] \o sub BY <1>1, <2>2 DEF n
    <3>8. queue'[o] \in Seq(Span) /\ Len(queue'[o]) = Len(queue[o]) + Len(sub)
      <4> HIDE DEF sub
      <4> QED BY <3>1, <3>6, <3>7, ConcatProperties
    <3>9. more \in SUBSET Span BY <1>2, <1>3
    <3>10. \A x \in more : \E i \in DOMAIN ended' : ended'[i] = x BY <1>2, <1>4, <2>2
    <3>11. written[o] \in Seq(Span) /\ written[o] \o queue[o] \in Seq(Span)
      BY <1>2, <3>1, ConcatProperties
    <3>12. carries((written[o] \o queue[o]) \o sub, ended \o new, more)
      <4>1. n \in 0..Len(new) /\ dropped[o] \in SUBSET Span BY <1>2, <1>3, <3>2, <3>3
      <4>2. carries(written[o] \o queue[o], ended, dropped[o]) BY <1>2, <2>2
      <4>3. \A x \in dropped[o] : \E i \in DOMAIN ended : ended[i] = x BY <1>2, <2>2
      <4> DEFINE log == written[o] \o queue[o]
      <4>4. log \in Seq(Span) /\ carries(log, ended, dropped[o]) BY <3>11, <4>2
      <4>6. new \in Seq(Span) /\ ended \in Seq(Span) BY <1>1
      <4>7. more = dropped[o] \cup {new[i] : i \in {j \in DOMAIN new : j > n}} OBVIOUS
      <4> HIDE DEF log, more
      <4>5. carries(log \o sub, ended \o new, more) BY <1>5, <4>1, <4>3, <4>4, <4>6, <4>7, CarriesOn
      <4> QED BY <4>5 DEF log
    <3>13. (written[o] \o queue[o]) \o sub = written[o] \o (queue[o] \o sub)
      <4> DEFINE w == written[o]
                 q == queue[o]
      <4>1. w \in Seq(Span) /\ q \in Seq(Span) /\ sub \in Seq(Span) BY <3>1, <3>6, <3>11
      <4> HIDE DEF sub, w, q
      <4>2. (w \o q) \o sub = w \o (q \o sub) BY <4>1, ConcatAssociative
      <4> QED BY <4>2 DEF w, q
    <3>14. carries(written[o] \o queue'[o], ended', dropped'[o])
      <4> HIDE DEF sub, more
      <4> QED BY <1>1, <3>5, <3>7, <3>12, <3>13
    <3> HIDE DEF sub, more
    <3> QED BY <1>0, <1>3, <3>1, <3>2, <3>3, <3>5, <3>6, <3>8, <3>9, <3>10, <3>14
  <2> QED BY <2>1, <2>2
<1>7. queue' \in [Outputs -> Seq(Span)] /\ dropped' \in [Outputs -> SUBSET Span]
  <2>1. DOMAIN queue' = Outputs /\ queue' = [o \in Outputs |-> queue'[o]] BY <1>1
  <2>2. DOMAIN dropped' = Outputs /\ dropped' = [o \in Outputs |-> dropped'[o]] BY <1>1
  <2> QED BY <1>6, <2>1, <2>2
<1>8. \A o \in Outputs : ~dead'[o] => carries(written'[o] \o queue'[o], ended', dropped'[o])
  BY <1>6
<1>9. written' \in [Outputs -> Seq(Span)] /\ dead' \in [Outputs -> BOOLEAN] BY <1>2
<1> QED BY <1>6, <1>7, <1>8, <1>9 DEF Batched

LEMMA BatchedKept ==
  ASSUME Names, Handlers, Closing, Opened, Spanned, Batched, [Next]_vars
  PROVE  Batched'
<1>0. QueueSize \in Nat BY TraceAssumption
<1>1. /\ queue \in [Outputs -> Seq(Span)] /\ written \in [Outputs -> Seq(Span)]
      /\ dead \in [Outputs -> BOOLEAN] /\ dropped \in [Outputs -> SUBSET Span]
      /\ \A o \in Outputs : Len(queue[o]) <= QueueSize
      /\ \A o \in Outputs : ~dead[o] => \A x \in dropped[o] : \E i \in DOMAIN ended : ended[i] = x
      /\ \A o \in Outputs : ~dead[o] => carries(written[o] \o queue[o], ended, dropped[o])
  BY DEF Batched
<1>2. CASE UNCHANGED <<queue, written, dead, dropped, ended>>
  BY <1>2 DEF Batched
<1>3. ASSUME NEW r \in Requests, Client(r) \/ Arrive(r) PROVE UNCHANGED <<queue, written, dead, dropped, ended>>
  BY <1>3 DEF Client, Send, Receive, TimesOut, Unreachable, ReplayRefused, hostEnds, Arrive, exporter
<1>4. ASSUME NEW r \in Requests, Answer(r) PROVE Batched'
  <2>1. PICK answer \in answers(r) : answered(r, answer) /\ open' = open \ {r}
          /\ IF r \in open /\ ~stopped THEN pushed(<<finish(r, answer)>>) ELSE UNCHANGED <<queue, ended, dropped>>
    BY <1>4 DEF Answer
  <2>2. UNCHANGED <<dead, written>> BY <2>1 DEF answered
  <2>3. CASE r \in open /\ ~stopped
    <3> DEFINE new == <<finish(r, answer)>>
    <3>1. Ends(new) BY <2>1, <2>3, AnswerEnds
    <3> HIDE DEF new
    <3> QED BY <2>2, <3>1, PushedIsBatched
  <2>4. CASE ~(r \in open /\ ~stopped) BY <1>2, <2>1, <2>2, <2>4
  <2> QED BY <2>3, <2>4
<1>5. ASSUME NEW s \in Signals, Shutdown(s) PROVE Batched'
  <2>1. PICK new : Ends(new) BY <1>5, ShutdownEnds
  <2>2. UNCHANGED <<dead, written>> BY <1>5 DEF Shutdown
  <2> QED BY <2>1, <2>2, PushedIsBatched
<1>6. ASSUME NEW s \in Signals, Signal(s) \/ ShutdownJoin(s) \/ Exit(s)
      PROVE  UNCHANGED <<queue, written, dead, dropped, ended>>
  BY <1>6 DEF Signal, ShutdownJoin, Exit, exporter
<1>7. ASSUME Flushed \/ Tick PROVE UNCHANGED <<queue, written, dead, dropped, ended>>
  BY <1>7 DEF Flushed, Tick, exporter
<1>8. ASSUME UNCHANGED vars PROVE UNCHANGED <<queue, written, dead, dropped, ended>>
  BY <1>8 DEF vars, exporter
<1>9. ASSUME NEW o \in Outputs, Output(o) PROVE Batched'
  <2>1. ended' = ended /\ queue' = [queue EXCEPT ![o] = <<>>] BY <1>9 DEF Output, Write, Fail, Abandon, exports, output
  <2>2. <<>> \in Seq(Span) /\ Len(<<>>) = 0 BY EmptySeq
  <2>3. queue[o] \in Seq(Span) /\ written[o] \in Seq(Span) /\ ended \in Seq(Span) /\ dropped[o] \in SUBSET Span
    BY <1>1 DEF Spanned
  <2>4. queue' \in [Outputs -> Seq(Span)] /\ \A p \in Outputs : queue'[p] = IF p = o THEN <<>> ELSE queue[p]
    BY <1>1, <2>1, <2>2
  <2>5. \A p \in Outputs : Len(queue'[p]) <= QueueSize BY <1>0, <1>1, <2>2, <2>4
  <2>6. CASE Write(o)
    <3>1. written' = [written EXCEPT ![o] = written[o] \o queue[o]] /\ UNCHANGED <<dead, dropped>> BY <2>6 DEF Write
    <3>2. written[o] \o queue[o] \in Seq(Span) /\ (written[o] \o queue[o]) \o <<>> = written[o] \o queue[o]
      BY <2>3, ConcatProperties, ConcatEmptySeq
    <3>3. written' \in [Outputs -> Seq(Span)]
          /\ \A p \in Outputs : written'[p] = IF p = o THEN written[o] \o queue[o] ELSE written[p]
      BY <1>1, <3>1, <3>2
    <3>4. \A p \in Outputs : written'[p] \o queue'[p] = written[p] \o queue[p]
      BY <2>4, <3>2, <3>3
    <3>5. \A p \in Outputs : ~dead'[p] => carries(written'[p] \o queue'[p], ended', dropped'[p])
      BY <1>1, <2>1, <3>1, <3>4
    <3> QED BY <1>1, <2>1, <2>4, <2>5, <3>1, <3>3, <3>5 DEF Batched
  <2>7. CASE Fail(o)
    <3>1. dead' = [dead EXCEPT ![o] = TRUE] /\ UNCHANGED <<written, dropped>> BY <2>7 DEF Fail
    <3>2. dead' \in [Outputs -> BOOLEAN] /\ \A p \in Outputs : ~dead'[p] => ~dead[p] /\ p # o
      BY <1>1, <3>1
    <3>3. \A p \in Outputs : ~dead'[p] => carries(written'[p] \o queue'[p], ended', dropped'[p])
      BY <1>1, <2>1, <2>4, <3>1, <3>2
    <3> QED BY <1>1, <2>1, <2>4, <2>5, <3>1, <3>2, <3>3 DEF Batched
  <2>8. CASE Abandon(o)
    <3>1. dropped' = [dropped EXCEPT ![o] = dropped[o] \cup ToSet(queue[o])] /\ UNCHANGED <<dead, written>>
      BY <2>8 DEF Abandon
    <3>2. written[o] \o <<>> = written[o] BY <2>3, ConcatEmptySeq
    <3>3. ~dead[o] => carries(written[o], ended, dropped[o] \cup ToSet(queue[o]))
      BY <1>1, <2>3, CarriesLess
    <3>4. \A x \in ToSet(queue[o]) : \E k \in DOMAIN queue[o] : queue[o][k] = x BY DEF ToSet
    <3>5. ToSet(queue[o]) \subseteq Span
      <4>1. \A k \in DOMAIN queue[o] : queue[o][k] \in Span BY <2>3, LenProperties, ElementOfSeq
      <4> QED BY <3>4, <4>1
    <3>6. dropped' \in [Outputs -> SUBSET Span]
          /\ \A p \in Outputs : dropped'[p] = IF p = o THEN dropped[o] \cup ToSet(queue[o]) ELSE dropped[p]
      BY <1>1, <3>1, <3>5
    <3>7. \A p \in Outputs : ~dead'[p] => carries(written'[p] \o queue'[p], ended', dropped'[p])
      <4>1. ASSUME NEW p \in Outputs, ~dead'[p] PROVE carries(written'[p] \o queue'[p], ended', dropped'[p])
        <5>1. CASE p = o BY <2>1, <2>4, <3>1, <3>2, <3>3, <3>6, <4>1, <5>1
        <5>2. CASE p # o BY <1>1, <2>1, <2>4, <3>1, <3>6, <4>1, <5>2
        <5> QED BY <5>1, <5>2
      <4> QED BY <4>1
    <3>8. ASSUME NEW p \in Outputs, ~dead[p], NEW x \in dropped'[p] PROVE \E i \in DOMAIN ended' : ended'[i] = x
      <4>1. CASE x \in dropped[p] BY <1>1, <2>1, <3>8, <4>1
      <4>2. CASE p = o /\ x \in ToSet(queue[o])
        <5>1. PICK k \in DOMAIN queue[o] : queue[o][k] = x BY <3>4, <4>2
        <5>2. Len(written[o]) + k \in DOMAIN (written[o] \o queue[o])
              /\ (written[o] \o queue[o])[Len(written[o]) + k] = x
          <6> DEFINE w == written[o]
                     q == queue[o]
          <6>1. w \in Seq(Span) /\ q \in Seq(Span) /\ k \in DOMAIN q /\ q[k] = x BY <2>3, <5>1
          <6> HIDE DEF w, q
          <6>2. Len(w) + k \in DOMAIN (w \o q) /\ (w \o q)[Len(w) + k] = x BY <6>1, Appended
          <6> QED BY <6>2 DEF w, q
        <5> QED BY <1>1, <2>1, <3>8, <4>2, <5>2 DEF carries
      <4> QED BY <3>6, <3>8, <4>1, <4>2
    <3> QED BY <1>1, <2>1, <2>4, <2>5, <3>1, <3>6, <3>7, <3>8 DEF Batched
  <2> QED BY <1>9, <2>6, <2>7, <2>8 DEF Output
<1> QED BY <1>2, <1>3, <1>4, <1>5, <1>6, <1>7, <1>8, <1>9 DEF Next, Close

\* Nothing is queued once the exporter has stopped.
LEMMA DrainedKept ==
  ASSUME Closing, Batched, Drained, [Next]_vars
  PROVE  Drained'
<1>1. CASE UNCHANGED <<shutdown, queue>> BY <1>1 DEF Drained
<1>2. ASSUME NEW r \in Requests, Client(r) \/ Arrive(r) PROVE UNCHANGED <<shutdown, queue>>
  BY <1>2 DEF Client, Send, Receive, TimesOut, Unreachable, ReplayRefused, hostEnds, Arrive, exporter, process
<1>3. ASSUME NEW r \in Requests, Answer(r) PROVE Drained'
  <2>1. shutdown' = shutdown /\ (stopped => queue' = queue) BY <1>3 DEF Answer, answered, process
  <2> QED BY <2>1 DEF Closing, Drained
<1>4. ASSUME NEW o \in Outputs, Output(o) PROVE Drained'
  <2>1. queue' = [queue EXCEPT ![o] = <<>>] /\ (shutdown' = "done" => shutdown = "done")
    BY <1>4 DEF Output, Write, Fail, Abandon, exports, output
  <2>2. \A p \in Outputs : queue'[p] = IF p = o THEN <<>> ELSE queue[p] BY <2>1 DEF Batched
  <2> QED BY <2>1, <2>2 DEF Drained
<1>5. ASSUME NEW s \in Signals, Shutdown(s) PROVE Drained' BY <1>5 DEF Shutdown, Drained
<1>6. ASSUME NEW s \in Signals, Signal(s) \/ ShutdownJoin(s) \/ Exit(s) PROVE UNCHANGED <<shutdown, queue>>
  BY <1>6 DEF Signal, ShutdownJoin, Exit, exporter
<1>7. CASE Flushed BY <1>7 DEF Flushed, Drained, exporter
<1>8. CASE Tick BY <1>1, <1>8 DEF Tick, exporter
<1>9. CASE UNCHANGED vars BY <1>1, <1>9 DEF vars, exporter, process
<1> QED BY <1>1, <1>2, <1>3, <1>4, <1>5, <1>6, <1>7, <1>8, <1>9 DEF Next, Close

-----------------------------------------------------------------------------
(* The invariant. *)

LEMMA TraceInit == Init => TraceInv
<1> SUFFICES ASSUME Init PROVE TraceInv
  OBVIOUS
<1>0. Timeout \in Nat /\ QueueSize \in Nat /\ None \notin Requests \cup {"decision", "error"} BY TraceAssumption
<1>1. PICK scenario \in Scenarios :
        /\ kind \in [Requests -> Kinds] /\ pair \in [Requests -> Requests] /\ kind[Genuine] = "step"
        /\ \A r \in Requests : pair[r] = IF kind[r] \in {"step", "other"} THEN r ELSE Genuine
        /\ host = [r \in Requests |-> IF r \in scenario.requests THEN "idle" ELSE "absent"]
        /\ dead = [o \in Outputs |-> o \notin scenario.outputs]
        /\ sig = [s \in Signals |-> IF s \in scenario.signals THEN "none" ELSE "absent"]
  BY DEF Init
<1>2. /\ waited = [r \in Requests |-> 0] /\ audit = {Ungoverned}
      /\ handler = [r \in Requests |-> "none"] /\ elapsed = [r \in Requests |-> 0]
      /\ response = [r \in Requests |-> None] /\ open = {} /\ stopped = FALSE
      /\ queue = [o \in Outputs |-> <<>>] /\ written = queue /\ closing = [s \in Signals |-> 0]
      /\ shutdown = "none" /\ exited = FALSE
      /\ ended = <<>> /\ dropped = [o \in Outputs |-> {}]
  BY DEF Init, Ungoverned
<1>3. Names BY <1>1 DEF Names
<1>4. Hosts
  <2>1. host \in [Requests -> {"absent", "idle", "asking", "honoured"} \cup Failures] BY <1>1
  <2> QED BY <1>0, <1>2, <2>1 DEF Hosts
<1>5. Handlers BY <1>0, <1>2 DEF Handlers
<1>6. Closing
  <2>1. sig \in [Signals -> {"absent", "none", "draining", "flushing", "gone"}] BY <1>1
  <2>2. closing \in [Signals -> 0..Timeout] BY <1>0, <1>2
  <2> QED BY <1>2, <2>1, <2>2 DEF Closing
<1>7. Opened BY <1>2, FS_EmptySet DEF Opened
<1>8. <<>> \in Seq(Span) /\ Len(<<>>) = 0 /\ DOMAIN <<>> = {}
  <2>1. <<>> \in Seq(Span) /\ Len(<<>>) = 0 BY EmptySeq
  <2>2. DOMAIN <<>> = 1..Len(<<>>) BY <2>1, LenProperties
  <2> QED BY <2>1, <2>2
<1>9. Spanned BY <1>2, <1>8 DEF Spanned
<1>10. Honoured
  <2>1. \A r \in Requests : response[r] # "decision" /\ host[r] # "honoured" BY <1>0, <1>1, <1>2
  <2> QED BY <2>1 DEF Honoured
<1>11. Audited
  <2>1. \A r \in Requests : host[r] \notin Failures BY <1>1 DEF Failures
  <2> QED BY <1>2, <2>1 DEF Audited, Ungoverned
<1>12. Batched
  <2>1. dead \in [Outputs -> BOOLEAN] BY <1>1
  <2>2. \A o \in Outputs : written[o] \o queue[o] = <<>> BY <1>2, <1>8, ConcatEmptySeq
  <2>3. carries(<<>>, <<>>, {}) BY <1>8 DEF carries
  <2>4. \A o \in Outputs : carries(written[o] \o queue[o], ended, dropped[o]) BY <1>2, <2>2, <2>3
  <2> QED BY <1>0, <1>2, <1>8, <2>1, <2>4 DEF Batched
<1>13. Drained BY <1>2 DEF Drained
<1> QED BY <1>3, <1>4, <1>5, <1>6, <1>7, <1>9, <1>10, <1>11, <1>12, <1>13 DEF TraceInv

LEMMA TraceStep == TraceInv /\ [Next]_vars => TraceInv'
BY NamesKept, TimersKept, ClosingKept, OpenedKept, SpannedKept, HonouredKept, AuditedKept, BatchedKept, DrainedKept
   DEF TraceInv

LEMMA TraceInvHolds == Spec => []TraceInv
BY TraceInit, TraceStep, PTL DEF Spec

(* A span is open exactly while its handler is and the exporter runs, each  *)
(* timer stays within its limit, each queue within its size, and a request  *)
(* has one span at most (openSpans, start, end, shutdown).                  *)
THEOREM TraceTypeOKHolds == Spec => []TraceTypeOK
<1>1. TraceInv => TraceTypeOK
  <2> SUFFICES ASSUME TraceInv PROVE TraceTypeOK
    OBVIOUS
  <2>1. \A r \in Requests : Cardinality(spansOf(r)) <= 1
    <3> SUFFICES ASSUME NEW r \in Requests PROVE Cardinality(spansOf(r)) <= 1
      OBVIOUS
    <3>1. \A i, j \in spansOf(r) : i = j BY DEF TraceInv, Spanned, spansOf
    <3>2. CASE spansOf(r) = {} BY <3>2, FS_EmptySet
    <3>3. ASSUME NEW i \in spansOf(r) PROVE Cardinality(spansOf(r)) <= 1
      <4>1. spansOf(r) = {i} BY <3>1, <3>3
      <4>2. Cardinality({i}) = 1 BY FS_Singleton
      <4> HIDE DEF spansOf
      <4> QED BY <4>1, <4>2
    <3> QED BY <3>2, <3>3
  <2>2. \A s \in Signals : closing[s] \in 0..Timeout BY DEF TraceInv, Closing
  <2>3. \A o \in Outputs : Len(queue[o]) <= QueueSize BY DEF TraceInv, Batched
  <2>4. \A r \in Requests : waited[r] \in 0..Timeout /\ elapsed[r] \in 0..(Timeout + 1)
    BY DEF TraceInv, Hosts, Handlers
  <2> QED BY <2>1, <2>2, <2>3, <2>4 DEF TraceInv, TraceTypeOK, Hosts, Opened
<1> QED BY <1>1, TraceInvHolds, PTL

\* What either file records as failed is a step its host did not act on.
LEMMA FailedWasNotHonoured ==
  ASSUME TraceInv, NEW r \in Requests, kind[r] = "step", host[r] = "honoured"
  PROVE  r \notin failedPairs
<1>1. r # None BY TraceAssumption
<1>2. ASSUME NEW i \in DOMAIN ended, ended[i].pair = r,
             NEW e \in ended[i].events, e.event = "acs.decision.failure"
      PROVE  FALSE
  <2>1. ended[i].of = r BY <1>1, <1>2 DEF TraceInv, Spanned
  <2>2. PICK j \in DOMAIN ended : ended[j].of = r /\ ended[j].events = {Decided} BY DEF TraceInv, Honoured
  <2>3. i = j BY <2>1, <2>2 DEF TraceInv, Spanned
  <2> QED BY <1>2, <2>2, <2>3 DEF Decided
<1>3. ASSUME NEW e \in audit, e.outcome = "posture", ~e.replay, e.pair = r PROVE FALSE
  BY <1>3 DEF TraceInv, Audited, Failures
<1> QED BY <1>2, <1>3 DEF failedPairs, convertAuditLog

(* The two files never contradict what the host did: the ACS ids of a step  *)
(* are on its own span only, a failure is under them only if the host did   *)
(* not act on the decision, and if it did its span says decided and no more *)
(* (begin, finish, shutdown, convertAuditLog).                              *)
THEOREM TraceAgreesHolds == Spec => []TraceAgreesWithTheHost
<1>1. TraceInv => TraceAgreesWithTheHost
  <2> SUFFICES ASSUME TraceInv PROVE TraceAgreesWithTheHost
    OBVIOUS
  <2>1. ASSUME NEW i \in DOMAIN ended, ended[i].pair # None
        PROVE  kind[ended[i].pair] = "step" /\ ended[i].of = ended[i].pair
    BY <2>1 DEF TraceInv, Spanned
  <2>2. ASSUME NEW r \in Requests, kind[r] = "step", host[r] = "honoured"
        PROVE  r \notin failedPairs /\ \E i \in spansOf(r) : ended[i].events = {Decided}
    <3>1. r \notin failedPairs BY <2>2, FailedWasNotHonoured
    <3> QED BY <2>2, <3>1 DEF TraceInv, Honoured, spansOf
  <2> QED BY <2>1, <2>2 DEF TraceAgreesWithTheHost
<1> QED BY <1>1, TraceInvHolds, PTL

(* Once the process has exited, unless its flush failed or took too long,   *)
(* every step it took is in every output that had not failed, once and in   *)
(* the order of their ends, but for what a full queue or a stalled export   *)
(* dropped; and no step its host took undecided looks decided to the reader *)
(* of both files (shutdown, isolated, createFileSpanExporter).              *)
THEOREM NothingIsLostHolds == Spec => []NothingIsLostAtExit
<1>1. TraceInv => NothingIsLostAtExit
  <2> SUFFICES ASSUME TraceInv, exited, shutdown \notin {"timeout", "failed"}
               PROVE  /\ \A o \in Outputs : ~dead[o] => carries(written[o], ended, dropped[o])
                      /\ \A r \in Requests : kind[r] = "step" /\ handler[r] # "none" =>
                           /\ \E i \in spansOf(r) : ended[i].events # {}
                           /\ host[r] \in Failures => r \in failedPairs
    BY DEF NothingIsLostAtExit
  <2>1. shutdown = "done" /\ stopped BY DEF TraceInv, Closing
  <2>2. open = {} BY <2>1 DEF TraceInv, Opened
  <2>3. ASSUME NEW o \in Outputs, ~dead[o] PROVE carries(written[o], ended, dropped[o])
    <3>1. queue[o] = <<>> BY <2>1 DEF TraceInv, Drained
    <3>2. written[o] \in Seq(Span) BY DEF TraceInv, Batched
    <3>3. written[o] \o queue[o] = written[o] BY <3>1, <3>2, ConcatEmptySeq
    <3>4. carries(written[o] \o queue[o], ended, dropped[o]) BY <2>3 DEF TraceInv, Batched
    <3> QED BY <3>3, <3>4
  <2>4. ASSUME NEW r \in Requests, kind[r] = "step", handler[r] # "none"
        PROVE  \E i \in spansOf(r) : ended[i].events # {}
    <3>1. recorded(r) BY <2>4 DEF recorded
    <3>2. PICK i \in DOMAIN ended : ended[i].of = r BY <2>2, <2>4, <3>1 DEF TraceInv, Spanned
    <3>3. ended[i].events # {} BY <2>4, <3>2 DEF TraceInv, Spanned
    <3> QED BY <3>2, <3>3 DEF spansOf
  <2>5. ASSUME NEW r \in Requests, kind[r] = "step", host[r] \in Failures PROVE r \in failedPairs
    <3> DEFINE e == entry(r, host[r])
    <3>1. e \in audit BY <2>5 DEF TraceInv, Audited
    <3>2. e.outcome = "posture" /\ ~e.replay /\ e.pair = r BY DEF entry
    <3> HIDE DEF e
    <3>3. [pair |-> e.pair, class |-> FAILURE_CLASS_BY_KIND[e.kind]] \in convertAuditLog(audit)
      BY <3>1, <3>2 DEF convertAuditLog
    <3>4. [pair |-> e.pair, class |-> FAILURE_CLASS_BY_KIND[e.kind]].pair = r BY <3>2
    <3> QED BY <3>3, <3>4 DEF failedPairs
  <2> QED BY <2>3, <2>4, <2>5
<1> QED BY <1>1, TraceInvHolds, PTL
=============================================================================
