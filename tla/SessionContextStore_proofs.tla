--------------------- MODULE SessionContextStore_proofs ---------------------
(***************************************************************************)
(* Proofs about SessionContextStore, for every set of sessions, every cap  *)
(* and every bound.                                                        *)
(***************************************************************************)
EXTENDS SessionContextStore, FiniteSetTheorems, TLAPS

\* The id sets of one session state are what its chain says.
IdsAgree(st) ==
  LET chain == st.entries
      ids(rows) == {chain[i].step.request_id : i \in rows}
  IN /\ st.requestIds = ids(1..Len(chain))
     /\ st.toolCallRequestIds =
          ids({i \in 1..Len(chain) : chain[i].step.method = TOOL_CALL_REQUEST})

\* A state a session s may be stored in.
GoodState(s, st) == st \in SessionState /\ EntireChain(s, st.entries) /\ IdsAgree(st)

Recent(q, when) == \A i, j \in 1..Len(q) : i < j => when[q[i]] < when[q[j]]

\* The inductive invariant: what is retained is good, and the order is the
\* order of last writes, none of which is in the future.
OrderInv ==
  /\ order \in Seq(Sessions)
  /\ Elems(order) = Retained
  /\ Recent(order, lastWrite)
  /\ Len(order) <= MaxSessions
  /\ \A s \in Sessions : lastWrite[s] <= writes

IInv ==
  /\ StoreTypeOK
  /\ OrderInv
  /\ \A s \in Retained : GoodState(s, sessions[s])

-----------------------------------------------------------------------------
(* The order. *)

\* Deleting an id from an order without repetitions leaves the others, in order.
LEMMA WithoutOrder ==
  ASSUME NEW q \in Seq(Sessions), NEW s \in Sessions,
         NEW when \in [Sessions -> Nat], Recent(q, when)
  PROVE  /\ Without(q, s) \in Seq(Sessions)
         /\ Elems(Without(q, s)) = Elems(q) \ {s}
         /\ Recent(Without(q, s), when)
         /\ Len(Without(q, s)) = IF s \in Elems(q) THEN Len(q) - 1 ELSE Len(q)
<1>1. CASE s \notin Elems(q)
  BY <1>1 DEF Without, Elems
<1>2. CASE s \in Elems(q)
  <2> DEFINE k == CHOOSE i \in 1..Len(q) : q[i] = s
             w == [i \in 1..(Len(q) - 1) |-> IF i < k THEN q[i] ELSE q[i + 1]]
  <2>1. k \in 1..Len(q) /\ q[k] = s
    BY <1>2 DEF Elems
  <2>2. Without(q, s) = w
    BY <1>2 DEF Without, k
  <2>3. Len(q) \in Nat /\ \A i \in 1..Len(q) : q[i] \in Sessions
    OBVIOUS
  <2> HIDE DEF k
  <2>4. /\ w \in Seq(Sessions) /\ Len(w) = Len(q) - 1
        /\ \A i \in 1..Len(w) : w[i] = IF i < k THEN q[i] ELSE q[i + 1]
    <3>1. \A i \in 1..(Len(q) - 1) : (IF i < k THEN q[i] ELSE q[i + 1]) \in Sessions
      BY <2>1, <2>3
    <3> QED BY <2>1, <2>3, <3>1
  <2> HIDE DEF w
  <2>5. \A i, j \in 1..Len(q) : i # j => q[i] # q[j]
    BY <2>3 DEF Recent
  <2>6. Elems(w) = Elems(q) \ {s}
    <3>1. ASSUME NEW i \in 1..Len(w) PROVE w[i] \in Elems(q) \ {s}
      <4>1. PICK j \in 1..Len(q) : j # k /\ w[i] = q[j]
        BY <2>1, <2>3, <2>4
      <4> QED BY <2>1, <2>5, <4>1 DEF Elems
    <3>2. ASSUME NEW t \in Elems(q) \ {s} PROVE \E i \in 1..Len(w) : w[i] = t
      <4>1. PICK i \in 1..Len(q) : q[i] = t
        BY DEF Elems
      <4>2. i # k
        BY <2>1, <4>1
      <4>3. CASE i < k
        <5>1. i \in 1..Len(w)
          BY <2>1, <2>3, <2>4, <4>3
        <5>2. w[i] = q[i]
          BY <2>4, <4>3, <5>1
        <5> QED BY <5>1, <5>2, <4>1
      <4>4. CASE i > k
        <5>1. i - 1 \in 1..Len(w) /\ w[i - 1] = q[i]
          BY <2>1, <2>3, <2>4, <4>4
        <5> QED BY <5>1, <4>1
      <4> QED BY <2>1, <4>2, <4>3, <4>4
    <3> QED BY <3>1, <3>2 DEF Elems
  <2>7. Recent(w, when)
    <3> SUFFICES ASSUME NEW i \in 1..Len(w), NEW j \in 1..Len(w), i < j
                 PROVE  when[w[i]] < when[w[j]]
      BY DEF Recent
    <3> DEFINE a == IF i < k THEN i ELSE i + 1
               b == IF j < k THEN j ELSE j + 1
    <3>1. a \in 1..Len(q) /\ b \in 1..Len(q) /\ a < b
      <4>1. i \in Nat /\ j \in Nat /\ k \in Nat /\ 1 <= i /\ j <= Len(q) - 1
        BY <2>1, <2>3, <2>4
      <4>2. a \in Nat /\ b \in Nat /\ 1 <= a /\ 1 <= b /\ a <= Len(q) /\ b <= Len(q)
        BY <2>3, <4>1
      <4>3. a < b
        BY <4>1
      <4> QED BY <2>3, <4>2, <4>3
    <3>2. w[i] = q[a] /\ w[j] = q[b]
      BY <2>4
    <3> QED BY <3>1, <3>2 DEF Recent
  <2> QED BY <2>2, <2>4, <2>6, <2>7, <1>2 DEF w
<1> QED BY <1>1, <1>2

\* Evicting to the cap keeps a suffix of the order: the newest ids.
LEMMA EvictKeepsSuffix ==
  ASSUME NEW q \in Seq(Sessions), NEW when \in [Sessions -> Nat], Recent(q, when)
  PROVE  /\ evictToCap(q) \in Seq(Sessions)
         /\ Elems(evictToCap(q)) \subseteq Elems(q)
         /\ Recent(evictToCap(q), when)
         /\ Len(evictToCap(q)) <= MaxSessions
         /\ Len(q) > 0 => q[Len(q)] \in Elems(evictToCap(q))
         /\ \A s \in Elems(q) \ Elems(evictToCap(q)) :
              \A t \in Elems(evictToCap(q)) : when[s] < when[t]
<1>1. CASE Len(q) <= MaxSessions
  BY <1>1, CapAssumption DEF evictToCap, Elems
<1>2. CASE Len(q) > MaxSessions
  <2> DEFINE d == Len(q) - MaxSessions
             e == SubSeq(q, d + 1, Len(q))
  <2>1. evictToCap(q) = e
    BY <1>2 DEF evictToCap
  <2>2. d \in 1..(Len(q) - 1)
    BY <1>2, CapAssumption
  <2> HIDE DEF d
  <2>3. /\ e \in Seq(Sessions)
        /\ Len(e) = Len(q) - d
        /\ \A i \in 1..Len(e) : e[i] = q[i + d]
    BY <2>2
  <2>4. Len(e) = MaxSessions
    BY <2>3, CapAssumption DEF d
  <2> HIDE DEF e
  <2>5. \A i \in 1..Len(q) : i > d => q[i] \in Elems(e)
    <3> SUFFICES ASSUME NEW i \in 1..Len(q), i > d PROVE q[i] \in Elems(e)
      OBVIOUS
    <3>1. i - d \in 1..Len(e) /\ e[i - d] = q[i]
      BY <2>2, <2>3
    <3> QED BY <3>1 DEF Elems
  <2>6. Elems(e) \subseteq Elems(q)
    <3> SUFFICES ASSUME NEW i \in 1..Len(e) PROVE e[i] \in Elems(q)
      BY DEF Elems
    <3>1. i + d \in 1..Len(q) /\ e[i] = q[i + d]
      BY <2>2, <2>3
    <3> QED BY <3>1 DEF Elems
  <2>7. Recent(e, when)
    <3> SUFFICES ASSUME NEW i \in 1..Len(e), NEW j \in 1..Len(e), i < j
                 PROVE  when[e[i]] < when[e[j]]
      BY DEF Recent
    <3>1. i + d \in 1..Len(q) /\ j + d \in 1..Len(q) /\ i + d < j + d
      BY <2>2, <2>3
    <3>2. e[i] = q[i + d] /\ e[j] = q[j + d]
      BY <2>3
    <3> QED BY <3>1, <3>2 DEF Recent
  <2>8. ASSUME NEW s \in Elems(q) \ Elems(e), NEW t \in Elems(e)
        PROVE  when[s] < when[t]
    <3>1. PICK i \in 1..Len(q) : q[i] = s
      BY DEF Elems
    <3>2. PICK j \in 1..Len(e) : e[j] = t
      BY DEF Elems
    <3>3. i <= d
      BY <2>2, <2>5, <3>1
    <3>4. j + d \in 1..Len(q) /\ i < j + d /\ q[j + d] = t
      BY <2>2, <2>3, <3>2, <3>3
    <3> QED BY <3>1, <3>4 DEF Recent
  <2>9. q[Len(q)] \in Elems(e)
    BY <2>2, <2>5
  <2> QED BY <2>1, <2>3, <2>4, <2>6, <2>7, <2>8, <2>9, CapAssumption
<1> QED BY <1>1, <1>2, CapAssumption

\* What ensure leaves: an order over the retained sessions and s, within the
\* cap, by last write once s has just been written, s among its ids, and every
\* id that is gone written before every id that stays.
LEMMA EnsureOrder ==
  ASSUME StoreTypeOK, OrderInv, NEW s \in Sessions,
         NEW when, when = [lastWrite EXCEPT ![s] = writes + 1]
  PROVE  /\ ensure(s) \in Seq(Sessions)
         /\ Elems(ensure(s)) \subseteq Retained \cup {s}
         /\ s \in Elems(ensure(s))
         /\ Len(ensure(s)) <= MaxSessions
         /\ Recent(ensure(s), when)
         /\ \A x \in Retained \ Elems(ensure(s)) :
              \A t \in Elems(ensure(s)) : lastWrite[x] < when[t]
<1> DEFINE w == Without(order, s)
           q == Append(w, s)
<1>1. lastWrite \in [Sessions -> Nat] /\ writes \in Nat /\ order \in Seq(Sessions)
  BY BoundsAssumption DEF StoreTypeOK
<1>2. /\ w \in Seq(Sessions)
      /\ Elems(w) = Retained \ {s}
      /\ Recent(w, lastWrite)
  BY <1>1, WithoutOrder DEF OrderInv
<1> HIDE DEF w
<1>2a. \A i \in 1..Len(w) : w[i] \in Elems(w)
  BY DEF Elems
<1>3. when \in [Sessions -> Nat]
  BY <1>1
<1>4. /\ q \in Seq(Sessions) /\ Len(q) = Len(w) + 1 /\ q[Len(q)] = s
      /\ \A i \in 1..Len(w) : q[i] = w[i]
  BY <1>2
<1>5. Elems(q) = Retained \cup {s}
  <2>1. ASSUME NEW i \in 1..Len(q) PROVE q[i] \in Retained \cup {s}
    <3>1. CASE i = Len(q)
      BY <1>4, <3>1
    <3>2. CASE i # Len(q)
      BY <1>2, <1>4, <3>2 DEF Elems
    <3> QED BY <3>1, <3>2
  <2>2. ASSUME NEW t \in Retained \cup {s} PROVE \E i \in 1..Len(q) : q[i] = t
    <3>1. CASE t = s
      BY <1>2, <1>4, <3>1
    <3>2. CASE t # s
      <4>1. PICK i \in 1..Len(w) : w[i] = t
        BY <1>2, <3>2 DEF Elems
      <4> QED BY <1>2, <1>4, <4>1
    <3> QED BY <3>1, <3>2
  <2> QED BY <2>1, <2>2 DEF Elems
<1>6. Recent(q, when)
  <2> SUFFICES ASSUME NEW i \in 1..Len(q), NEW j \in 1..Len(q), i < j
               PROVE  when[q[i]] < when[q[j]]
    BY DEF Recent
  <2>0. i \in 1..Len(w)
    BY <1>2, <1>4
  <2>1. i \in 1..Len(w) /\ q[i] = w[i] /\ w[i] \in Sessions /\ w[i] # s
    BY <1>2, <1>4, <1>2a, <2>0 DEF StoreTypeOK
  <2>2. when[q[i]] = lastWrite[w[i]]
    BY <2>1, <1>1
  <2>3. CASE j = Len(q)
    BY <2>1, <2>2, <2>3, <1>1, <1>4 DEF OrderInv
  <2>4. CASE j # Len(q)
    <3>0. j \in 1..Len(w)
      BY <2>4, <1>2, <1>4
    <3>1. j \in 1..Len(w) /\ q[j] = w[j] /\ w[j] \in Sessions /\ w[j] # s
      BY <3>0, <1>2, <1>2a, <1>4 DEF StoreTypeOK
    <3> QED BY <3>1, <2>1, <2>2, <1>1, <1>2 DEF Recent
  <2> QED BY <2>3, <2>4
<1> HIDE DEF q
<1>7. ensure(s) = evictToCap(q)
  BY DEF ensure, q, w
<1>8. /\ ensure(s) \in Seq(Sessions)
      /\ Elems(ensure(s)) \subseteq Elems(q)
      /\ Recent(ensure(s), when)
      /\ Len(ensure(s)) <= MaxSessions
      /\ Len(q) > 0 => q[Len(q)] \in Elems(ensure(s))
      /\ \A x \in Elems(q) \ Elems(ensure(s)) : \A t \in Elems(ensure(s)) : when[x] < when[t]
  <2> DEFINE e == evictToCap(q)
  <2>1. /\ e \in Seq(Sessions)
        /\ Elems(e) \subseteq Elems(q)
        /\ Recent(e, when)
        /\ Len(e) <= MaxSessions
        /\ Len(q) > 0 => q[Len(q)] \in Elems(e)
        /\ \A x \in Elems(q) \ Elems(e) : \A t \in Elems(e) : when[x] < when[t]
    BY <1>3, <1>4, <1>6, EvictKeepsSuffix
  <2> HIDE DEF e
  <2>2. ensure(s) = e
    BY <1>7 DEF e
  <2> QED BY <2>1, <2>2
<1>9. s \in Elems(ensure(s))
  BY <1>2, <1>4, <1>8
<1>10. ASSUME NEW x \in Retained \ Elems(ensure(s)), NEW t \in Elems(ensure(s))
       PROVE  lastWrite[x] < when[t]
  <2>1. when[x] < when[t]
    BY <1>5, <1>8
  <2>2. x # s /\ x \in Sessions
    BY <1>9 DEF StoreTypeOK
  <2> QED BY <2>1, <2>2, <1>1
<1> QED BY <1>5, <1>8, <1>9, <1>10

-----------------------------------------------------------------------------
(* One session's state. *)

\* A session at birth is good.
LEMMA EmptyIsGood == \A s \in Sessions : GoodState(s, emptySessionState)
BY LabelsAssumption
   DEF GoodState, EntireChain, IdsAgree, emptySessionState, SessionState

\* What read answers is good.
LEMMA ReadIsGood == IInv => \A s \in Sessions : GoodState(s, read(s))
BY EmptyIsGood DEF IInv, read

\* The entry append builds is an entry, and it extends the chain.
LEMMA NextEntryExtends ==
  ASSUME NEW s \in Sessions, NEW st, GoodState(s, st), NEW step \in SessionStep
  PROVE  LET e == nextEntry(st, s, step)
             n == Len(st.entries)
         IN /\ e \in SessionContextEntry
            /\ e.session_id = s
            /\ e.seq = n + 1
            /\ e.step = step
            /\ e.prev_hash = IF n = 0 THEN GENESIS_HASH ELSE st.entries[n].hash
            /\ e.hash = hashEntry(e.prev_hash, s, n + 1, step)
<1> DEFINE n == Len(st.entries)
           prev == IF n = 0 THEN GENESIS_HASH ELSE st.entries[n].hash
           e == [session_id |-> s, seq |-> n + 1, step |-> step,
                 prev_hash |-> prev, hash |-> hashEntry(prev, s, n + 1, step)]
<1>1. n \in Nat /\ st.entries \in Seq(SessionContextEntry)
  BY DEF GoodState, SessionState
<1>2. n # 0 => st.entries[n] \in SessionContextEntry /\ st.entries[n].seq = n
  BY <1>1 DEF GoodState, EntireChain
<1>3. nextEntry(st, s, step) = e
  BY <1>1, <1>2 DEF nextEntry
<1>4. prev \in Hash
  BY <1>2 DEF SessionContextEntry, Hash, GENESIS_HASH
<1>5. hashEntry(prev, s, n + 1, step) \in Hash
  <2>1. [session_id |-> s, seq |-> n + 1, step |-> step] \in Fact
    BY <1>1 DEF Fact
  <2> QED BY <1>4, <2>1 DEF hashEntry, Hash
<1>6. e \in SessionContextEntry
  BY <1>1, <1>4, <1>5 DEF SessionContextEntry
<1> HIDE DEF prev
<1> QED BY <1>3, <1>6 DEF prev

\* Pushing that entry keeps the session's state good.
LEMMA PushIsGood ==
  ASSUME NEW s \in Sessions, NEW st, GoodState(s, st), NEW step \in SessionStep
  PROVE  GoodState(s, push(st, nextEntry(st, s, step)))
<1> DEFINE e == nextEntry(st, s, step)
           n == Len(st.entries)
           chain == Append(st.entries, e)
           new == push(st, e)
<1>1. /\ e \in SessionContextEntry
      /\ e.session_id = s
      /\ e.seq = n + 1
      /\ e.step = step
      /\ e.prev_hash = IF n = 0 THEN GENESIS_HASH ELSE st.entries[n].hash
      /\ e.hash = hashEntry(e.prev_hash, s, n + 1, step)
  BY NextEntryExtends
<1>2. step.request_id \in RequestIds
  BY DEF SessionStep
<1>3. st \in SessionState /\ n \in Nat
  BY DEF GoodState, SessionState
<1> HIDE DEF e
<1>4. /\ chain \in Seq(SessionContextEntry)
      /\ Len(chain) = n + 1
      /\ chain[n + 1] = e
      /\ \A i \in 1..n : chain[i] = st.entries[i]
  BY <1>1, <1>3 DEF SessionState
<1>5. /\ new \in SessionState
      /\ new.entries = chain
      /\ new.requestIds = st.requestIds \cup {step.request_id}
      /\ new.toolCallRequestIds =
           IF step.method = TOOL_CALL_REQUEST
           THEN st.toolCallRequestIds \cup {step.request_id} ELSE st.toolCallRequestIds
  BY <1>1, <1>2, <1>3, <1>4 DEF push, SessionState
<1> HIDE DEF chain, new
<1>6. EntireChain(s, chain)
  <2> SUFFICES ASSUME NEW i \in 1..(n + 1)
               PROVE  /\ chain[i].session_id = s
                      /\ chain[i].seq = i
                      /\ chain[i].prev_hash = IF i = 1 THEN GENESIS_HASH ELSE chain[i - 1].hash
                      /\ chain[i].hash = hashEntry(chain[i].prev_hash, s, i, chain[i].step)
    BY <1>3, <1>4 DEF EntireChain
  <2>1. CASE i = n + 1
    <3>1. n # 0 => chain[i - 1] = st.entries[n]
      BY <1>3, <1>4, <2>1
    <3> QED BY <1>1, <1>3, <1>4, <2>1, <3>1
  <2>2. CASE i # n + 1
    <3>1. i \in 1..n /\ chain[i] = st.entries[i]
      BY <1>3, <1>4, <2>2
    <3>2. i # 1 => chain[i - 1] = st.entries[i - 1]
      BY <1>3, <1>4, <3>1
    <3> QED BY <3>1, <3>2 DEF GoodState, EntireChain
  <2> QED BY <2>1, <2>2
<1>7. IdsAgree(new)
  <2> DEFINE old(rows) == {st.entries[i].step.request_id : i \in rows}
             ids(rows) == {chain[i].step.request_id : i \in rows}
             asked(c, m) == {i \in 1..m : c[i].step.method = TOOL_CALL_REQUEST}
  <2>1. st.requestIds = old(1..n) /\ st.toolCallRequestIds = old(asked(st.entries, n))
    BY DEF GoodState, IdsAgree
  <2>2. 1..(n + 1) = (1..n) \cup {n + 1}
    BY <1>3
  <2>3. ids(1..(n + 1)) = old(1..n) \cup {step.request_id}
    <3>1. \A i \in 1..n : chain[i].step.request_id = st.entries[i].step.request_id
      BY <1>4
    <3>2. ids(1..n) = old(1..n)
      BY <3>1
    <3>3. ids({n + 1}) = {step.request_id}
      BY <1>1, <1>4
    <3>4. ids(1..(n + 1)) = ids(1..n) \cup ids({n + 1})
      BY <2>2
    <3> QED BY <3>2, <3>3, <3>4
  <2>4. ids(asked(chain, n + 1)) =
          IF step.method = TOOL_CALL_REQUEST
          THEN old(asked(st.entries, n)) \cup {step.request_id} ELSE old(asked(st.entries, n))
    <3>1. asked(chain, n + 1) =
            IF step.method = TOOL_CALL_REQUEST
            THEN asked(st.entries, n) \cup {n + 1} ELSE asked(st.entries, n)
      BY <1>1, <1>4, <2>2
    <3>2. \A i \in asked(st.entries, n) : chain[i] = st.entries[i]
      BY <1>4
    <3> QED BY <1>1, <1>4, <3>1, <3>2
  <2>5. new.entries = chain /\ Len(chain) = n + 1
    BY <1>4, <1>5
  <2>6. new.requestIds = ids(1..(n + 1))
    BY <1>5, <2>1, <2>3
  <2>7. new.toolCallRequestIds = ids(asked(chain, n + 1))
    BY <1>5, <2>1, <2>4
  <2> HIDE DEF n
  <2> QED BY <2>5, <2>6, <2>7 DEF IdsAgree
<1> QED BY <1>5, <1>6, <1>7 DEF GoodState, new, e

-----------------------------------------------------------------------------
(* The steps. *)

\* The part of the type invariant a write touches.
WrittenTypes ==
  /\ Retained \subseteq Sessions
  /\ sessions \in [Retained -> SessionState]
  /\ order \in Seq(Sessions)
  /\ evictions \in [Sessions -> Nat]
  /\ lastWrite \in [Sessions -> Nat]
  /\ writes \in 0..MaxWrites

\* A write of a good state keeps every session good and the order right.
LEMMA WriteKeepsInv ==
  ASSUME IInv, NEW s \in Sessions, NEW next, GoodState(s, next), Write(s, next)
  PROVE  WrittenTypes' /\ OrderInv' /\ \A t \in Retained' : GoodState(t, sessions'[t])
<1>1. writes \in Nat /\ writes' = writes + 1 /\ writes' \in 0..MaxWrites
  BY BoundsAssumption DEF IInv, StoreTypeOK, Write
<1>2. lastWrite' = [lastWrite EXCEPT ![s] = writes + 1] /\ lastWrite \in [Sessions -> Nat]
  BY DEF IInv, StoreTypeOK, Write
<1>3. /\ ensure(s) \in Seq(Sessions)
      /\ Elems(ensure(s)) \subseteq Retained \cup {s}
      /\ Len(ensure(s)) <= MaxSessions
      /\ Recent(ensure(s), lastWrite')
  BY <1>2, EnsureOrder DEF IInv
<1>4. order' = ensure(s) /\ Retained' = Elems(ensure(s))
  BY DEF Write, Retained, Elems
<1>5. \A t \in Retained' : sessions'[t] = IF t = s THEN next ELSE sessions[t]
  BY <1>4 DEF Write, Retained, Elems
<1>6. \A t \in Retained' : GoodState(t, sessions'[t])
  BY <1>3, <1>4, <1>5 DEF IInv
<1>7. Elems(order)' = Retained'
  BY <1>4 DEF Elems
<1>8. Retained' \subseteq Sessions
  BY <1>3, <1>4 DEF IInv, StoreTypeOK
<1>9. sessions' \in [Retained' -> SessionState]
  <2>1. sessions' = [t \in Retained' |-> sessions'[t]]
    BY <1>4 DEF Write, Retained, Elems
  <2> QED BY <1>6, <2>1 DEF GoodState
<1>10. evictions' \in [Sessions -> Nat]
  BY DEF Write, IInv, StoreTypeOK
<1>11. lastWrite' \in [Sessions -> Nat] /\ \A t \in Sessions : lastWrite'[t] <= writes'
  BY <1>1, <1>2 DEF IInv, OrderInv
<1>12. WrittenTypes'
  BY <1>1, <1>3, <1>4, <1>8, <1>9, <1>10, <1>11 DEF WrittenTypes
<1>13. OrderInv'
  BY <1>3, <1>4, <1>7, <1>11 DEF OrderInv, Recent
<1> QED BY <1>6, <1>12, <1>13

LEMMA InitInv == StoreInit => IInv
<1> SUFFICES ASSUME StoreInit PROVE IInv
  OBVIOUS
<1>1. Retained = {} /\ Elems(order) = {} /\ Len(order) = 0
  BY DEF StoreInit, NoSessions, Retained, Elems
<1>2. StoreTypeOK
  <2>1. Retained \subseteq Sessions /\ sessions \in [Retained -> SessionState]
    BY <1>1 DEF StoreInit, NoSessions
  <2>2. order \in Seq(Sessions) /\ log \in Seq(SessionContextEntry)
    BY DEF StoreInit
  <2>3. torn \in BOOLEAN /\ disabled \in BOOLEAN
    BY DEF StoreInit
  <2>4. evictions \in [Sessions -> Nat] /\ lastWrite \in [Sessions -> Nat]
    BY DEF StoreInit
  <2>5. writes \in 0..MaxWrites /\ restarts \in 0..MaxRestarts
    BY BoundsAssumption DEF StoreInit
  <2> QED BY <2>1, <2>2, <2>3, <2>4, <2>5 DEF StoreTypeOK
<1>3. OrderInv
  BY <1>1, <1>2, CapAssumption DEF StoreInit, OrderInv, Recent, StoreTypeOK
<1> QED BY <1>1, <1>2, <1>3 DEF IInv

LEMMA AppendInv ==
  ASSUME IInv, NEW s \in Sessions, NEW step \in Steps, append(s, step)
  PROVE  IInv'
<1> DEFINE e == nextEntry(read(s), s, step)
<1>1. step \in SessionStep
  BY StepsAssumption
<1>2. GoodState(s, read(s))
  BY ReadIsGood
<1>3. GoodState(s, push(read(s), e)) /\ e \in SessionContextEntry
  BY <1>1, <1>2, PushIsGood, NextEntryExtends
<1>4. Write(s, push(read(s), e)) /\ appendLine(e) /\ UNCHANGED restarts
  BY DEF append
<1> HIDE DEF e
<1>5. WrittenTypes' /\ OrderInv' /\ \A t \in Retained' : GoodState(t, sessions'[t])
  BY <1>3, <1>4, WriteKeepsInv
<1>6. /\ log' \in Seq(SessionContextEntry) /\ torn' \in BOOLEAN /\ disabled' \in BOOLEAN
      /\ restarts' \in 0..MaxRestarts
  <2>1. /\ log \in Seq(SessionContextEntry) /\ torn \in BOOLEAN /\ disabled \in BOOLEAN
        /\ restarts' \in 0..MaxRestarts
    BY <1>4 DEF IInv, StoreTypeOK
  <2>2. Append(log, e) \in Seq(SessionContextEntry)
    BY <1>3, <2>1
  <2> QED BY <1>4, <2>1, <2>2 DEF appendLine
<1> QED BY <1>5, <1>6 DEF IInv, StoreTypeOK, WrittenTypes

LEMMA SetIntentInv ==
  ASSUME IInv, NEW s \in Sessions, NEW text \in Intents, setIntent(s, text)
  PROVE  IInv'
<1> DEFINE next == [read(s) EXCEPT !.intent = IF @ = NoIntent THEN text ELSE @]
<1>1. GoodState(s, read(s))
  BY ReadIsGood
<1>2. GoodState(s, next)
  BY <1>1 DEF GoodState, SessionState, IdsAgree
<1>3. Write(s, next) /\ UNCHANGED <<log, torn, disabled, restarts>>
  BY DEF setIntent
<1> HIDE DEF next
<1>4. WrittenTypes' /\ OrderInv' /\ \A t \in Retained' : GoodState(t, sessions'[t])
  BY <1>2, <1>3, WriteKeepsInv
<1> QED BY <1>3, <1>4 DEF IInv, StoreTypeOK, WrittenTypes

LEMMA ReplaceIfcLabelsInv ==
  ASSUME IInv, NEW s \in Sessions, NEW labels \in IfcLabels, replaceIfcLabels(s, labels)
  PROVE  IInv'
<1> DEFINE next == [read(s) EXCEPT !.ifc_labels = labels]
<1>1. GoodState(s, read(s))
  BY ReadIsGood
<1>2. GoodState(s, next)
  BY <1>1 DEF GoodState, SessionState, IdsAgree
<1>3. Write(s, next) /\ UNCHANGED <<log, torn, disabled, restarts>>
  BY DEF replaceIfcLabels
<1> HIDE DEF next
<1>4. WrittenTypes' /\ OrderInv' /\ \A t \in Retained' : GoodState(t, sessions'[t])
  BY <1>2, <1>3, WriteKeepsInv
<1> QED BY <1>3, <1>4 DEF IInv, StoreTypeOK, WrittenTypes

LEMMA RestartInv == IInv /\ Restart => IInv'
<1> SUFFICES ASSUME IInv, Restart PROVE IInv'
  OBVIOUS
<1>1. Retained' = {} /\ Elems(order)' = {} /\ Len(order') = 0
  BY DEF Restart, NoSessions, Retained, Elems
<1>2. StoreTypeOK'
  BY <1>1, BoundsAssumption DEF IInv, StoreTypeOK, Restart, NoSessions, Retained
<1>3. OrderInv'
  BY <1>1, <1>2, CapAssumption DEF IInv, OrderInv, Recent, Restart, StoreTypeOK
<1> QED BY <1>1, <1>2, <1>3 DEF IInv

LEMMA NextInv == IInv /\ [StoreNext]_storeVars => IInv'
<1> SUFFICES ASSUME IInv, [StoreNext]_storeVars PROVE IInv'
  OBVIOUS
<1>1. ASSUME NEW s \in Sessions, NEW step \in Steps, append(s, step) PROVE IInv'
  BY <1>1, AppendInv
<1>2. ASSUME NEW s \in Sessions, NEW text \in Intents, setIntent(s, text) PROVE IInv'
  BY <1>2, SetIntentInv
<1>3. ASSUME NEW s \in Sessions, NEW labels \in IfcLabels, replaceIfcLabels(s, labels)
      PROVE  IInv'
  BY <1>3, ReplaceIfcLabelsInv
<1>4. CASE Restart
  BY <1>4, RestartInv
<1>5. CASE UNCHANGED storeVars
  <2>1. StoreTypeOK' /\ Retained' = Retained /\ Elems(order)' = Elems(order)
    BY <1>5 DEF storeVars, IInv, StoreTypeOK, Retained, Elems
  <2>2. OrderInv'
    BY <1>5, <2>1 DEF storeVars, IInv, OrderInv, Recent
  <2>3. \A s \in Retained' : GoodState(s, sessions'[s])
    BY <1>5, <2>1 DEF storeVars, IInv
  <2> QED BY <2>1, <2>2, <2>3 DEF IInv
<1> QED BY <1>1, <1>2, <1>3, <1>4, <1>5 DEF StoreNext

THEOREM StoreInvariant == StoreSpec => []IInv
BY InitInv, NextInv, PTL DEF StoreSpec

-----------------------------------------------------------------------------
(* What the invariant gives. *)

\* Type correctness of the store, for every cap and every set of sessions.
THEOREM StoreTypeCorrect == StoreSpec => []StoreTypeOK
<1>1. IInv => StoreTypeOK
  BY DEF IInv
<1> QED BY <1>1, StoreInvariant, PTL

\* A retained session's chain is entire: the store's header promise.
THEOREM RetainedChainIsEntire == StoreSpec => []ChainEntire
<1>1. IInv => ChainEntire
  BY DEF IInv, GoodState, ChainEntire
<1> QED BY <1>1, StoreInvariant, PTL

\* The id sets answer what a scan of the chain would.
THEOREM IdSetsAgree == StoreSpec => []IdsAgreeWithChain
<1>1. IInv => IdsAgreeWithChain
  BY DEF IInv, GoodState, IdsAgree, IdsAgreeWithChain
<1> QED BY <1>1, StoreInvariant, PTL

\* The map's insertion order is write recency, within the cap.
THEOREM OrderTracksWrites == StoreSpec => []OrderIsWriteRecency
<1>1. IInv => OrderIsWriteRecency
  BY DEF IInv, OrderInv, Recent, OrderIsWriteRecency
<1> QED BY <1>1, StoreInvariant, PTL

\* Evictions take the sessions written longest ago and are reported.
THEOREM EvictionIsByRecency == StoreSpec => EvictsOnlyTheIdle
<1> DEFINE A == restarts' = restarts =>
                  /\ \A s \in Sessions : lastWrite'[s] # lastWrite[s] => s \in Retained'
                  /\ \A s \in Retained \ Retained' :
                       /\ evictions'[s] = evictions[s] + 1
                       /\ \A t \in Retained' : lastWrite[s] < lastWrite'[t]
<1>1. ASSUME IInv, NEW s \in Sessions, NEW next, Write(s, next) PROVE A
  <2>1. Retained' = Elems(ensure(s)) /\ lastWrite' = [lastWrite EXCEPT ![s] = writes + 1]
    BY <1>1 DEF Write, Retained, Elems
  <2>2. \A x \in Retained \ Elems(ensure(s)) :
          \A t \in Elems(ensure(s)) : lastWrite[x] < lastWrite'[t]
    BY <1>1, <2>1, EnsureOrder DEF IInv
  <2>3. \A x \in Retained \ Elems(ensure(s)) : evictions'[x] = evictions[x] + 1
    BY <1>1, <2>1 DEF Write, IInv, StoreTypeOK, Elems
  <2>4. \A x \in Sessions : lastWrite'[x] # lastWrite[x] => x \in Elems(ensure(s))
    <3>1. s \in Elems(ensure(s))
      BY <1>1, <2>1, EnsureOrder DEF IInv
    <3> QED BY <1>1, <2>1, <3>1 DEF IInv, StoreTypeOK
  <2> QED BY <2>1, <2>2, <2>3, <2>4
<1>2. ASSUME IInv, [StoreNext]_storeVars PROVE [A]_storeVars
  <2>1. CASE Restart
    BY <1>2, <2>1, BoundsAssumption DEF Restart, IInv, StoreTypeOK
  <2>2. CASE UNCHANGED storeVars
    BY <2>2
  <2>3. CASE \E s \in Sessions, step \in Steps : append(s, step)
    BY <1>1, <1>2, <2>3 DEF append
  <2>4. CASE \E s \in Sessions, text \in Intents : setIntent(s, text)
    BY <1>1, <1>2, <2>4 DEF setIntent
  <2>5. CASE \E s \in Sessions, labels \in IfcLabels : replaceIfcLabels(s, labels)
    BY <1>1, <1>2, <2>5 DEF replaceIfcLabels
  <2> QED BY <1>2, <2>1, <2>2, <2>3, <2>4, <2>5 DEF StoreNext
<1> QED BY <1>2, StoreInvariant, PTL DEF StoreSpec, EvictsOnlyTheIdle

-----------------------------------------------------------------------------
(* What a hash commits to. *)

\* Each entry's prev_hash is the history of the entries in front of it.
Commits(entries) ==
  \A i \in 1..Len(entries) :
    /\ Len(entries[i].prev_hash) = i - 1
    /\ \A j \in 1..(i - 1) : entries[i].prev_hash[j].step = entries[j].step

\* A row's hashes are as long as the history it was written at.
Counted(row) == Len(row.prev_hash) = row.seq - 1 /\ Len(row.hash) = row.seq

HistoryInv ==
  /\ \A s \in Retained : Commits(sessions[s].entries)
  /\ \A i \in 1..Len(log) : Counted(log[i])

\* The entry append builds commits to the chain it is appended to.
LEMMA NextEntryCommits ==
  ASSUME NEW s \in Sessions, NEW st, GoodState(s, st), Commits(st.entries), NEW step \in SessionStep
  PROVE  LET e == nextEntry(st, s, step)
         IN /\ Len(e.prev_hash) = Len(st.entries) /\ Counted(e)
            /\ \A j \in 1..Len(st.entries) : e.prev_hash[j].step = st.entries[j].step
            /\ Commits(push(st, e).entries)
<1> DEFINE n == Len(st.entries)
           e == nextEntry(st, s, step)
<1>1. /\ e \in SessionContextEntry /\ e.seq = n + 1 /\ e.step = step
      /\ e.prev_hash = IF n = 0 THEN GENESIS_HASH ELSE st.entries[n].hash
      /\ e.hash = hashEntry(e.prev_hash, s, n + 1, step)
  BY NextEntryExtends
<1> HIDE DEF e
<1>2. n \in Nat /\ st.entries \in Seq(SessionContextEntry) /\ e.prev_hash \in Seq(Fact)
  BY <1>1 DEF GoodState, SessionState, SessionContextEntry, Hash
<1>3. Len(e.prev_hash) = n /\ \A j \in 1..n : e.prev_hash[j].step = st.entries[j].step
  <2>1. CASE n = 0
    BY <1>1, <2>1 DEF GENESIS_HASH
  <2>2. CASE n # 0
    <3> DEFINE last == st.entries[n]
               fact == [session_id |-> s, seq |-> n, step |-> last.step]
    <3>1. n \in 1..Len(st.entries) /\ last \in SessionContextEntry
      BY <1>2, <2>2
    <3>2. last.hash = Append(last.prev_hash, fact)
      BY <3>1 DEF GoodState, EntireChain, hashEntry
    <3>3. last.prev_hash \in Seq(Fact) /\ Len(last.prev_hash) = n - 1
          /\ \A j \in 1..(n - 1) : last.prev_hash[j].step = st.entries[j].step
      BY <3>1 DEF Commits, SessionContextEntry, Hash
    <3>4. e.prev_hash = Append(last.prev_hash, fact) /\ fact.step = last.step
      BY <1>1, <2>2, <3>2
    <3> HIDE DEF last, fact
    <3>5. Len(e.prev_hash) = n /\ e.prev_hash[n] = fact
          /\ \A j \in 1..(n - 1) : e.prev_hash[j] = last.prev_hash[j]
      BY <1>2, <3>3, <3>4
    <3> QED BY <1>2, <3>3, <3>4, <3>5 DEF last
  <2> QED BY <2>1, <2>2
<1>4. Counted(e)
  <2>1. Len(e.hash) = Len(e.prev_hash) + 1
    BY <1>1, <1>2 DEF hashEntry
  <2> QED BY <1>1, <1>2, <1>3, <2>1 DEF Counted
<1>5. Commits(Append(st.entries, e))
  <2>1. /\ Len(Append(st.entries, e)) = n + 1 /\ Append(st.entries, e)[n + 1] = e
        /\ \A i \in 1..n : Append(st.entries, e)[i] = st.entries[i]
    BY <1>2
  <2> DEFINE chain == Append(st.entries, e)
  <2>2. ASSUME NEW i \in 1..(n + 1)
        PROVE  /\ Len(chain[i].prev_hash) = i - 1
               /\ \A j \in 1..(i - 1) : chain[i].prev_hash[j].step = chain[j].step
    <3>1. CASE i = n + 1
      BY <1>2, <1>3, <2>1, <3>1
    <3>2. CASE i # n + 1
      <4>1. i \in 1..n /\ \A j \in 1..(i - 1) : j \in 1..n
        BY <1>2, <2>2, <3>2
      <4> QED BY <2>1, <4>1 DEF Commits
    <3> QED BY <3>1, <3>2
  <2> QED BY <2>1, <2>2 DEF Commits
<1>6. push(st, e).entries = Append(st.entries, e)
  BY DEF push, GoodState, SessionState
<1> QED BY <1>3, <1>4, <1>5, <1>6 DEF e

LEMMA HistoryKept == IInv /\ HistoryInv /\ [StoreNext]_storeVars => HistoryInv'
<1> SUFFICES ASSUME IInv, HistoryInv, [StoreNext]_storeVars PROVE HistoryInv'
  OBVIOUS
<1>1. \A s \in Sessions : GoodState(s, read(s)) /\ Commits(read(s).entries)
  <2>1. Commits(emptySessionState.entries)
    BY DEF Commits, emptySessionState
  <2> QED BY <2>1, ReadIsGood DEF HistoryInv, read
<1>2. ASSUME NEW s \in Sessions, NEW next, Write(s, next), Commits(next.entries)
      PROVE  \A t \in Retained' : Commits(sessions'[t].entries)
  <2>1. \A t \in Retained' : sessions'[t] = IF t = s THEN next ELSE sessions[t]
    BY <1>2 DEF Write, Retained
  <2>2. Retained' \subseteq Retained \cup {s}
    <3>1. Retained' = Elems(ensure(s))
      BY <1>2 DEF Write, Retained, Elems
    <3> QED BY <3>1, EnsureOrder DEF IInv
  <2> QED BY <1>2, <2>1, <2>2 DEF HistoryInv
<1>3. ASSUME NEW s \in Sessions, NEW step \in Steps, append(s, step) PROVE HistoryInv'
  <2> DEFINE e == nextEntry(read(s), s, step)
  <2>1. Counted(e) /\ Commits(push(read(s), e).entries)
    BY <1>1, StepsAssumption, NextEntryCommits
  <2>2. Write(s, push(read(s), e)) /\ appendLine(e)
    BY <1>3 DEF append
  <2> HIDE DEF e
  <2>3. log' = log \/ log' = Append(log, e)
    BY <2>2 DEF appendLine
  <2>4. \A i \in 1..Len(log') : log'[i] = e \/ (i \in 1..Len(log) /\ log'[i] = log[i])
    <3>1. log \in Seq(SessionContextEntry) /\ Len(log) \in Nat
      BY DEF IInv, StoreTypeOK
    <3>2. CASE log' = Append(log, e)
      <4>1. /\ Len(log') = Len(log) + 1 /\ log'[Len(log) + 1] = e
            /\ \A i \in 1..Len(log) : log'[i] = log[i]
        BY <3>1, <3>2
      <4> QED BY <3>1, <4>1
    <3> QED BY <2>3, <3>2
  <2>5. \A i \in 1..Len(log') : Counted(log'[i])
    BY <2>1, <2>4 DEF HistoryInv
  <2> QED BY <1>2, <2>1, <2>2, <2>5 DEF HistoryInv
<1>4. ASSUME NEW s \in Sessions, NEW text \in Intents, setIntent(s, text) PROVE HistoryInv'
  <2> DEFINE next == [read(s) EXCEPT !.intent = IF @ = NoIntent THEN text ELSE @]
  <2>1. Write(s, next) /\ UNCHANGED log /\ next.entries = read(s).entries
    BY <1>1, <1>4 DEF setIntent, GoodState, SessionState
  <2> HIDE DEF next
  <2> QED BY <1>1, <1>2, <2>1 DEF HistoryInv
<1>5. ASSUME NEW s \in Sessions, NEW labels \in IfcLabels, replaceIfcLabels(s, labels)
      PROVE  HistoryInv'
  <2> DEFINE next == [read(s) EXCEPT !.ifc_labels = labels]
  <2>1. Write(s, next) /\ UNCHANGED log /\ next.entries = read(s).entries
    BY <1>1, <1>5 DEF replaceIfcLabels, GoodState, SessionState
  <2> HIDE DEF next
  <2> QED BY <1>1, <1>2, <2>1 DEF HistoryInv
<1>6. CASE Restart
  BY <1>6 DEF Restart, NoSessions, Retained, HistoryInv
<1>7. CASE UNCHANGED storeVars
  BY <1>7 DEF storeVars, Retained, HistoryInv
<1> QED BY <1>3, <1>4, <1>5, <1>6, <1>7 DEF StoreNext

LEMMA HistoryHolds == StoreSpec => []HistoryInv
<1>1. StoreInit => HistoryInv
  BY DEF StoreInit, NoSessions, Retained, HistoryInv
<1> QED BY <1>1, HistoryKept, StoreInvariant, PTL DEF StoreSpec

\* A row that is not a CHAIN BREAK directly continues the row shown before it
\* (the Inspector's checkSessionChainLink): equal hashes are equal histories.
THEOREM UnbrokenRowsContinue == StoreSpec => []UnbrokenRowsAreConsecutive
<1>1. IInv /\ HistoryInv => UnbrokenRowsAreConsecutive
  <2> SUFFICES ASSUME IInv, HistoryInv, NEW i \in 1..Len(log), NEW j \in 1..Len(log),
                      PriorRow(i, j), ~checkSessionChainLink(i)
               PROVE  log[i].seq = log[j].seq + 1
    BY DEF UnbrokenRowsAreConsecutive
  <2>1. log[j].hash = log[i].prev_hash
    BY DEF checkSessionChainLink
  <2>2. log[i].seq \in Nat /\ log[j].seq \in Nat
    <3>1. log[i] \in SessionContextEntry /\ log[j] \in SessionContextEntry
      BY DEF IInv, StoreTypeOK
    <3> QED BY <3>1 DEF SessionContextEntry
  <2> QED BY <2>1, <2>2 DEF HistoryInv, Counted
<1> QED BY <1>1, StoreInvariant, HistoryHolds, PTL

-----------------------------------------------------------------------------
(* How many CHAIN BREAK rows there are.                                     *)

BreakRows(s) == {i \in 1..Len(log) : log[i].session_id = s /\ checkSessionChainLink(i)}

\* What the next entry of a session in state st will name as its prev_hash.
Tip(st) == IF Len(st.entries) = 0 THEN GENESIS_HASH ELSE st.entries[Len(st.entries)].hash

LastRow(s, j) ==
  /\ j \in 1..Len(log) /\ log[j].session_id = s
  /\ \A k \in (j + 1)..Len(log) : log[k].session_id # s

\* The next row of s will be a CHAIN BREAK.
Owed(s) == \E j \in 1..Len(log) : LastRow(s, j) /\ log[j].hash # Tip(read(s))

Lost(s) == evictions[s] + restarts

BreakInv ==
  /\ \A s \in Sessions : /\ Cardinality(BreakRows(s)) <= Lost(s)
                         /\ ~disabled /\ Owed(s) => Cardinality(BreakRows(s)) + 1 <= Lost(s)
  /\ torn /\ ~disabled => \A s \in Sessions : Len(read(s).entries) = 0

LEMMA BreakRowsFinite ==
  ASSUME log \in Seq(SessionContextEntry), NEW s
  PROVE  IsFiniteSet(BreakRows(s)) /\ Cardinality(BreakRows(s)) \in Nat
<1>1. IsFiniteSet(1..Len(log)) /\ BreakRows(s) \subseteq 1..Len(log)
  BY FS_Interval DEF BreakRows
<1> QED BY <1>1, FS_Subset, FS_CardinalityType

\* What a write leaves of each session: the next state of its own, and the
\* others as they were, unless one was evicted and that was counted.
LEMMA WriteReads ==
  ASSUME IInv, NEW t \in Sessions, NEW next, Write(t, next), NEW s \in Sessions
  PROVE  /\ evictions'[s] >= evictions[s]
         /\ s = t => read(s)' = next
         /\ s # t => \/ read(s)' = read(s)
                     \/ read(s)' = emptySessionState /\ evictions'[s] > evictions[s]
<1>1. Retained' = Elems(ensure(t)) /\ t \in Elems(ensure(t)) /\ Elems(ensure(t)) \subseteq Retained \cup {t}
  BY EnsureOrder DEF Write, Retained, Elems, IInv
<1>2. evictions \in [Sessions -> Nat]
  BY DEF IInv, StoreTypeOK
<1>3. evictions'[s] = IF s \in Retained \ Retained' THEN evictions[s] + 1 ELSE evictions[s]
  BY <1>1, <1>2 DEF Write, Elems
<1>4. s \in Retained' => sessions'[s] = IF s = t THEN next ELSE sessions[s]
  BY DEF Write, Retained
<1> QED BY <1>1, <1>2, <1>3, <1>4 DEF read

\* Sessions whose reads and rows do not change keep what they owe.
LEMMA QuietBreaks ==
  ASSUME IInv, BreakInv, UNCHANGED log, NEW s \in Sessions,
         Lost(s) \in Nat, Lost(s)' \in Nat, Lost(s)' >= Lost(s),
         \/ Lost(s)' > Lost(s)
         \/ disabled'
         \/ ~disabled /\ (Owed(s)' => Owed(s))
  PROVE  /\ Cardinality(BreakRows(s)') <= Lost(s)'
         /\ ~disabled' /\ Owed(s)' => Cardinality(BreakRows(s)') + 1 <= Lost(s)'
<1>1. BreakRows(s)' = BreakRows(s)
  BY DEF BreakRows, checkSessionChainLink, PriorRow
<1>2. Cardinality(BreakRows(s)) \in Nat
  BY BreakRowsFinite DEF IInv, StoreTypeOK
<1> QED BY <1>1, <1>2 DEF BreakInv

\* A row at the end is a CHAIN BREAK exactly if one was owed.
LEMMA RowAdded ==
  ASSUME IInv, NEW t \in Sessions, NEW e \in SessionContextEntry, log' = Append(log, e),
         e.session_id = t, e.prev_hash = Tip(read(t)), NEW s \in Sessions
  PROVE  /\ s = t => /\ Owed(t) => BreakRows(t)' = BreakRows(t) \cup {Len(log) + 1}
                     /\ ~Owed(t) => BreakRows(t)' = BreakRows(t)
                     /\ \A j : LastRow(t, j)' => j = Len(log) + 1
         /\ s # t => /\ BreakRows(s)' = BreakRows(s)
                     /\ \A j : LastRow(s, j)' <=> LastRow(s, j)
         /\ Len(log) + 1 \notin BreakRows(t) /\ log'[Len(log) + 1] = e
<1> DEFINE n == Len(log)
<1>1. /\ n \in Nat /\ Len(log') = n + 1 /\ log'[n + 1] = e
      /\ \A i \in 1..n : log'[i] = log[i]
  BY DEF IInv, StoreTypeOK
<1>2. \A i \in 1..n : checkSessionChainLink(i)' <=> checkSessionChainLink(i)
  <2> SUFFICES ASSUME NEW i \in 1..n PROVE checkSessionChainLink(i)' <=> checkSessionChainLink(i)
    OBVIOUS
  <2>1. \A j \in 1..(n + 1) : PriorRow(i, j)' => j \in 1..n
    BY <1>1 DEF PriorRow
  <2>2. \A j \in 1..n : PriorRow(i, j)' <=> PriorRow(i, j)
    BY <1>1 DEF PriorRow
  <2> QED BY <1>1, <2>1, <2>2 DEF checkSessionChainLink
<1>3. ASSUME NEW m, m = n + 1 PROVE checkSessionChainLink(m)' <=> Owed(t)
  <2>0. log'[m] = e /\ m - 1 = n
    BY <1>1, <1>3
  <2>1. ASSUME NEW j \in 1..n PROVE PriorRow(m, j)' <=> LastRow(t, j)
    <3>1. \A k \in (j + 1)..n : log'[k] = log[k]
      BY <1>1, <2>1
    <3>2. j < m /\ log'[j] = log[j]
      BY <1>1, <1>3, <2>1
    <3> QED BY <2>0, <2>1, <3>1, <3>2 DEF PriorRow, LastRow
  <2>2. ~PriorRow(m, m)'
    BY <1>1, <1>3 DEF PriorRow
  <2>3. \A j \in 1..Len(log') : j \in 1..n \/ j = m
    BY <1>1, <1>3
  <2> QED BY <1>1, <2>0, <2>1, <2>2, <2>3 DEF checkSessionChainLink, Owed
<1>4. \A i : i \in 1..(n + 1) <=> i \in 1..n \/ i = n + 1
  BY <1>1
<1>5. /\ s = t => \A j : LastRow(t, j)' => j = n + 1
      /\ s # t => \A j : LastRow(s, j)' <=> LastRow(s, j)
  BY <1>1 DEF LastRow
<1>6. s # t => BreakRows(s)' = BreakRows(s)
  BY <1>1, <1>2, <1>4 DEF BreakRows
<1>7. BreakRows(t)' = IF Owed(t) THEN BreakRows(t) \cup {n + 1} ELSE BreakRows(t)
  BY <1>1, <1>2, <1>3, <1>4 DEF BreakRows
<1> QED BY <1>1, <1>5, <1>6, <1>7 DEF BreakRows

\* A write that logs nothing and leaves its own session's chain alone.
LEMMA WriteKeepsBreaks ==
  ASSUME IInv, BreakInv, NEW t \in Sessions, NEW next, Write(t, next),
         next.entries = read(t).entries, UNCHANGED <<log, torn, disabled, restarts>>
  PROVE  BreakInv'
<1>0. evictions \in [Sessions -> Nat] /\ evictions' \in [Sessions -> Nat] /\ restarts \in Nat
      /\ disabled \in BOOLEAN
  BY BoundsAssumption DEF IInv, StoreTypeOK, Write
<1>1. ASSUME NEW s \in Sessions
      PROVE  /\ Lost(s)' >= Lost(s) /\ Lost(s) \in Nat /\ Lost(s)' \in Nat
             /\ Lost(s)' > Lost(s) \/ read(s)'.entries = read(s).entries
             /\ Len(read(s)'.entries) = Len(read(s).entries) \/ Len(read(s)'.entries) = 0
  BY <1>0, WriteReads DEF Lost, emptySessionState
<1>2. ASSUME NEW s \in Sessions
      PROVE  /\ Cardinality(BreakRows(s)') <= Lost(s)'
             /\ ~disabled' /\ Owed(s)' => Cardinality(BreakRows(s)') + 1 <= Lost(s)'
  <2>1. read(s)'.entries = read(s).entries => (Owed(s)' <=> Owed(s))
    BY DEF Owed, LastRow, Tip
  <2> QED BY <1>0, <1>1, <2>1, QuietBreaks
<1>3. torn' /\ ~disabled' => \A s \in Sessions : Len(read(s)'.entries) = 0
  BY <1>1 DEF BreakInv
<1> QED BY <1>2, <1>3 DEF BreakInv

LEMMA AppendKeepsBreaks ==
  ASSUME IInv, HistoryInv, BreakInv, NEW t \in Sessions, NEW step \in Steps, append(t, step)
  PROVE  BreakInv'
<1> DEFINE e == nextEntry(read(t), t, step)
           next == push(read(t), e)
<1>0. /\ evictions \in [Sessions -> Nat] /\ evictions' \in [Sessions -> Nat] /\ restarts \in Nat
      /\ disabled \in BOOLEAN /\ torn \in BOOLEAN
      /\ Write(t, next) /\ appendLine(e) /\ UNCHANGED restarts
  BY BoundsAssumption DEF IInv, StoreTypeOK, append, Write
<1>1. GoodState(t, read(t)) /\ step \in SessionStep
  BY ReadIsGood, StepsAssumption
<1>2. /\ e \in SessionContextEntry /\ e.session_id = t /\ e.prev_hash = Tip(read(t))
      /\ e.hash = Append(e.prev_hash, [session_id |-> t, seq |-> Len(read(t).entries) + 1, step |-> step])
  BY <1>1, NextEntryExtends DEF Tip, hashEntry
<1>3. next.entries = Append(read(t).entries, e) /\ read(t).entries \in Seq(SessionContextEntry)
  BY <1>1 DEF push, GoodState, SessionState
<1> HIDE DEF e, next
<1>4. read(t)' = next /\ Tip(read(t)') = e.hash
  <2>1. read(t)' = next
    BY <1>0, WriteReads
  <2>2. Len(next.entries) = Len(read(t).entries) + 1 /\ next.entries[Len(next.entries)] = e
        /\ Len(next.entries) # 0
    BY <1>2, <1>3
  <2> QED BY <2>1, <2>2 DEF Tip
<1>5. ASSUME NEW s \in Sessions
      PROVE  /\ Lost(s) \in Nat /\ Lost(s)' \in Nat /\ Lost(s)' >= Lost(s)
             /\ s # t => Lost(s)' > Lost(s) \/ read(s)' = read(s)
  BY <1>0, WriteReads DEF Lost
<1>6. CASE disabled' /\ UNCHANGED log
  <2>1. ASSUME NEW s \in Sessions
        PROVE  /\ Cardinality(BreakRows(s)') <= Lost(s)'
               /\ ~disabled' /\ Owed(s)' => Cardinality(BreakRows(s)') + 1 <= Lost(s)'
    BY <1>5, <1>6, QuietBreaks
  <2> QED BY <1>6, <2>1 DEF BreakInv
\* A row lost behind a fragment, at the start of a life: every chain was empty,
\* so a session with rows already owed its next one.
<1>7. CASE ~disabled /\ ~disabled' /\ torn /\ ~torn' /\ UNCHANGED log
  <2>1. Owed(t)' => Owed(t)
    <3>1. Tip(read(t)) = << >>
      BY <1>7 DEF BreakInv, Tip, GENESIS_HASH
    <3>2. \A j \in 1..Len(log) : log[j].hash # << >>
      <4>1. \A j \in 1..Len(log) : log[j] \in SessionContextEntry /\ Counted(log[j])
        BY DEF HistoryInv, IInv, StoreTypeOK
      <4>2. \A j \in 1..Len(log) : Len(log[j].prev_hash) \in Nat
        BY <4>1 DEF SessionContextEntry, Hash
      <4>3. \A j \in 1..Len(log) : Len(log[j].hash) # 0
        BY <4>1, <4>2 DEF Counted, SessionContextEntry
      <4> QED BY <4>3
    <3> QED BY <1>7, <3>1, <3>2 DEF Owed, LastRow
  <2>2. ASSUME NEW s \in Sessions
        PROVE  /\ Cardinality(BreakRows(s)') <= Lost(s)'
               /\ ~disabled' /\ Owed(s)' => Cardinality(BreakRows(s)') + 1 <= Lost(s)'
    <3>1. s # t /\ read(s)' = read(s) => (Owed(s)' => Owed(s))
      BY <1>7 DEF Owed, LastRow
    <3> QED BY <1>5, <1>7, <2>1, <3>1, QuietBreaks
  <2> QED BY <1>7, <2>2 DEF BreakInv
<1>8. CASE ~disabled /\ ~disabled' /\ ~torn /\ ~torn' /\ log' = Append(log, e)
  <2>0. \A s \in Sessions : IsFiniteSet(BreakRows(s)) /\ Cardinality(BreakRows(s)) \in Nat
    BY BreakRowsFinite DEF IInv, StoreTypeOK
  <2>1. /\ Cardinality(BreakRows(t)') <= Lost(t)'
        /\ ~Owed(t)'
    <3>1. CASE Owed(t)
      <4>1. Cardinality(BreakRows(t)') = Cardinality(BreakRows(t)) + 1
        <5>1. BreakRows(t)' = BreakRows(t) \cup {Len(log) + 1} /\ Len(log) + 1 \notin BreakRows(t)
          BY <1>2, <1>8, <3>1, RowAdded
        <5> QED BY <2>0, <5>1, FS_AddElement
      <4> QED BY <1>2, <1>4, <1>5, <1>8, <2>0, <3>1, <4>1, RowAdded DEF BreakInv, Owed
    <3>2. CASE ~Owed(t)
      <4>1. Cardinality(BreakRows(t)') = Cardinality(BreakRows(t))
        BY <1>2, <1>8, <3>2, RowAdded
      <4> QED BY <1>2, <1>4, <1>5, <1>8, <2>0, <3>2, <4>1, RowAdded DEF BreakInv, Owed
    <3> QED BY <3>1, <3>2
  <2>2. ASSUME NEW s \in Sessions, s # t
        PROVE  /\ Cardinality(BreakRows(s)') <= Lost(s)'
               /\ Owed(s)' => Cardinality(BreakRows(s)') + 1 <= Lost(s)'
    <3>1. BreakRows(s)' = BreakRows(s) /\ \A j : LastRow(s, j)' <=> LastRow(s, j)
      BY <1>2, <1>8, <2>2, RowAdded
    <3>2. read(s)' = read(s) => (Owed(s)' => Owed(s))
      <4>1. \A j \in 1..Len(log) : log'[j] = log[j]
        BY <1>2, <1>8 DEF IInv, StoreTypeOK
      <4> QED BY <3>1, <4>1 DEF Owed, LastRow
    <3> QED BY <1>5, <1>8, <2>0, <2>2, <3>1, <3>2 DEF BreakInv
  <2> QED BY <1>8, <2>1, <2>2 DEF BreakInv
<1>9. \/ disabled' /\ UNCHANGED log
      \/ ~disabled /\ ~disabled' /\ torn /\ ~torn' /\ UNCHANGED log
      \/ ~disabled /\ ~disabled' /\ ~torn /\ ~torn' /\ log' = Append(log, e)
  BY <1>0 DEF appendLine
<1> QED BY <1>6, <1>7, <1>8, <1>9

LEMMA BreaksKept == IInv /\ HistoryInv /\ BreakInv /\ [StoreNext]_storeVars => BreakInv'
<1> SUFFICES ASSUME IInv, HistoryInv, BreakInv, [StoreNext]_storeVars PROVE BreakInv'
  OBVIOUS
<1>0. \A s \in Sessions : GoodState(s, read(s))
  BY ReadIsGood
<1>1. ASSUME NEW s \in Sessions, NEW step \in Steps, append(s, step) PROVE BreakInv'
  BY <1>1, AppendKeepsBreaks
<1>2. ASSUME NEW s \in Sessions, NEW text \in Intents, setIntent(s, text) PROVE BreakInv'
  <2> DEFINE next == [read(s) EXCEPT !.intent = IF @ = NoIntent THEN text ELSE @]
  <2>1. Write(s, next) /\ UNCHANGED <<log, torn, disabled, restarts>> /\ next.entries = read(s).entries
    BY <1>0, <1>2 DEF setIntent, GoodState, SessionState
  <2> HIDE DEF next
  <2> QED BY <2>1, WriteKeepsBreaks
<1>3. ASSUME NEW s \in Sessions, NEW labels \in IfcLabels, replaceIfcLabels(s, labels)
      PROVE  BreakInv'
  <2> DEFINE next == [read(s) EXCEPT !.ifc_labels = labels]
  <2>1. Write(s, next) /\ UNCHANGED <<log, torn, disabled, restarts>> /\ next.entries = read(s).entries
    BY <1>0, <1>3 DEF replaceIfcLabels, GoodState, SessionState
  <2> HIDE DEF next
  <2> QED BY <2>1, WriteKeepsBreaks
\* A restart empties every chain, and accounts for one break of each session.
<1>4. CASE Restart
  <2>1. \A s \in Sessions : read(s)' = emptySessionState
    BY <1>4 DEF Restart, read, Retained, NoSessions
  <2>2. ASSUME NEW s \in Sessions
        PROVE  /\ Cardinality(BreakRows(s)') <= Lost(s)'
               /\ ~disabled' /\ Owed(s)' => Cardinality(BreakRows(s)') + 1 <= Lost(s)'
    <3>1. Lost(s) \in Nat /\ Lost(s)' \in Nat /\ Lost(s)' > Lost(s) /\ UNCHANGED log
      BY <1>4, BoundsAssumption DEF Restart, Lost, IInv, StoreTypeOK
    <3> QED BY <3>1, QuietBreaks
  <2> QED BY <2>1, <2>2 DEF BreakInv, emptySessionState
<1>5. CASE UNCHANGED storeVars
  <2>1. /\ UNCHANGED <<log, evictions, restarts, torn, disabled>>
        /\ \A s : read(s)' = read(s)
    BY <1>5 DEF storeVars, read, Retained
  <2>2. \A s : BreakRows(s)' = BreakRows(s) /\ (Owed(s)' <=> Owed(s)) /\ Lost(s)' = Lost(s)
    BY <2>1 DEF BreakRows, checkSessionChainLink, PriorRow, Owed, LastRow, Lost
  <2> QED BY <2>1, <2>2 DEF BreakInv
<1> QED BY <1>1, <1>2, <1>3, <1>4, <1>5 DEF StoreNext

\* The CHAIN BREAK rows a reader sees are the sessions that started over, no
\* more and no fewer, whatever was evicted, refused by the disk or restarted.
THEOREM BreaksAreExactHolds == StoreSpec => []BreaksAreExact
<1>1. StoreInit => BreakInv
  <2> SUFFICES ASSUME StoreInit PROVE BreakInv
    OBVIOUS
  <2>1. \A s : BreakRows(s) = {} /\ ~Owed(s)
    BY DEF StoreInit, BreakRows, Owed
  <2>2. \A s \in Sessions : Lost(s) = 0
    BY DEF StoreInit, Lost
  <2>3. \A s : Cardinality(BreakRows(s)) = 0
    BY <2>1, FS_EmptySet
  <2>4. torn = FALSE
    BY DEF StoreInit
  <2> QED BY <2>1, <2>2, <2>3, <2>4 DEF BreakInv
<1>2. BreakInv => BreaksExplained
  BY DEF BreakInv, BreaksExplained, BreakRows, Lost
<1> QED BY <1>1, <1>2, BreaksKept, StoreInvariant, HistoryHolds, UnbrokenRowsContinue, PTL
        DEF StoreSpec, BreaksAreExact
=============================================================================
