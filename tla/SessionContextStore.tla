------------------------- MODULE SessionContextStore -------------------------
(***************************************************************************)
(* The Guardian's in-memory session-context store                          *)
(* (packages/guardian/src/session-context-store.ts): one hash chain, one   *)
(* intent and one set of IFC labels per session, a cap on the sessions     *)
(* retained, and the session-context log the Inspector reads.              *)
(*                                                                         *)
(* A SHA-256 chain hash commits to everything before it, so a hash is      *)
(* modelled as what it commits to: the sequence of facts of the entries it *)
(* covers, the newest last.  Two hashes are equal exactly when the         *)
(* histories are; GENESIS_HASH is the empty one.  recorded_at and          *)
(* tool_name, which no decision of the store reads, are left out, so the   *)
(* model has more equal hashes than the code, never fewer.                 *)
(***************************************************************************)
EXTENDS Naturals, Sequences, FiniteSets

CONSTANTS
  Sessions,      \* the session ids that occur
  RequestIds,    \* the request_id of a step
  IfcLabels,     \* the label arrays a verdict can return
  PublicLabels,  \* ["public"], what a session is born with
  Intents,       \* the intent texts a session can declare
  NoIntent,      \* a session that declared none (undefined)
  NoRef,         \* an entry without request_id_ref
  Steps,         \* the steps the callers append
  MaxSessions,   \* the retained-session cap, DEFAULT_MAX_SESSIONS in the code
  MaxWrites,     \* bound: writes over all process lives
  MaxRestarts    \* bound: restarts of the Guardian process

ASSUME CapAssumption == MaxSessions \in Nat \ {0}
ASSUME LabelsAssumption == PublicLabels \in IfcLabels
ASSUME NoIntentAssumption == NoIntent \notin Intents
ASSUME BoundsAssumption == MaxWrites \in Nat /\ MaxRestarts \in Nat

TOOL_CALL_REQUEST == "steps/toolCallRequest"
TOOL_CALL_RESULT == "steps/toolCallResult"
Methods == {TOOL_CALL_REQUEST, TOOL_CALL_RESULT}
Findings == {"request_id_duplicate", "request_id_ref_unresolved"}

\* What a caller of append contributes to the chain.
SessionStep == [method : Methods, request_id : RequestIds,
                findings : SUBSET Findings, request_id_ref : RequestIds \cup {NoRef}]

ASSUME StepsAssumption == Steps \subseteq SessionStep

\* What one entry adds to the history its hash commits to.
Fact == [session_id : Sessions, seq : Nat, step : SessionStep]
Hash == Seq(Fact)
GENESIS_HASH == << >>

SessionContextEntry == [session_id : Sessions, seq : Nat, step : SessionStep,
                        prev_hash : Hash, hash : Hash]

SessionState == [entries : Seq(SessionContextEntry),
                 toolCallRequestIds : SUBSET RequestIds,
                 requestIds : SUBSET RequestIds,
                 intent : Intents \cup {NoIntent},
                 ifc_labels : IfcLabels]

VARIABLES
  sessions,   \* retained session id -> its SessionState
  order,      \* the Map's insertion order, least recently written first
  log,        \* the whole rows of the session-context log, in file order
  torn,       \* the log file ends in a fragment of a row, with no newline
  disabled,   \* the log appender met a failure and stopped for this life
  evictions,  \* history: evictions reported per session (onEvict)
  lastWrite,  \* history: when each session was last written
  writes,     \* history: writes so far
  restarts    \* history: restarts so far

storeVars == <<sessions, order, log, torn, disabled, evictions, lastWrite, writes, restarts>>

Retained == DOMAIN sessions
Elems(q) == {q[i] : i \in 1..Len(q)}

emptySessionState == [entries |-> << >>, toolCallRequestIds |-> {}, requestIds |-> {},
                      intent |-> NoIntent, ifc_labels |-> PublicLabels]

NoSessions == [s \in {} |-> emptySessionState]

-----------------------------------------------------------------------------
(* Reads: they neither create a session nor renew it. *)

read(s) == IF s \in Retained THEN sessions[s] ELSE emptySessionState
hasToolCallRequest(s, id) == s \in Retained /\ id \in sessions[s].toolCallRequestIds
hasRequestId(s, id) == s \in Retained /\ id \in sessions[s].requestIds
sourceLabels(s) == read(s).ifc_labels

-----------------------------------------------------------------------------
(* Writes. *)

\* The order without s: what Map.delete leaves.
Without(q, s) ==
  IF s \in Elems(q)
  THEN LET k == CHOOSE i \in 1..Len(q) : q[i] = s
       IN [i \in 1..(Len(q) - 1) |-> IF i < k THEN q[i] ELSE q[i + 1]]
  ELSE q

\* What is left of an order once its oldest ids past the cap are gone.
\* Mutant: the cap drops the youngest id.
evictYoungest(q) == IF Len(q) > MaxSessions THEN SubSeq(q, 1, MaxSessions) ELSE q

evictToCap(q) ==
  IF Len(q) > MaxSessions THEN SubSeq(q, Len(q) - MaxSessions + 1, Len(q)) ELSE q

\* s moved, or inserted, at the young end; an insertion may evict the oldest.
ensure(s) == evictToCap(Append(Without(order, s), s))

\* Every write ensures the session, then stores its next state.
Write(s, next) ==
  /\ writes < MaxWrites
  /\ order' = ensure(s)
  /\ sessions' = [t \in Elems(order') |-> IF t = s THEN next ELSE sessions[t]]
  /\ evictions' = [t \in Sessions |->
                     IF t \in Retained \ Elems(order') THEN evictions[t] + 1 ELSE evictions[t]]
  /\ writes' = writes + 1
  /\ lastWrite' = [lastWrite EXCEPT ![s] = writes + 1]

hashEntry(prev, s, n, step) == Append(prev, [session_id |-> s, seq |-> n, step |-> step])

\* The entry append builds on the chain of a session in state st.
nextEntry(st, s, step) ==
  LET n == Len(st.entries)
      seq == IF n = 0 THEN 1 ELSE st.entries[n].seq + 1
      prev == IF n = 0 THEN GENESIS_HASH ELSE st.entries[n].hash
  IN [session_id |-> s, seq |-> seq, step |-> step,
      prev_hash |-> prev, hash |-> hashEntry(prev, s, seq, step)]

\* Mutant: a chain keeps its newest entry only.
pushTruncating(st, entry) ==
  [st EXCEPT !.entries = <<entry>>, !.requestIds = @ \cup {entry.step.request_id}]

push(st, entry) ==
  [st EXCEPT !.entries = Append(@, entry),
             !.requestIds = @ \cup {entry.step.request_id},
             !.toolCallRequestIds =
               IF entry.step.method = TOOL_CALL_REQUEST
               THEN @ \cup {entry.step.request_id} ELSE @]

\* Mutant: a failed append does not stop the appender.
appendLineRetrying(entry) ==
  \/ /\ log' = IF torn THEN log ELSE Append(log, entry)
     /\ torn' = FALSE
     /\ UNCHANGED disabled
  \/ UNCHANGED <<log, torn, disabled>>

\* The row an appended line becomes: none when it lands behind a fragment,
\* because the two then read as one malformed line.
appendLine(entry) ==
  \/ disabled /\ UNCHANGED <<log, torn, disabled>>
  \/ /\ ~disabled
     /\ log' = IF torn THEN log ELSE Append(log, entry)
     /\ torn' = FALSE
     /\ UNCHANGED disabled
  \/ /\ ~disabled                       \* the file system refuses the append,
     /\ disabled' = TRUE                \* after writing part of the line or none
     /\ torn' \in {torn, TRUE}
     /\ UNCHANGED log

append(s, step) ==
  LET entry == nextEntry(read(s), s, step)
  IN /\ Write(s, push(read(s), entry))
     /\ appendLine(entry)
     /\ UNCHANGED restarts

setIntent(s, text) ==
  /\ Write(s, [read(s) EXCEPT !.intent = IF @ = NoIntent THEN text ELSE @])
  /\ UNCHANGED <<log, torn, disabled, restarts>>

replaceIfcLabels(s, labels) ==
  /\ Write(s, [read(s) EXCEPT !.ifc_labels = labels])
  /\ UNCHANGED <<log, torn, disabled, restarts>>

\* The process ends and starts again: the memory is gone, the file stays.
\* The new appender can find its directory impossible to make.
Restart ==
  /\ restarts < MaxRestarts
  /\ restarts' = restarts + 1
  /\ sessions' = NoSessions
  /\ order' = << >>
  /\ disabled' \in BOOLEAN
  /\ UNCHANGED <<log, torn, evictions, lastWrite, writes>>

StoreInit ==
  /\ sessions = NoSessions
  /\ order = << >>
  /\ log = << >>
  /\ torn = FALSE
  /\ disabled \in BOOLEAN
  /\ evictions = [s \in Sessions |-> 0]
  /\ lastWrite = [s \in Sessions |-> 0]
  /\ writes = 0
  /\ restarts = 0

StoreNext ==
  \/ \E s \in Sessions, step \in Steps : append(s, step)
  \/ \E s \in Sessions, text \in Intents : setIntent(s, text)
  \/ \E s \in Sessions, labels \in IfcLabels : replaceIfcLabels(s, labels)
  \/ Restart

StoreSpec == StoreInit /\ [][StoreNext]_storeVars

-----------------------------------------------------------------------------
(* The Inspector's reading of the log (packages/inspector/src/render.ts).   *)

\* j is the row the Inspector saw last for the session of row i.
PriorRow(i, j) ==
  /\ j < i
  /\ log[j].session_id = log[i].session_id
  /\ \A k \in (j + 1)..(i - 1) : log[k].session_id # log[i].session_id

\* Row i is rendered as a CHAIN BREAK.
checkSessionChainLink(i) ==
  \E j \in 1..Len(log) : PriorRow(i, j) /\ log[j].hash # log[i].prev_hash

-----------------------------------------------------------------------------
(* Properties. *)

\* Every variable has the values the code can give it.
StoreTypeOK ==
  /\ Retained \subseteq Sessions
  /\ sessions \in [Retained -> SessionState]
  /\ order \in Seq(Sessions)
  /\ log \in Seq(SessionContextEntry)
  /\ torn \in BOOLEAN
  /\ disabled \in BOOLEAN
  /\ evictions \in [Sessions -> Nat]
  /\ lastWrite \in [Sessions -> Nat]
  /\ writes \in 0..MaxWrites
  /\ restarts \in 0..MaxRestarts

\* A session's entries form one unbroken chain from GENESIS_HASH, numbered
\* from 1, each naming and committing to the one before it.
EntireChain(s, entries) ==
  \A i \in 1..Len(entries) :
    /\ entries[i].session_id = s
    /\ entries[i].seq = i
    /\ entries[i].prev_hash = IF i = 1 THEN GENESIS_HASH ELSE entries[i - 1].hash
    /\ entries[i].hash = hashEntry(entries[i].prev_hash, s, i, entries[i].step)

\* "A retained session's chain is entire": whatever was appended, evicted,
\* renewed or relabelled, no retained session has a chain with its front, a
\* middle entry or a link missing.
ChainEntire == \A s \in Retained : EntireChain(s, sessions[s].entries)

\* The two id sets kept beside the chain for quick lookups hold exactly the
\* ids a scan of the chain would find, through eviction and rebirth.
IdsAgreeWithChain ==
  \A s \in Retained :
    LET chain == sessions[s].entries
        ids(rows) == {chain[i].step.request_id : i \in rows}
    IN /\ sessions[s].requestIds = ids(1..Len(chain))
       /\ sessions[s].toolCallRequestIds =
            ids({i \in 1..Len(chain) : chain[i].step.method = TOOL_CALL_REQUEST})

\* The Map's insertion order is the order of last writes and holds every
\* retained session once, never more than the cap.
OrderIsWriteRecency ==
  /\ Elems(order) = Retained
  /\ \A i, j \in 1..Len(order) : i < j => lastWrite[order[i]] < lastWrite[order[j]]
  /\ Len(order) <= MaxSessions

\* An eviction takes the sessions written longest ago and never the one being
\* written, and it is reported; nothing but a restart forgets a session
\* without a report.
EvictsOnlyTheIdle ==
  [][restarts' = restarts =>
       /\ \A s \in Sessions : lastWrite'[s] # lastWrite[s] => s \in Retained'
       /\ \A s \in Retained \ Retained' :
            /\ evictions'[s] = evictions[s] + 1
            /\ \A t \in Retained' : lastWrite[s] < lastWrite'[t]]_storeVars

\* The Inspector never cries wolf: a session has no more CHAIN BREAK rows than
\* the evictions reported for it and the restarts of the process, so a log
\* that lost a row and then resumed within one life would be found out.
BreaksExplained ==
  \A s \in Sessions :
    Cardinality({i \in 1..Len(log) : log[i].session_id = s /\ checkSessionChainLink(i)})
      <= evictions[s] + restarts

\* The evidence is worth something: a row that is not a CHAIN BREAK is exactly
\* the successor, in the session's chain, of the row shown before it, so a
\* session that starts over after an eviction or a restart shows as a break
\* and never as a continuation or a fresh session.
UnbrokenRowsAreConsecutive ==
  \A i, j \in 1..Len(log) :
    (PriorRow(i, j) /\ ~checkSessionChainLink(i)) => log[i].seq = log[j].seq + 1

\* The CHAIN BREAK rows are the sessions that started over, no more and no fewer.
BreaksAreExact == BreaksExplained /\ UnbrokenRowsAreConsecutive

=============================================================================
