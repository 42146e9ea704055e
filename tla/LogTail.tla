------------------------------ MODULE LogTail ------------------------------
(***************************************************************************)
(* The Inspector's tails (agt/packages/inspector/src): a poller that       *)
(* follows a log other processes append to, truncate, remove and recreate, *)
(* the queue between the poller and the generator that drains it, and the  *)
(* posture badge kept from the audit entries shown.                        *)
(*                                                                         *)
(* A line reaches the file in two pieces, its head and its newline-ended   *)
(* rest, so a poll can land within it; offsets count pieces.  One poll     *)
(* looks, takes the size, and reads: other processes may act in between.   *)
(***************************************************************************)
EXTENDS Integers, Sequences, FiniteSets

CONSTANTS MaxLines,   \* lines the writers append
          LineKinds,  \* the kinds of line they append
          FirstKinds, \* the outcome of the entry a log may begin with
          MaxFaults,  \* truncations, removals and denials of reading
          None

Outcomes == {"proceeded", "blocked", "ungoverned"}
Kinds == Outcomes \cup {"noise", "blank"}  \* not an entry's shape; white space

ASSUME TailAssumption == MaxLines \in Nat /\ MaxFaults \in Nat
                         /\ LineKinds \subseteq Kinds /\ FirstKinds \subseteq Outcomes

VARIABLES
  tracksAbsence,                \* the audit and session-context tails do; the envelope tail does not
  disk, present, readable,      \* the file
  writing,                      \* the line a writer is in the middle of, or None
  phase, size,                  \* the poll under way, and the size it took
  offset, pending, everExisted, missing, failing, \* the tail's locals
  ready, stopped, consumer,     \* the queue and the generator that drains it
  shown, badge,                 \* what the Inspector printed
  base, taken, stale, raced,    \* history: the read since the last restart
  reports, faults, lines        \* history: reports made, faults and lines so far

file == <<disk, present, readable, writing, faults, lines>>
reader == <<offset, pending, everExisted, missing, failing>>
queue == <<ready, stopped, consumer, shown, badge>>
vars == <<tracksAbsence, file, phase, size, reader, queue, base, taken, stale, raced, reports>>

(* The complete lines of a run of pieces, and what follows the last of     *)
(* them.  Only the two pieces of one entry, together, are an entry.        *)
Ends(bytes) == {i \in DOMAIN bytes : bytes[i].end}
LastEnd(bytes) == IF Ends(bytes) = {} THEN 0 ELSE CHOOSE i \in Ends(bytes) : \A j \in Ends(bytes) : j <= i
completeLines(bytes) == SubSeq(bytes, 1, LastEnd(bytes))
unfinished(bytes) == SubSeq(bytes, LastEnd(bytes) + 1, Len(bytes))
StartsLine(bytes, i) == i = 1 \/ bytes[i - 1].end
IsEntry(bytes, i) ==  \* a line that ends at i and has an entry's shape
  /\ bytes[i].end /\ bytes[i].kind \in Outcomes
  /\ i > 1 /\ StartsLine(bytes, i - 1) /\ ~bytes[i - 1].end
  /\ bytes[i - 1].id = bytes[i].id

(* The entries that end at these places, from the first to the last.       *)
rank(at, i) == Cardinality({j \in at : j <= i})
nth(at, k) == CHOOSE i \in at : rank(at, i) = k
entryAt(bytes, i) == [id |-> bytes[i].id, outcome |-> bytes[i].kind]
entriesAt(bytes, at) == [k \in 1..Cardinality(at) |-> entryAt(bytes, nth(at, k))]

Entries(bytes) == {i \in DOMAIN bytes : IsEntry(bytes, i)}
parsed(bytes) == entriesAt(bytes, Entries(bytes))

sizeOf == IF present THEN Len(disk) ELSE 0

Init ==
  /\ tracksAbsence \in BOOLEAN
  /\ present \in BOOLEAN /\ readable = TRUE /\ writing = None
  /\ disk \in {<<>>} \cup (IF present THEN {<<[id |-> 1, kind |-> k, end |-> FALSE],
                                              [id |-> 1, kind |-> k, end |-> TRUE]>> : k \in FirstKinds}
                           ELSE {})
  /\ lines = IF disk = <<>> THEN 0 ELSE 1
  /\ offset \in {0, sizeOf}  \* fromStart, or the size now
  /\ phase = "idle" /\ size = 0
  /\ pending = <<>> /\ everExisted = FALSE /\ missing = FALSE /\ failing = FALSE
  /\ ready = <<>> /\ stopped = FALSE /\ consumer = "unstarted"
  /\ shown = <<>> /\ badge = [posture |-> None, proceeds |-> 0]
  /\ base = offset /\ taken = <<>> /\ stale = FALSE /\ raced = FALSE
  /\ reports = [missing |-> 0, failing |-> 0] /\ faults = [removed |-> 0, other |-> 0]

----------------------------------------------------------------------------
(* The writers and whoever manages the file.                               *)

piece(id, kind, end) == [id |-> id, kind |-> kind, end |-> end]

WriteHead == \E kind \in LineKinds \ {"blank"} :
  /\ lines < MaxLines
  /\ lines' = lines + 1
  /\ disk' = Append(disk, piece(lines + 1, kind, FALSE))
  /\ present' = TRUE
  /\ readable' = (readable \/ ~present)
  /\ writing' = piece(lines + 1, kind, TRUE)
  /\ UNCHANGED faults

WriteRest ==
  /\ writing # None
  /\ disk' = Append(disk, writing)
  /\ writing' = None
  /\ UNCHANGED <<present, readable, faults, lines>>

WriteBlank ==
  /\ lines < MaxLines /\ present /\ "blank" \in LineKinds
  /\ lines' = lines + 1
  /\ disk' = Append(disk, piece(lines + 1, "blank", TRUE))
  /\ UNCHANGED <<present, readable, writing, faults>>

Faulty == faults.removed + faults.other < MaxFaults /\ present

Truncate ==
  /\ Faulty
  /\ disk' = <<>>
  /\ faults' = [faults EXCEPT !.other = @ + 1]
  /\ UNCHANGED <<present, readable, writing, lines>>

Unlink ==  \* what a writer still has open goes with the file
  /\ Faulty
  /\ disk' = <<>> /\ present' = FALSE /\ readable' = TRUE /\ writing' = None
  /\ faults' = [faults EXCEPT !.removed = @ + 1]
  /\ UNCHANGED lines

Deny ==
  /\ Faulty /\ readable
  /\ readable' = FALSE
  /\ faults' = [faults EXCEPT !.other = @ + 1]
  /\ UNCHANGED <<disk, present, writing, lines>>

Allow == /\ ~readable /\ readable' = TRUE
         /\ UNCHANGED <<disk, present, writing, faults, lines>>

(* The tail reads on in a file that is no longer the one it was reading.   *)
Replaced ==
  /\ stale' = (stale \/ offset > 0 \/ phase = "read")
  /\ raced' = (raced \/ phase = "read")

Writer == /\ WriteHead \/ WriteRest \/ WriteBlank \/ Deny \/ Allow
          /\ UNCHANGED <<stale, raced>>
Environment ==
  /\ Writer \/ ((Truncate \/ Unlink) /\ Replaced)
  /\ UNCHANGED <<tracksAbsence, phase, size, reader, queue, base, taken, reports>>

----------------------------------------------------------------------------
(* One poll.                                                               *)

reset ==
  /\ offset' = 0 /\ pending' = <<>>
  /\ base' = 0 /\ taken' = <<>> /\ stale' = FALSE
keep == UNCHANGED <<offset, pending, base, taken, stale>>

(* The timer is set by the first next(); a generator that can go on does   *)
(* so before the timer fires again.                                        *)
Polling == consumer = "parked" /\ ~stopped

(* existsSync, for the tails that track absence: reported once per gap.    *)
\* Mutant: reported at every tick.
AbsentEveryTick ==
  /\ tracksAbsence /\ ~present
  /\ IF everExisted
     THEN missing' = TRUE /\ reports' = [reports EXCEPT !.missing = @ + 1]
     ELSE UNCHANGED <<missing, reports>>
  /\ phase' = "idle"
  /\ keep /\ UNCHANGED <<everExisted, failing, size>>

Absent ==
  /\ tracksAbsence /\ ~present
  /\ IF everExisted /\ ~missing
     THEN missing' = TRUE /\ reports' = [reports EXCEPT !.missing = @ + 1]
     ELSE UNCHANGED <<missing, reports>>
  /\ phase' = "idle"
  /\ keep /\ UNCHANGED <<everExisted, failing, size>>

SeenLeaving(gap) ==
  /\ tracksAbsence => present
  /\ everExisted' = (everExisted \/ tracksAbsence)
  /\ missing' = gap
  /\ IF missing THEN reset ELSE keep
  /\ phase' = "stat"
  /\ UNCHANGED <<failing, reports, size>>
\* Mutant: a gap that is over is not forgotten.
SeenStillMissing == SeenLeaving(missing)
Seen == SeenLeaving(FALSE)

PollLook == phase = "idle" /\ Polling /\ (Absent \/ Seen) /\ UNCHANGED <<ready, consumer, raced>>

(* The catch of poll: reported once per transition into failure.           *)
Throws ==
  /\ failing' = TRUE
  /\ reports' = IF failing THEN reports ELSE [reports EXCEPT !.failing = @ + 1]
  /\ phase' = "idle"

(* statSync throws for a file gone since; the envelope tail's sizeOf does  *)
(* not.  With nothing new the tick is over, and was a success.             *)
PollStat ==
  /\ phase = "stat"
  /\ IF tracksAbsence /\ ~present
     THEN Throws /\ keep /\ UNCHANGED size
     ELSE /\ size' = sizeOf
          /\ IF sizeOf < offset THEN reset ELSE keep
          /\ IF size' > offset'
             THEN phase' = "read" /\ UNCHANGED <<failing, reports>>
             ELSE phase' = "idle" /\ failing' = FALSE /\ UNCHANGED reports
  /\ UNCHANGED <<everExisted, missing, ready, consumer, raced>>

readRange == SubSeq(disk, offset + 1, IF size < Len(disk) THEN size ELSE Len(disk))

(* pending grows by what was read, which may be less than was asked for;   *)
(* the offset moves to the size; the complete lines are taken, an entry to *)
(* the queue, a malformed one to its reporter, a blank one nowhere.        *)
TakeBytes(rest, wakes) ==
  LET entries == parsed(completeLines(pending \o readRange))
  IN  /\ pending' = rest
      /\ offset' = size
      /\ ready' = ready \o entries
      /\ taken' = taken \o entries
      /\ consumer' = IF wakes /\ entries # <<>> /\ consumer = "parked" THEN "woken" ELSE consumer
      /\ failing' = FALSE
      /\ phase' = "idle"
      /\ UNCHANGED <<base, stale, reports>>

\* Mutant: the consumer is not woken.
TakeWithoutWaking == TakeBytes(unfinished(pending \o readRange), FALSE)
Take == TakeBytes(unfinished(pending \o readRange), TRUE)

PollRead ==
  /\ phase = "read"
  /\ IF present /\ readable THEN Take ELSE Throws /\ keep /\ UNCHANGED <<ready, consumer>>
  /\ UNCHANGED <<size, everExisted, missing, raced>>

Poll == /\ PollLook \/ PollStat \/ PollRead
        /\ UNCHANGED <<tracksAbsence, file, stopped, shown, badge>>

----------------------------------------------------------------------------
(* The generator and the pump that prints what it yields.                  *)

posture(outcome) == IF outcome = "proceeded" THEN "proceed" ELSE "deny"

\* Mutant: a step nobody asked about counts as a proceed.
noteAuditEntryAny(entry) ==
  [posture |-> posture(entry.outcome),
   proceeds |-> badge.proceeds + (IF entry.outcome # "blocked" THEN 1 ELSE 0)]

noteAuditEntry(entry) ==
  IF entry.outcome = "ungoverned" THEN badge
  ELSE [posture |-> posture(entry.outcome),
        proceeds |-> badge.proceeds + (IF entry.outcome = "proceeded" THEN 1 ELSE 0)]

(* One turn of drain: yield an entry, end, or wait.  A poll is synchronous *)
(* and is not interrupted by it.                                           *)
Drain ==
  /\ phase = "idle" /\ consumer \in {"unstarted", "woken", "holding"}
  /\ CASE ready # <<>> -> /\ consumer' = "holding"
                          /\ ready' = Tail(ready)
                          /\ shown' = Append(shown, Head(ready))
                          /\ badge' = noteAuditEntry(Head(ready))
       [] ready = <<>> /\ stopped -> consumer' = "done" /\ UNCHANGED <<ready, shown, badge>>
       [] OTHER -> consumer' = "parked" /\ UNCHANGED <<ready, shown, badge>>
  /\ UNCHANGED <<tracksAbsence, file, phase, size, reader, stopped, base, taken, stale, raced, reports>>

\* Mutant: stop clears the timer and wakes nobody.
AbortSilently ==
  /\ phase = "idle" /\ ~stopped
  /\ stopped' = TRUE
  /\ UNCHANGED <<tracksAbsence, file, phase, size, reader, ready, consumer, shown, badge,
                 base, taken, stale, raced, reports>>

Abort ==
  /\ phase = "idle" /\ ~stopped
  /\ stopped' = TRUE
  /\ consumer' = IF consumer = "parked" THEN "woken" ELSE consumer
  /\ UNCHANGED <<tracksAbsence, file, phase, size, reader, ready, shown, badge,
                 base, taken, stale, raced, reports>>

Next == Environment \/ Poll \/ Drain \/ Abort

Spec == Init /\ [][Next]_vars /\ WF_vars(Poll) /\ WF_vars(Drain)

----------------------------------------------------------------------------
(* However polls and writes interleave, the tail has taken the entries     *)
(* whose lines end in the part of the file it has read, each once and in   *)
(* order, and holds the bytes behind the last newline: no line is lost,    *)
(* doubled or cut by where a poll happened to land (tail-audit-log.ts:265).*)
(* This is of a file that was not replaced without the tail noticing.      *)
TakenExactly ==
  LET read == SubSeq(disk, base + 1, offset)
  IN  ~stale => /\ offset <= Len(disk)
                /\ taken = parsed(completeLines(read))
                /\ pending = unfinished(read)

(* The Inspector shows no entry twice and none out of order, over any      *)
(* number of truncations and recreations, unless one of them fell between  *)
(* the size and the read of a single poll (tail-audit-log.ts:257-267).     *)
ShownInOrder ==
  ~raced => \A i, j \in DOMAIN (shown \o ready) :
              i < j => (shown \o ready)[i].id < (shown \o ready)[j].id

(* Every line of the log is taken and shown once and in order.              *)
EachLineOnceInOrder == TakenExactly /\ ShownInOrder

(* A human is told once per incident, never once per tick: no more reports *)
(* that the log is gone than it was removed, and no more failed reads      *)
(* reported than incidents that could cause one (tail-audit-log.ts:211,    *)
(* :234, :325).                                                            *)
ReportsAreFew ==
  /\ reports.missing <= faults.removed
  /\ reports.failing <= faults.removed + faults.other

(* The badge in front of the operator is the posture of the last posture-  *)
(* resolved entry shown and the number of proceeds shown, ungoverned steps *)
(* moving neither (main.ts:94-113).                                        *)
BadgeIsWhatWasShown ==
  LET resolved == {i \in DOMAIN shown : shown[i].outcome # "ungoverned"}
  IN  /\ badge.proceeds = Cardinality({i \in DOMAIN shown : shown[i].outcome = "proceeded"})
      /\ IF resolved = {} THEN badge.posture = None
         ELSE \E last \in resolved : /\ \A i \in resolved : i <= last
                                     /\ badge.posture = posture(shown[last].outcome)

(* Every entry completed behind the place the tail started from is shown   *)
(* in the end, unless the tail is stopped, the file is replaced or cannot  *)
(* be read: no poll and no wake-up is lost between the timer and the       *)
(* generator (tail-audit-log.ts:220-226).                                  *)
Due(id) ==
  /\ \E i \in DOMAIN disk : i > base + 1 /\ disk[i].id = id
                            /\ IsEntry(SubSeq(disk, base + 1, Len(disk)), i - base)
  /\ ~stale
LinesAreShown ==
  []<>(\/ stopped \/ ~readable
       \/ \A id \in 1..MaxLines : Due(id) => \E i \in DOMAIN shown : shown[i].id = id)

(* A tail that is stopped hands out what it had parsed and ends, wherever  *)
(* its generator was (tail-audit-log.ts:332-376).                          *)
TailEnds == stopped ~> (consumer = "done" /\ ready = <<>>)

=============================================================================
