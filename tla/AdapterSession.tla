--------------------------- MODULE AdapterSession ----------------------------
(***************************************************************************)
(* The hook processes of one Claude Code session over the files they share  *)
(* (acs/client/_handshake.py open_session, acs/client/_config.py and the    *)
(* hook of acs/integrations/claude_code/adapter.py).  Each hook process     *)
(* handles one event and ends; hooks run at the same time, and the host     *)
(* may kill one at any point.  A host session is a sequence of ACS          *)
(* sessions, the generations: a SessionEnd ends one and the next hook       *)
(* opens the next.  One action is one step on a shared file, or one arrival *)
(* at the Guardian, or the return of its answer.  The Guardian is external. *)
(***************************************************************************)
EXTENDS Integers, Sequences, FiniteSets

CONSTANTS
  Hooks,       \* the hook processes
  Events,      \* what each one may be started for: see Event
  ServerHellos,\* the handshake answers a Guardian can give: see Decision
  Unwritable,  \* the writes the file system may refuse
  MaxGen,      \* bound: ACS sessions of the host session, after the first
  None

\* hook: the event; deny: ACS_DEFAULT_DENY; startup: ACS_STARTUP_POSTURE is
\* proceed; requires: ACS_REQUIRE_PROFILES names a profile; handshake: ACS_HANDSHAKE.
Event == [hook : {"SessionStart", "step", "SessionEnd"}, deny : BOOLEAN, startup : BOOLEAN,
          requires : BOOLEAN, handshake : BOOLEAN]

\* Negotiated, with what its ServerHello says (on_decision_failure is deny; the
\* profile is accepted; sessionStart is evaluated) and the cause, if any, for
\* which its sessionStart got no decision; SessionRefused; NoAnswer.
Causes == {"undecided", "session_start_incomplete", "adapter_exception"}
Negotiated == [kind : {"negotiated"}, deny : BOOLEAN, accepts : BOOLEAN, evaluates : BOOLEAN,
               start_failure : {None} \cup Causes]
SessionRefused == [kind |-> "refused"]
NoAnswer == [kind |-> "no_answer"]
Decision == Negotiated \cup {SessionRefused, NoAnswer}
Pending == [kind |-> "pending"]

ASSUME EventsAssumption == Events \subseteq Event
ASSUME ServerHellosAssumption ==
  ServerHellos \subseteq {d \in Decision : d.kind = "negotiated" => d.start_failure = None}
ASSUME UnwritableAssumption == Unwritable \subseteq {"mark", "lock", "record", "claim", "outcome", "state"}
ASSUME MaxGenAssumption == MaxGen \in Nat
ASSUME NoneAssumption == 
  None \notin Decision \cup {Pending, "proceed", "blocked"} \cup Event \cup Causes

Gens == 0..MaxGen

VARIABLES
  record,    \* the session record of each generation: a Decision, or None
  started,   \* its startup record: Pending, a Decision, or None
  lockfile,  \* the inode its lock file names, 0 when there is none
  inodes,    \* how many inodes that name has had
  marked,    \* its .ended marker exists
  counted,   \* decision failures counted in its session state
  missed,    \* history: the failure of its sessionStart could not be counted there
  arrived,   \* what reached the Guardian: its requests, in order
  discarded, \* a SessionEnd began to remove its records
  pc, event, gen, fd, decision, result  \* each hook process: its control point, its
             \* event, its generation, the inode it opened, the decision it follows
             \* and whether its host proceeds

files == <<record, started, lockfile, inodes, marked, counted, missed, discarded>>
vars == <<files, arrived, pc, event, gen, fd, decision, result>>

Requests == {"handshake/hello", "steps/sessionStart", "step", "steps/sessionEnd"}

-----------------------------------------------------------------------------
(* Settling a decision. *)

\* FailPosture.negotiated: deny wins over proceed.
denies(e, d) == e.deny \/ (d.kind = "negotiated" /\ d.deny)

\* _required_profiles: a hook refuses for itself a negotiation that lacks its profile.
required_profiles(e, d) ==
  IF d.kind = "negotiated" /\ e.requires /\ ~d.accepts THEN SessionRefused ELSE d

\* Mutant: only the hook's own posture decides whether a failed start blocks.
gateLocally(e, d) ==
  CASE d.kind = "negotiated" -> IF d.start_failure # None /\ e.deny THEN "blocked" ELSE None
    [] d.kind = "refused" -> "blocked"
    [] d.kind = "no_answer" -> IF e.startup THEN "proceed" ELSE "blocked"

\* Config.gate: None when the step goes to the Guardian.
gate(e, d) ==
  CASE d.kind = "negotiated" ->
         IF d.start_failure # None /\ e.hook # "SessionEnd" /\ denies(e, d) THEN "blocked" ELSE None
    [] d.kind = "refused" -> "blocked"
    [] d.kind = "no_answer" -> IF e.startup THEN "proceed" ELSE "blocked"

\* Where a hook goes when its own event is settled: a SessionEnd removes the
\* session's records, and any other hook ends.
settled(e) == IF e.hook = "SessionEnd" THEN "unlink_record" ELSE "done"

\* The hook leaves open_session with d, releasing the startup lock if it holds it.
Follow(h, d) ==
  LET own == required_profiles(event[h], d)
      gated == gate(event[h], own)
  IN /\ decision' = [decision EXCEPT ![h] = own]
     /\ IF gated = None /\ event[h].hook # "SessionStart"
        THEN pc' = [pc EXCEPT ![h] = "send"] /\ UNCHANGED result
        ELSE /\ pc' = [pc EXCEPT ![h] = settled(event[h])]
             /\ result' = [result EXCEPT ![h] = IF gated = None THEN "proceed" ELSE gated]

Goto(h, label) == pc' = [pc EXCEPT ![h] = label]

\* A request reaches the Guardian, or is lost on the way.
Deliver(h, request) ==
  \/ arrived' = [arrived EXCEPT ![gen[h]] = Append(@, request)]
  \/ UNCHANGED arrived

\* A write that succeeds, or that the file system refuses.
Succeeds(file) == {TRUE} \cup (IF file \in Unwritable THEN {FALSE} ELSE {})

-----------------------------------------------------------------------------
(* The hook: main and _hook. *)

\* current_session_id: the first generation not marked ended.
current_session_id(g) == ~marked[g] /\ \A k \in 0..(g - 1) : marked[k]

\* Mutant: a SessionEnd goes to open_session at once.
BeginUnmarked(h, e) ==
  /\ pc[h] = "idle"
  /\ event' = [event EXCEPT ![h] = e]
  /\ \E g \in Gens : current_session_id(g) /\ gen' = [gen EXCEPT ![h] = g]
  /\ Goto(h, "read_record")
  /\ UNCHANGED <<files, arrived, fd, decision, result>>

\* main: the event's ACS session is looked up.
Begin(h, e) ==
  /\ pc[h] = "idle"
  /\ event' = [event EXCEPT ![h] = e]
  /\ \E g \in Gens : current_session_id(g) /\ gen' = [gen EXCEPT ![h] = g]
  /\ Goto(h, IF e.hook = "SessionEnd" THEN "mark" ELSE "read_record")
  /\ UNCHANGED <<files, arrived, fd, decision, result>>

\* mark_session_ended: unmarked, the session stays open and no sessionEnd is sent.
MarkEnded(h) ==
  /\ pc[h] = "mark"
  /\ \E ok \in Succeeds("mark") :
       /\ marked' = [marked EXCEPT ![gen[h]] = @ \/ ok]
       /\ Goto(h, IF ok THEN "read_record" ELSE "done")
  /\ UNCHANGED <<record, started, lockfile, inodes, counted, missed, discarded,
                 arrived, event, gen, fd, decision, result>>

-----------------------------------------------------------------------------
(* open_session. *)

\* Without the lock: a stored answer that is not Negotiated settles the session.
ReadRecord(h) ==
  LET stored == record[gen[h]]
  IN /\ pc[h] = "read_record"
     /\ IF stored = None \/ stored.kind = "negotiated"
        THEN /\ Goto(h, IF stored = None THEN "open_lock" ELSE "read_startup")
             /\ UNCHANGED <<decision, result>>
        ELSE Follow(h, stored)
     /\ UNCHANGED <<files, arrived, event, gen, fd>>

\* Without the lock: a recorded outcome settles it.
ReadStartup(h) ==
  LET recorded == started[gen[h]]
  IN /\ pc[h] = "read_startup"
     /\ IF recorded \in {None, Pending}
        THEN Goto(h, "open_lock") /\ UNCHANGED <<decision, result>>
        ELSE Follow(h, recorded)
     /\ UNCHANGED <<files, arrived, event, gen, fd>>

\* _locked: os.open creates the lock file where there is none.
OpenLock(h) ==
  LET g == gen[h]
      fresh == lockfile[g] = 0
  IN /\ pc[h] = "open_lock"
     /\ \E ok \in Succeeds("lock") :
          IF ok
          THEN /\ inodes' = IF fresh THEN [inodes EXCEPT ![g] = @ + 1] ELSE inodes
               /\ lockfile' = IF fresh THEN [lockfile EXCEPT ![g] = inodes'[g]] ELSE lockfile
               /\ fd' = [fd EXCEPT ![h] = lockfile'[g]]
               /\ Goto(h, "flock")
               /\ UNCHANGED <<decision, result>>
          ELSE /\ Follow(h, SessionRefused)
               /\ UNCHANGED <<inodes, lockfile, fd>>
     /\ UNCHANGED <<record, started, marked, counted, missed, discarded, arrived, event, gen>>

\* The control points at which a hook holds the startup lock.
Critical == {"decide", "hello", "await_hello", "startup", "claim", "start", "await_start", "outcome"}
Holds(h) == pc[h] \in Critical

\* Mutant: a lock outlives the process that took it.
FlockLeaked(h) ==
  /\ pc[h] = "flock"
  /\ ~\E q \in Hooks \ {h} :
       (Holds(q) \/ pc[q] = "dead") /\ gen[q] = gen[h] /\ fd[q] = fd[h]
  /\ Goto(h, "decide")
  /\ UNCHANGED <<files, arrived, event, gen, fd, decision, result>>

\* fcntl.flock waits until no process holds the lock on the same inode.
Flock(h) ==
  /\ pc[h] = "flock"
  /\ ~\E q \in Hooks \ {h} : Holds(q) /\ gen[q] = gen[h] /\ fd[q] = fd[h]
  /\ Goto(h, "decide")
  /\ UNCHANGED <<files, arrived, event, gen, fd, decision, result>>

\* The session's decision is d: a hook for which it is not negotiated goes no
\* further, and the others look at the startup record.
Decided(h, d) ==
  IF required_profiles(event[h], d).kind = "negotiated"
  THEN /\ decision' = [decision EXCEPT ![h] = d]
       /\ Goto(h, "startup")
       /\ UNCHANGED result
  ELSE Follow(h, d)

\* _store_first: link() keeps the first decision; one that cannot be stored
\* refuses the session for this hook.
store_first(h, d) ==
  \E ok \in Succeeds("record") :
    IF ok
    THEN LET first == IF record[gen[h]] = None THEN d ELSE record[gen[h]]
         IN record' = [record EXCEPT ![gen[h]] = first] /\ Decided(h, first)
    ELSE Follow(h, SessionRefused) /\ UNCHANGED record

\* _decide: the stored answer, or NoAnswer when the handshake is disabled, or a hello.
Decide(h) ==
  LET stored == record[gen[h]]
  IN /\ pc[h] = "decide"
     /\ \/ stored # None /\ Decided(h, stored) /\ UNCHANGED record
        \/ stored = None /\ ~event[h].handshake /\ store_first(h, NoAnswer)
        \/ /\ stored = None /\ event[h].handshake
           /\ Goto(h, "hello")
           /\ UNCHANGED <<decision, result, record>>
     /\ UNCHANGED <<started, lockfile, inodes, marked, counted, missed, discarded, arrived, event, gen, fd>>

Hello(h) ==
  /\ pc[h] = "hello"
  /\ Deliver(h, "handshake/hello")
  /\ Goto(h, "await_hello")
  /\ UNCHANGED <<files, event, gen, fd, decision, result>>

\* _hello returns within its timeout: what the Guardian answered, or NoAnswer.
HelloReturns(h, d) ==
  /\ pc[h] = "await_hello"
  /\ store_first(h, d)
  /\ UNCHANGED <<started, lockfile, inodes, marked, counted, missed, discarded, arrived, event, gen, fd>>

\* The decision of a session whose sessionStart got none.
StartFailed(d, cause) == [d EXCEPT !.start_failure = cause]

\* count_decision_failure: a state that cannot be written is not reported, and
\* the hook goes on as if it were.
Count(h) ==
  \E ok \in Succeeds("state") :
    /\ counted' = [counted EXCEPT ![gen[h]] = IF ok THEN @ + 1 ELSE @]
    /\ missed' = [missed EXCEPT ![gen[h]] = @ \/ (~ok /\ Holds(h))]

\* Mutant: a claim whose process is gone is taken over and the start sent again.
StartupRetrying(h) ==
  LET recorded == started[gen[h]]
  IN /\ pc[h] = "startup"
     /\ IF recorded \in {None, Pending}
        THEN /\ Goto(h, IF recorded = None THEN "claim" ELSE "start")
             /\ UNCHANGED <<decision, result>>
        ELSE Follow(h, recorded)
     /\ UNCHANGED <<files, arrived, event, gen, fd>>

\* The startup record under the lock: an outcome settles the session; a claim
\* whose process is gone becomes, once, a start without a decision.
Startup(h) ==
  LET recorded == started[gen[h]]
  IN /\ pc[h] = "startup"
     /\ CASE recorded = None ->
               Goto(h, "claim") /\ UNCHANGED <<decision, result, counted, missed>>
          [] recorded = Pending ->
               /\ decision' = [decision EXCEPT ![h] = StartFailed(@, "session_start_incomplete")]
               /\ Count(h)
               /\ Goto(h, "outcome")
               /\ UNCHANGED result
          [] OTHER -> Follow(h, recorded) /\ UNCHANGED <<counted, missed>>
     /\ UNCHANGED <<record, started, lockfile, inodes, marked, discarded, arrived, event, gen, fd>>

\* _write_startup(None): link() fails where any startup record exists.  A
\* Guardian that does not evaluate sessionStart is sent none.
Claim(h) ==
  /\ pc[h] = "claim"
  /\ \E ok \in Succeeds("claim") :
       IF ok /\ started[gen[h]] = None
       THEN /\ started' = [started EXCEPT ![gen[h]] = Pending]
            /\ Goto(h, IF decision[h].evaluates THEN "start" ELSE "outcome")
            /\ UNCHANGED <<decision, result>>
       ELSE Follow(h, SessionRefused) /\ UNCHANGED started
  /\ UNCHANGED <<record, lockfile, inodes, marked, counted, missed, discarded, arrived, event, gen, fd>>

SendSessionStart(h) ==
  /\ pc[h] = "start"
  /\ Deliver(h, "steps/sessionStart")
  /\ Goto(h, "await_start")
  /\ UNCHANGED <<files, event, gen, fd, decision, result>>

\* Mutant: a failed start is counted only where it blocks.
StartReturnsCountingBlocks(h, a) ==
  /\ pc[h] = "await_start"
  /\ decision' = [decision EXCEPT ![h] =
       CASE a = "allow" -> @ [] a \in {"deny", "refusal"} -> SessionRefused 
         [] OTHER -> StartFailed(@, "undecided")]
  /\ IF a \in {"refusal", "failure"} /\ denies(event[h], decision[h])
     THEN Count(h) ELSE UNCHANGED <<counted, missed>>
  /\ Goto(h, "outcome")
  /\ UNCHANGED <<record, started, lockfile, inodes, marked, discarded, arrived, event, gen, fd, result>>

\* session_start_outcome: allow opens the session, anything else the Guardian
\* decided refuses it, and no decision is recorded as a start that failed.
\* A refusal and a failure are Resolutions, counted before the outcome is written.
StartReturns(h, a) ==
  /\ pc[h] = "await_start"
  /\ decision' = [decision EXCEPT ![h] =
       CASE a = "allow" -> @ [] a \in {"deny", "refusal"} -> SessionRefused 
         [] OTHER -> StartFailed(@, "undecided")]
  /\ IF a \in {"refusal", "failure"} THEN Count(h) ELSE UNCHANGED <<counted, missed>>
  /\ Goto(h, "outcome")
  /\ UNCHANGED <<record, started, lockfile, inodes, marked, discarded, arrived, event, gen, fd, result>>

\* Anything _send_session_start raises is a failed start too, audited but not counted.
StartRaises(h) ==
  /\ pc[h] = "start"
  /\ decision' = [decision EXCEPT ![h] = StartFailed(@, "adapter_exception")]
  /\ Goto(h, "outcome")
  /\ UNCHANGED <<files, arrived, event, gen, fd, result>>

\* Mutant: an outcome that could not be written is followed all the same.
RecordOutcomeOrNot(h) ==
  /\ pc[h] = "outcome"
  /\ \E ok \in Succeeds("outcome") :
       started' = IF ok THEN [started EXCEPT ![gen[h]] = decision[h]] ELSE started
  /\ Follow(h, decision[h])
  /\ UNCHANGED <<record, lockfile, inodes, marked, counted, missed, discarded, arrived, event, gen, fd>>

\* _write_startup(outcome): os.replace, over whatever is there.
RecordOutcome(h) ==
  /\ pc[h] = "outcome"
  /\ \E ok \in Succeeds("outcome") :
       IF ok
       THEN started' = [started EXCEPT ![gen[h]] = decision[h]] /\ Follow(h, decision[h])
       ELSE Follow(h, SessionRefused) /\ UNCHANGED started
  /\ UNCHANGED <<record, lockfile, inodes, marked, counted, missed, discarded, arrived, event, gen, fd>>

-----------------------------------------------------------------------------
(* The step itself, and the end of a SessionEnd. *)

request(e) == IF e.hook = "SessionEnd" THEN "steps/sessionEnd" ELSE "step"

Send(h) ==
  /\ pc[h] = "send"
  /\ Deliver(h, request(event[h]))
  /\ Goto(h, "await")
  /\ UNCHANGED <<files, event, gen, fd, decision, result>>

\* FailPosture.resolve: a refusal blocks, and a failure follows the posture.
verdict(e, d, a) == IF a = "allow" \/ (a = "failure" /\ ~denies(e, d)) THEN "proceed" ELSE "blocked"

Returns(h, a) ==
  /\ pc[h] = "await"
  /\ result' = [result EXCEPT ![h] = verdict(event[h], decision[h], a)]
  /\ IF a \in {"refusal", "failure"} THEN Count(h) ELSE UNCHANGED <<counted, missed>>
  /\ Goto(h, settled(event[h]))
  /\ UNCHANGED <<record, started, lockfile, inodes, marked, discarded, arrived, event, gen, fd, decision>>

\* discard_session and discard_session_state: one file after the other.
UnlinkRecord(h) ==
  /\ pc[h] = "unlink_record"
  /\ record' = [record EXCEPT ![gen[h]] = None]
  /\ discarded' = [discarded EXCEPT ![gen[h]] = TRUE]
  /\ Goto(h, "unlink_startup")
  /\ UNCHANGED <<started, lockfile, inodes, marked, counted, missed, arrived, event, gen, fd, decision, result>>

UnlinkStartup(h) ==
  /\ pc[h] = "unlink_startup"
  /\ started' = [started EXCEPT ![gen[h]] = None]
  /\ Goto(h, "unlink_lock")
  /\ UNCHANGED <<record, lockfile, inodes, marked, counted, missed, discarded, arrived, event, gen, fd, decision, result>>

UnlinkLock(h) ==
  /\ pc[h] = "unlink_lock"
  /\ lockfile' = [lockfile EXCEPT ![gen[h]] = 0]
  /\ counted' = [counted EXCEPT ![gen[h]] = 0]
  /\ Goto(h, "done")
  /\ UNCHANGED <<record, started, inodes, marked, missed, discarded, arrived, event, gen, fd, decision, result>>

\* The host cancels a hook, or the process dies; its lock goes with it.
Killed(h) ==
  /\ pc[h] \notin {"idle", "done", "dead"}
  /\ Goto(h, "dead")
  /\ UNCHANGED <<files, arrived, event, gen, fd, decision, result>>

-----------------------------------------------------------------------------
Init ==
  /\ record = [g \in Gens |-> None]
  /\ started = [g \in Gens |-> None]
  /\ lockfile = [g \in Gens |-> 0]
  /\ inodes = [g \in Gens |-> 0]
  /\ marked = [g \in Gens |-> FALSE]
  /\ counted = [g \in Gens |-> 0]
  /\ missed = [g \in Gens |-> FALSE]
  /\ arrived = [g \in Gens |-> << >>]
  /\ discarded = [g \in Gens |-> FALSE]
  /\ pc = [h \in Hooks |-> "idle"]
  /\ event = [h \in Hooks |-> None]
  /\ gen = [h \in Hooks |-> 0]
  /\ fd = [h \in Hooks |-> 0]
  /\ decision = [h \in Hooks |-> None]
  /\ result = [h \in Hooks |-> None]

Answer == {"allow", "deny", "refusal", "failure"}

Step(h) ==
  \/ MarkEnded(h) \/ ReadRecord(h) \/ ReadStartup(h) \/ OpenLock(h) \/ Flock(h) \/ Decide(h)
  \/ Hello(h) \/ (\E d \in ServerHellos : HelloReturns(h, d)) \/ Startup(h) \/ Claim(h)
  \/ SendSessionStart(h) \/ StartRaises(h) \/ (\E a \in Answer : StartReturns(h, a)) \/ RecordOutcome(h)
  \/ Send(h) \/ (\E a \in Answer : Returns(h, a))
  \/ UnlinkRecord(h) \/ UnlinkStartup(h) \/ UnlinkLock(h)

Next == \E h \in Hooks : (\E e \in Events : Begin(h, e)) \/ Step(h) \/ Killed(h)

\* A live process keeps running and its exchanges end at their timeouts.  The
\* kernel hands a free lock to a waiter, since the hooks that contend are finitely
\* many and each takes it once.  Nothing obliges the host to start or kill a hook.
Spec == Init /\ [][Next]_vars /\ \A h \in Hooks : WF_vars(Step(h))

-----------------------------------------------------------------------------
(* Properties. *)

AdapterTypeOK ==
  /\ record \in [Gens -> Decision \cup {None}]
  /\ started \in [Gens -> Decision \cup {Pending, None}]
  /\ lockfile \in [Gens -> Nat] /\ inodes \in [Gens -> Nat]
  /\ marked \in [Gens -> BOOLEAN] /\ discarded \in [Gens -> BOOLEAN]
  /\ counted \in [Gens -> Nat] /\ missed \in [Gens -> BOOLEAN]
  /\ arrived \in [Gens -> Seq(Requests)]
  /\ pc \in [Hooks -> Critical \cup {"idle", "mark", "read_record", "read_startup", "open_lock",
               "flock", "send", "await", "unlink_record", "unlink_startup", "unlink_lock",
               "done", "dead"}]
  /\ event \in [Hooks -> Events \cup {None}]
  /\ gen \in [Hooks -> Gens] /\ fd \in [Hooks -> Nat]
  /\ decision \in [Hooks -> Decision \cup {None}]
  /\ result \in [Hooks -> {"proceed", "blocked", None}]

\* A sessionStart reaches the Guardian at most once in a session, however its
\* hooks race, die or fail to write, until a SessionEnd removes its records.
StartSentOnce ==
  \A g \in Gens : ~discarded[g] =>
    \A i, j \in 1..Len(arrived[g]) :
      arrived[g][i] = "steps/sessionStart" /\ arrived[g][j] = "steps/sessionStart" => i = j

\* The Guardian sees the handshake, then sessionStart, then the session's other
\* steps: no hello and no sessionStart arrives after a step.
StepsComeLast ==
  \A g \in Gens : ~discarded[g] =>
    \A i, j \in 1..Len(arrived[g]) :
      i < j /\ arrived[g][i] \in {"step", "steps/sessionEnd"}
        => arrived[g][j] \in {"step", "steps/sessionEnd"}

\* The start comes once and before the session's steps.
StartIsOnceAndFirst == StartSentOnce /\ StepsComeLast

\* What is recorded of a session is never revised while its records are kept:
\* its handshake answer, and, once there is one, its sessionStart's outcome.
RecordsStand ==
  [][\A g \in Gens : ~discarded'[g] =>
       /\ record[g] # None => record'[g] = record[g]
       /\ started[g] \notin {None, Pending} => started'[g] = started[g]]_vars

\* Once a refused sessionStart is on record, no later step of the session is sent
\* and no hook that reads it lets its host proceed.
RefusedStartHolds ==
  \A g \in Gens : (~discarded[g] /\ started[g] = SessionRefused) =>
    /\ \A i \in 1..Len(arrived[g]) : arrived[g][i] \in {"handshake/hello", "steps/sessionStart"}
    /\ \A h \in Hooks : (event[h] # None /\ gen[h] = g) => result[h] # "proceed"

\* A failed sessionStart is in the count that sessionEnd reports: it is counted
\* before any hook can follow its outcome, whichever hook settled it and whatever
\* was killed, unless the file system refused that very count.
StartFailureCounted ==
  \A h \in Hooks : (/\ pc[h] = "send" /\ event[h].hook = "SessionEnd"
                    /\ decision[h].start_failure \in Causes \ {"adapter_exception"}
                    /\ ~discarded[gen[h]])
                   => counted[gen[h]] > 0 \/ missed[gen[h]]

\* A session whose sessionEnd reached the Guardian is marked ended, whenever its
\* hook was killed, so that no later hook joins it.
SealedIsMarked ==
  \A g \in Gens : \A i \in 1..Len(arrived[g]) : arrived[g][i] = "steps/sessionEnd" => marked[g]

\* A host proceeds without the Guardian only where a posture that nobody
\* tightened says so: a hook that denies on failure proceeds only in a session
\* that was not refused and whose start did not fail.
DenyPostureHolds ==
  \A h \in Hooks : (result[h] = "proceed" /\ event[h].hook = "step") =>
    /\ decision[h] # SessionRefused
    /\ decision[h] = NoAnswer => event[h].startup
    /\ (decision[h].kind = "negotiated" /\ decision[h].start_failure # None) => ~denies(event[h], decision[h])
    /\ (decision[h].kind = "negotiated" /\ event[h].requires) => decision[h].accepts

\* What became of a session's start binds every later hook of it.
StartOutcomeBinds == RefusedStartHolds /\ DenyPostureHolds

\* A hook the host does not kill ends: it neither waits for the lock for ever
\* nor leaves it held.
HooksEnd == \A h \in Hooks : pc[h] # "idle" ~> pc[h] \in {"done", "dead"}

\* The g-th ACS session of a host session.
ACS(g) == INSTANCE AcsSession WITH
  Answers <- ServerHellos \cup {NoAnswer},
  Outcomes <- Decision,
  Opens <- LAMBDA d : d.kind = "negotiated",
  Serves <- LAMBDA d : d.kind = "negotiated",
  Nothing <- None,
  answer <- record[g],
  attempted <- started[g] # None,
  outcome <- IF started[g] = Pending THEN None ELSE started[g],
  steps <- Cardinality({i \in 1..Len(arrived[g]) : arrived[g][i] = "step"})

\* The hook processes together keep the promise of each session, until a
\* SessionEnd removes its records.
KeepsTheSession ==
  /\ \A g \in Gens : ACS(g)!Init
  /\ [][\A g \in Gens : ~discarded'[g] => [ACS(g)!Next]_(ACS(g)!vars)]_vars

=============================================================================
