------------------------ MODULE AdapterSession_proofs ------------------------
(***************************************************************************)
(* One start per session, and steps after it, for any number of hook        *)
(* processes.  The argument: until a SessionEnd removes a session's         *)
(* records, its lock file names one inode, so at most one hook is between   *)
(* flock and release; that hook alone can hold a claim that has no outcome, *)
(* and nobody sends a step before there is one.  So the hooks implement     *)
(* AcsSession; and what is on record of a session's start binds every hook  *)
(* that comes later: it sends, proceeds and reports only by that.           *)
(***************************************************************************)
EXTENDS AdapterSession, FiniteSetTheorems, TLAPS

\* What a hook at control point p follows.
Held(p, d) ==
  /\ p \in {"startup", "claim", "start", "await_start", "send", "await"} => d \in Negotiated
  /\ p = "outcome" => d \in Negotiated \cup {SessionRefused}

DecisionsHeld ==
  \A h \in Hooks : (pc[h] # "idle" => event[h] \in Event) /\ Held(pc[h], decision[h])

\* The records of a session are removed in order, after it is seen as discarded.
RemovalIsSeen ==
  \A h \in Hooks : pc[h] \in {"unlink_startup", "unlink_lock"} => discarded[gen[h]]

Arrived(g, R) == \E i \in 1..Len(arrived[g]) : arrived[g][i] \in R

\* One inode, one holder.
LockHeldOnce(g) ==
  /\ \A h \in Hooks : (gen[h] = g /\ pc[h] \in Critical \cup {"flock"}) =>
       fd[h] = lockfile[g] /\ lockfile[g] # 0
  /\ \A h, q \in Hooks : gen[h] = g /\ gen[q] = g /\ Holds(h) /\ Holds(q) => h = q

\* What a hook at control point p knows of the records of its session g.
Knows(g, p) ==
  /\ p \in {"hello", "await_hello"} => record[g] = None
  /\ p \in {"startup", "claim"} => record[g] # None
  /\ p = "claim" => started[g] = None
  /\ p \in {"start", "await_start", "outcome"} => started[g] = Pending
  /\ p = "start" => ~Arrived(g, {"steps/sessionStart"})
  /\ p \in {"send", "await"} => started[g] \notin {None, Pending}

RecordsKnown(g) ==
  /\ started[g] # None => record[g] # None
  /\ \A h \in Hooks : gen[h] = g => Knows(g, pc[h])

StepRequests == {"step", "steps/sessionEnd"}

\* What the Guardian has seen by then.
ArrivalsKnown(g) ==
  /\ started[g] \in {None, Pending} => ~Arrived(g, StepRequests)
  /\ started[g] = None => ~Arrived(g, {"steps/sessionStart"})
  /\ \A i, j \in 1..Len(arrived[g]) :
       /\ arrived[g][i] = "steps/sessionStart" /\ arrived[g][j] = "steps/sessionStart" => i = j
       /\ i < j /\ arrived[g][i] \in StepRequests => arrived[g][j] \in StepRequests

SessionInv ==
  \A g \in Gens : ~discarded[g] => LockHeldOnce(g) /\ RecordsKnown(g) /\ ArrivalsKnown(g)

Types == AdapterTypeOK /\ DecisionsHeld /\ RemovalIsSeen

Inv == Types /\ SessionInv

-----------------------------------------------------------------------------
(* Decisions, and what leaving open_session does. *)

LEMMA DecisionKinds ==
  /\ \A d \in Decision : /\ d \in Negotiated <=> d.kind = "negotiated"
                         /\ d.kind \in {"negotiated", "refused", "no_answer"}
                         /\ d # None /\ d # Pending
  /\ Pending # None /\ SessionRefused \in Decision /\ NoAnswer \in Decision
  /\ Negotiated \subseteq Decision
  /\ ServerHellos \subseteq Decision
  BY NoneAssumption, ServerHellosAssumption
     DEF Decision, Negotiated, SessionRefused, NoAnswer, Pending

\* A failed start leaves the negotiated answer a negotiated one.
LEMMA StartFailedTypes ==
  ASSUME NEW d \in Negotiated, NEW c \in Causes
  PROVE  StartFailed(d, c) \in Negotiated
  BY DEF StartFailed, Negotiated

\* Where Follow takes a hook: it sends only under a negotiated decision.
LEMMA FollowEffect ==
  ASSUME AdapterTypeOK, NEW h \in Hooks, event[h] \in Event, NEW d \in Decision, Follow(h, d)
  PROVE  \E own \in Decision, p \in {"send", "done", "unlink_record"} :
           /\ decision' = [decision EXCEPT ![h] = own]
           /\ pc' = [pc EXCEPT ![h] = p]
           /\ p = "send" => own \in Negotiated /\ d \in Negotiated
           /\ result' \in [Hooks -> {"proceed", "blocked", None}]
<1> DEFINE own == required_profiles(event[h], d)
           gated == gate(event[h], own)
<1>1. own \in Decision /\ (own \in Negotiated => d \in Negotiated)
  BY DecisionKinds DEF required_profiles
<1>2. gated \in {"proceed", "blocked", None} /\ (gated = None => own \in Negotiated)
  <2>1. own.kind \in {"negotiated", "refused", "no_answer"}
    BY <1>1, DecisionKinds
  <2>2. CASE own.kind = "negotiated"
    BY <1>1, <2>2, DecisionKinds DEF gate
  <2>3. CASE own.kind = "refused"
    BY <2>3, NoneAssumption DEF gate
  <2>4. CASE own.kind = "no_answer"
    BY <2>4, NoneAssumption DEF gate
  <2> QED BY <2>1, <2>2, <2>3, <2>4
<1>3. settled(event[h]) \in {"done", "unlink_record"}
  BY DEF settled
<1>4. CASE gated = None /\ event[h].hook # "SessionStart"
  BY <1>1, <1>2, <1>4 DEF Follow, AdapterTypeOK
<1>5. CASE ~(gated = None /\ event[h].hook # "SessionStart")
  BY <1>1, <1>2, <1>3, <1>5 DEF Follow, AdapterTypeOK
<1> QED BY <1>4, <1>5

\* A decision taken under the lock: on to the startup record, or out.
LEMMA DecidedEffect ==
  ASSUME AdapterTypeOK, NEW h \in Hooks, event[h] \in Event, NEW d \in Decision, Decided(h, d)
  PROVE  \E own \in Decision, p \in {"startup", "done", "unlink_record"} :
           /\ decision' = [decision EXCEPT ![h] = own]
           /\ pc' = [pc EXCEPT ![h] = p]
           /\ p = "startup" => own \in Negotiated
           /\ result' \in [Hooks -> {"proceed", "blocked", None}]
<1>1. CASE required_profiles(event[h], d).kind = "negotiated"
  <2>1. d \in Negotiated
    BY <1>1, DecisionKinds DEF required_profiles, SessionRefused
  <2> QED BY <1>1, <2>1 DEF Decided, Goto, AdapterTypeOK
<1>2. CASE required_profiles(event[h], d).kind # "negotiated"
  <2>1. Follow(h, d)
    BY <1>2 DEF Decided
  <2>2. gate(event[h], required_profiles(event[h], d)) # None
    <3>1. required_profiles(event[h], d) \in Decision
      BY DecisionKinds DEF required_profiles
    <3>2. required_profiles(event[h], d).kind \in {"refused", "no_answer"}
      BY <1>2, <3>1, DecisionKinds
    <3> QED BY <3>2, NoneAssumption DEF gate
  <2>3. pc' = [pc EXCEPT ![h] = settled(event[h])]
    BY <2>1, <2>2 DEF Follow
  <2>4. pc'[h] # "send"
    BY <2>3 DEF settled, AdapterTypeOK
  <2>5. PICK own \in Decision, p \in {"send", "done", "unlink_record"} :
           /\ decision' = [decision EXCEPT ![h] = own]
           /\ pc' = [pc EXCEPT ![h] = p]
           /\ result' \in [Hooks -> {"proceed", "blocked", None}]
    BY <2>1, FollowEffect
  <2>6. p \in {"startup", "done", "unlink_record"} /\ p # "startup"
    BY <2>4, <2>5 DEF AdapterTypeOK
  <2> QED BY <2>5, <2>6
<1> QED BY <1>1, <1>2

LEMMA DeliverTypes ==
  ASSUME AdapterTypeOK, NEW h \in Hooks, NEW r \in Requests, Deliver(h, r)
  PROVE  arrived' \in [Gens -> Seq(Requests)]
<1>1. gen[h] \in Gens /\ arrived[gen[h]] \in Seq(Requests)
  BY DEF AdapterTypeOK
<1>2. Append(arrived[gen[h]], r) \in Seq(Requests)
  BY <1>1
<1> QED BY <1>1, <1>2 DEF Deliver, AdapterTypeOK

-----------------------------------------------------------------------------
(* Types. *)

Pcs == Critical \cup {"idle", "mark", "read_record", "read_startup", "open_lock", "flock", "send",
                      "await", "unlink_record", "unlink_startup", "unlink_lock", "done", "dead"}

FilesTyped ==
  /\ record \in [Gens -> Decision \cup {None}]
  /\ started \in [Gens -> Decision \cup {Pending, None}]
  /\ lockfile \in [Gens -> Nat] /\ inodes \in [Gens -> Nat]
  /\ marked \in [Gens -> BOOLEAN] /\ discarded \in [Gens -> BOOLEAN]
  /\ counted \in [Gens -> Nat] /\ missed \in [Gens -> BOOLEAN]
  /\ arrived \in [Gens -> Seq(Requests)]
  /\ fd \in [Hooks -> Nat]
  /\ result \in [Hooks -> {"proceed", "blocked", None}]

\* What a count that is made or refused does to the counts.
LEMMA CountEffect ==
  ASSUME counted \in [Gens -> Nat], missed \in [Gens -> BOOLEAN], NEW h \in Hooks, gen[h] \in Gens, Count(h)
  PROVE  /\ counted' \in [Gens -> Nat] /\ missed' \in [Gens -> BOOLEAN]
         /\ \A g \in Gens : counted'[g] >= counted[g] /\ (missed[g] => missed'[g])
         /\ Holds(h) => counted'[gen[h]] > 0 \/ missed'[gen[h]]
<1>1. PICK ok \in BOOLEAN :
        /\ counted' = [counted EXCEPT ![gen[h]] = IF ok THEN @ + 1 ELSE @]
        /\ missed' = [missed EXCEPT ![gen[h]] = @ \/ (~ok /\ Holds(h))]
  BY DEF Count, Succeeds
<1>2. CASE ok
  <2>1. counted' = [counted EXCEPT ![gen[h]] = @ + 1]
    BY <1>1, <1>2
  <2>2. missed' = missed
    BY <1>1, <1>2
  <2> QED BY <2>1, <2>2
<1>3. CASE ~ok
  <2>1. counted' = counted
    BY <1>1, <1>3
  <2>2. missed' = [missed EXCEPT ![gen[h]] = @ \/ Holds(h)]
    BY <1>1, <1>3
  <2>3. missed' \in [Gens -> BOOLEAN] /\ \A g \in Gens : missed[g] => missed'[g]
    BY <2>2
  <2>4. Holds(h) => missed'[gen[h]]
    BY <2>2
  <2> QED BY <2>1, <2>3, <2>4
<1> QED BY <1>1, <1>2, <1>3

LEMMA InitTypes == Init => Types
  BY MaxGenAssumption
     DEF Init, Types, AdapterTypeOK, DecisionsHeld, Held, RemovalIsSeen, Gens, Critical

\* h is at p, following d, and nothing else about the hooks has changed.
Moved(h, p, d) ==
  /\ pc' = [pc EXCEPT ![h] = p]
  /\ decision' = [decision EXCEPT ![h] = d]
  /\ UNCHANGED <<event, gen>>

\* A move keeps the types if h may follow d at p.
LEMMA MoveTypes ==
  ASSUME Types, NEW h \in Hooks, event[h] \in Event, NEW p \in Pcs, NEW d \in Decision \cup {None},
         Moved(h, p, d), Held(p, d), FilesTyped',
         \A g \in Gens : discarded[g] => discarded'[g],
         p \in {"unlink_startup", "unlink_lock"} => discarded'[gen[h]]
  PROVE  Types'
<1> USE DEF Types, Moved
<1>1. AdapterTypeOK'
  BY DEF AdapterTypeOK, FilesTyped, Pcs
<1>2. DecisionsHeld'
  BY DEF AdapterTypeOK, DecisionsHeld, Held, Pcs
<1>3. RemovalIsSeen'
  BY DEF AdapterTypeOK, RemovalIsSeen
<1> QED BY <1>1, <1>2, <1>3

LEMMA TypesKept == Types /\ [Next]_vars => Types'
<1> SUFFICES ASSUME Types, [Next]_vars PROVE Types'
  OBVIOUS
<1> USE DEF vars, files
<1>0. FilesTyped /\ pc \in [Hooks -> Pcs] /\ gen \in [Hooks -> Gens]
      /\ decision \in [Hooks -> Decision \cup {None}]
  BY DEF Types, AdapterTypeOK, FilesTyped, Pcs
<1>1. CASE UNCHANGED vars
  BY <1>1 DEF Types, AdapterTypeOK, DecisionsHeld, Held, RemovalIsSeen
<1>2. ASSUME NEW h \in Hooks, NEW e \in Events, Begin(h, e) PROVE Types'
  <2>1. AdapterTypeOK'
    BY <1>2 DEF Types, Begin, Goto, AdapterTypeOK
  <2>2. DecisionsHeld'
    BY <1>2, EventsAssumption DEF Types, Begin, Goto, AdapterTypeOK, DecisionsHeld, Held
  <2>3. RemovalIsSeen'
    BY <1>2 DEF Types, Begin, Goto, AdapterTypeOK, RemovalIsSeen
  <2> QED BY <2>1, <2>2, <2>3 DEF Types
<1>3. ASSUME NEW h \in Hooks, Killed(h) PROVE Types'
  <2>1. AdapterTypeOK'
    BY <1>3 DEF Types, Killed, Goto, AdapterTypeOK
  <2>2. DecisionsHeld'
    BY <1>3 DEF Types, Killed, Goto, AdapterTypeOK, DecisionsHeld, Held
  <2>3. RemovalIsSeen'
    BY <1>3 DEF Types, Killed, Goto, AdapterTypeOK, RemovalIsSeen
  <2> QED BY <2>1, <2>2, <2>3 DEF Types
<1>4. ASSUME NEW h \in Hooks, Step(h) PROVE Types'
  <2>0. event[h] \in Event /\ pc[h] # "idle"
    BY <1>4 DEF Types, Step, DecisionsHeld, MarkEnded, ReadRecord, ReadStartup, OpenLock, Flock, Decide,
       Hello, HelloReturns, Startup, Claim, SendSessionStart, StartRaises, StartReturns,
       RecordOutcome, Send, Returns, UnlinkRecord, UnlinkStartup, UnlinkLock
  <2>a. decision = [decision EXCEPT ![h] = decision[h]] /\ Held(pc[h], decision[h])
        /\ gen[h] \in Gens /\ decision[h] \in Decision \cup {None}
    BY <1>0 DEF Types, DecisionsHeld
  \* Leaving open_session, or going on under the lock, moves the hook.
  <2>b. ASSUME NEW d \in Decision, Follow(h, d), UNCHANGED <<event, gen>>,
               UNCHANGED <<lockfile, inodes, marked, discarded, counted, missed, arrived, fd>>,
               record' \in [Gens -> Decision \cup {None}],
               started' \in [Gens -> Decision \cup {Pending, None}]
        PROVE  Types'
    <3>1. PICK own \in Decision, p \in {"send", "done", "unlink_record"} :
             /\ Moved(h, p, own) /\ (p = "send" => own \in Negotiated)
             /\ result' \in [Hooks -> {"proceed", "blocked", None}]
      BY <2>0, <2>b, FollowEffect DEF Types, Moved
    <3>2. FilesTyped'
      BY <1>0, <2>b, <3>1 DEF FilesTyped
    <3>3. p \in Pcs /\ Held(p, own)
      BY <3>1 DEF Pcs, Held
    <3> HIDE DEF Moved
    <3> QED BY <2>0, <2>b, <3>1, <3>2, <3>3, MoveTypes
  <2>c. ASSUME NEW d \in Decision, Decided(h, d), UNCHANGED <<event, gen>>,
               UNCHANGED <<started, lockfile, inodes, marked, discarded, counted, missed, arrived, fd>>,
               record' \in [Gens -> Decision \cup {None}]
        PROVE  Types'
    <3>1. PICK own \in Decision, p \in {"startup", "done", "unlink_record"} :
             /\ Moved(h, p, own) /\ (p = "startup" => own \in Negotiated)
             /\ result' \in [Hooks -> {"proceed", "blocked", None}]
      BY <2>0, <2>c, DecidedEffect DEF Types, Moved
    <3>2. FilesTyped'
      BY <1>0, <2>c, <3>1 DEF FilesTyped
    <3>3. p \in Pcs /\ Held(p, own)
      BY <3>1 DEF Pcs, Critical, Held
    <3> HIDE DEF Moved
    <3> QED BY <2>0, <2>c, <3>1, <3>2, <3>3, MoveTypes
  \* So does a plain move.
  <2>d. ASSUME NEW p \in Pcs, NEW d \in Decision \cup {None}, Goto(h, p),
               decision' = [decision EXCEPT ![h] = d], Held(p, d), UNCHANGED <<event, gen>>,
               FilesTyped', \A g \in Gens : discarded[g] => discarded'[g],
               p \in {"unlink_startup", "unlink_lock"} => discarded'[gen[h]]
        PROVE  Types'
    <3>1. Moved(h, p, d)
      BY <2>d DEF Moved, Goto
    <3> QED BY <2>0, <2>d, <3>1, MoveTypes
  <2> USE <1>0, <2>0, <2>a
  <2>e. Count(h) => counted' \in [Gens -> Nat] /\ missed' \in [Gens -> BOOLEAN]
    BY CountEffect DEF FilesTyped
  <2>1. CASE MarkEnded(h)
    <3>1. FilesTyped'
      BY <2>1 DEF MarkEnded, FilesTyped, Succeeds
    <3>2. \E p \in {"read_record", "done"} : Goto(h, p)
      BY <2>1 DEF MarkEnded, Succeeds
    <3> QED BY <2>1, <2>d, <3>1, <3>2 DEF MarkEnded, Pcs, Held
  <2>2. CASE ReadRecord(h)
    <3>1. CASE record[gen[h]] = None \/ record[gen[h]].kind = "negotiated"
      <4>1. \E p \in {"open_lock", "read_startup"} : Goto(h, p)
        BY <2>2, <3>1 DEF ReadRecord
      <4> QED BY <2>2, <2>d, <3>1, <4>1 DEF ReadRecord, FilesTyped, Pcs, Held
    <3>2. CASE ~(record[gen[h]] = None \/ record[gen[h]].kind = "negotiated")
      BY <2>2, <2>b, <3>2 DEF ReadRecord, FilesTyped
    <3> QED BY <3>1, <3>2
  <2>3. CASE ReadStartup(h)
    <3>1. CASE started[gen[h]] \in {None, Pending}
      BY <2>3, <2>d, <3>1 DEF ReadStartup, FilesTyped, Pcs, Held
    <3>2. CASE started[gen[h]] \notin {None, Pending}
      BY <2>3, <2>b, <3>2 DEF ReadStartup, FilesTyped
    <3> QED BY <3>1, <3>2
  <2>4. CASE OpenLock(h)
    <3>1. CASE Follow(h, SessionRefused) /\ UNCHANGED <<inodes, lockfile, fd>>
      BY <2>4, <2>b, <3>1, DecisionKinds DEF OpenLock, FilesTyped
    <3>2. CASE ~(Follow(h, SessionRefused) /\ UNCHANGED <<inodes, lockfile, fd>>)
      <4>0. /\ UNCHANGED <<record, started, marked, counted, missed, discarded, arrived, event, gen, decision, result>>
            /\ inodes' = IF lockfile[gen[h]] = 0 THEN [inodes EXCEPT ![gen[h]] = @ + 1] ELSE inodes
            /\ lockfile' = IF lockfile[gen[h]] = 0 THEN [lockfile EXCEPT ![gen[h]] = inodes'[gen[h]]] ELSE lockfile
            /\ fd' = [fd EXCEPT ![h] = lockfile'[gen[h]]]
        BY <2>4, <3>2 DEF OpenLock
      <4>a. inodes' \in [Gens -> Nat]
        BY <4>0 DEF FilesTyped
      <4>b. lockfile' \in [Gens -> Nat]
        BY <4>0, <4>a DEF FilesTyped
      <4>c. fd' \in [Hooks -> Nat]
        BY <4>0, <4>b DEF FilesTyped
      <4>1. FilesTyped'
        BY <4>0, <4>a, <4>b, <4>c DEF FilesTyped
      <4> QED BY <2>4, <2>d, <3>2, <4>1 DEF OpenLock, Pcs, Held
    <3> QED BY <3>1, <3>2
  <2>5. CASE Flock(h)
    BY <2>5, <2>d DEF Flock, FilesTyped, Pcs, Critical, Held
  <2>6. ASSUME NEW d \in Decision, store_first(h, d), UNCHANGED <<event, gen>>,
               UNCHANGED <<started, lockfile, inodes, marked, discarded, counted, missed, arrived, fd>>
        PROVE  Types'
    <3>1. CASE Follow(h, SessionRefused) /\ UNCHANGED record
      BY <2>6, <2>b, <3>1, DecisionKinds DEF FilesTyped
    <3>2. CASE ~(Follow(h, SessionRefused) /\ UNCHANGED record)
      <4>1. PICK first \in Decision : record' = [record EXCEPT ![gen[h]] = first] /\ Decided(h, first)
        BY <2>6, <3>2 DEF store_first, FilesTyped
      <4> QED BY <2>6, <2>c, <4>1 DEF FilesTyped
    <3> QED BY <3>1, <3>2
  <2>7. CASE Decide(h)
    <3>1. CASE record[gen[h]] # None
      BY <2>7, <2>c, <3>1 DEF Decide, FilesTyped
    <3>2. CASE record[gen[h]] = None /\ ~event[h].handshake
      BY <2>7, <2>6, <3>2, DecisionKinds DEF Decide
    <3>3. CASE record[gen[h]] = None /\ event[h].handshake
      BY <2>7, <2>d, <3>3 DEF Decide, FilesTyped, Pcs, Critical, Held
    <3> QED BY <3>1, <3>2, <3>3
  <2>8. ASSUME NEW r \in Requests, NEW p \in {"await_hello", "await_start", "await"}, Deliver(h, r),
               Goto(h, p), Held(p, decision[h]), UNCHANGED <<files, event, gen, fd, decision, result>>
        PROVE  Types'
    <3>1. FilesTyped'
      BY <2>8, DeliverTypes DEF Types, FilesTyped
    <3> QED BY <2>8, <2>d, <3>1 DEF Pcs, Critical, FilesTyped
  <2>9. CASE Hello(h)
    BY <2>8, <2>9 DEF Hello, Requests, Held
  <2>10. ASSUME NEW d \in ServerHellos, HelloReturns(h, d) PROVE Types'
    BY <2>6, <2>10, DecisionKinds DEF HelloReturns
  <2>11. CASE Startup(h)
    <3>1. CASE started[gen[h]] = None
      <4>1. UNCHANGED files /\ Goto(h, "claim") /\ UNCHANGED <<arrived, event, gen, fd, decision, result>>
        BY <2>11, <3>1, DecisionKinds DEF Startup
      <4>2. Held("claim", decision[h])
        BY <2>11 DEF Startup, Held
      <4> QED BY <2>d, <4>1, <4>2 DEF FilesTyped, Pcs, Critical
    <3>2. CASE started[gen[h]] = Pending
      <4>1. decision[h] \in Negotiated
        BY <2>11 DEF Startup, Held
      <4>2. StartFailed(decision[h], "session_start_incomplete") \in Negotiated
        BY <4>1, StartFailedTypes DEF Causes
      <4>3. FilesTyped'
        <5>1. Count(h) /\ UNCHANGED <<record, started, lockfile, inodes, marked, discarded, arrived, fd, result>>
          BY <2>11, <3>2, DecisionKinds DEF Startup
        <5> QED BY <2>e, <5>1 DEF FilesTyped
      <4> QED BY <2>11, <2>d, <3>2, <4>2, <4>3, DecisionKinds
              DEF Startup, FilesTyped, Pcs, Critical, Held
    <3>3. CASE started[gen[h]] \notin {None, Pending}
      BY <2>11, <2>b, <3>3 DEF Startup, FilesTyped
    <3> QED BY <3>1, <3>2, <3>3
  <2>12. CASE Claim(h)
    <3>1. CASE Follow(h, SessionRefused) /\ UNCHANGED started
      BY <2>12, <2>b, <3>1, DecisionKinds DEF Claim, FilesTyped
    <3>2. CASE ~(Follow(h, SessionRefused) /\ UNCHANGED started)
      <4>1. FilesTyped'
        <5>1. /\ started' = [started EXCEPT ![gen[h]] = Pending]
              /\ UNCHANGED <<record, lockfile, inodes, marked, counted, missed, discarded, arrived, fd, result>>
          BY <2>12, <3>2 DEF Claim
        <5>2. started' \in [Gens -> Decision \cup {Pending, None}]
          BY <5>1 DEF FilesTyped
        <5> QED BY <5>1, <5>2 DEF FilesTyped
      <4>2. \E p \in {"start", "outcome"} : Goto(h, p)
        BY <2>12, <3>2 DEF Claim
      <4> QED BY <2>12, <2>d, <3>2, <4>1, <4>2 DEF Claim, Pcs, Critical, Held
    <3> QED BY <3>1, <3>2
  <2>13. CASE SendSessionStart(h)
    BY <2>8, <2>13 DEF SendSessionStart, Requests, Held
  <2>14. CASE StartRaises(h)
    <3>1. StartFailed(decision[h], "adapter_exception") \in Negotiated
      BY <2>14, StartFailedTypes DEF StartRaises, Held, Causes
    <3> QED BY <2>14, <2>d, <3>1, DecisionKinds DEF StartRaises, FilesTyped, Pcs, Critical, Held
  <2>15. ASSUME NEW a \in Answer, StartReturns(h, a) PROVE Types'
    <3>1. decision[h] \in Negotiated
      BY <2>15 DEF StartReturns, Held
    <3>2. PICK d \in Negotiated \cup {SessionRefused} : decision' = [decision EXCEPT ![h] = d]
      <4>1. StartFailed(decision[h], "undecided") \in Negotiated
        BY <3>1, StartFailedTypes DEF Causes
      <4> QED BY <2>15, <3>1, <4>1 DEF StartReturns
    <3>3. FilesTyped'
      <4>1. /\ Count(h) \/ UNCHANGED <<counted, missed>>
            /\ UNCHANGED <<record, started, lockfile, inodes, marked, discarded, arrived, fd, result>>
        BY <2>15 DEF StartReturns
      <4> QED BY <2>e, <4>1 DEF FilesTyped
    <3> QED BY <2>15, <2>d, <3>2, <3>3, DecisionKinds DEF StartReturns, Pcs, Critical, Held
  <2>16. CASE RecordOutcome(h)
    <3>1. decision[h] \in Decision
      BY <2>16, DecisionKinds DEF RecordOutcome, Held
    <3>2. CASE Follow(h, SessionRefused) /\ UNCHANGED started
      BY <2>16, <2>b, <3>2, DecisionKinds DEF RecordOutcome, FilesTyped
    <3>3. CASE ~(Follow(h, SessionRefused) /\ UNCHANGED started)
      BY <2>16, <2>b, <3>1, <3>3 DEF RecordOutcome, FilesTyped
    <3> QED BY <3>2, <3>3
  <2>17. CASE Send(h)
    <3>1. request(event[h]) \in Requests
      BY DEF request, Requests
    <3> QED BY <2>8, <2>17, <3>1 DEF Send, Held
  <2>18. ASSUME NEW a \in Answer, Returns(h, a) PROVE Types'
    <3>1. FilesTyped'
      <4>1. counted' \in [Gens -> Nat] /\ missed' \in [Gens -> BOOLEAN]
        BY <2>18, <2>e DEF Returns, FilesTyped
      <4>2. result' \in [Hooks -> {"proceed", "blocked", None}]
        BY <2>18 DEF Returns, verdict, FilesTyped
      <4> QED BY <2>18, <4>1, <4>2 DEF Returns, FilesTyped
    <3>2. settled(event[h]) \in {"done", "unlink_record"}
      BY DEF settled
    <3> QED BY <2>18, <2>d, <3>1, <3>2 DEF Returns, FilesTyped, Pcs, Held
  <2>19. CASE UnlinkRecord(h)
    <3>1. FilesTyped' /\ (\A g \in Gens : discarded[g] => discarded'[g]) /\ discarded'[gen[h]]
      BY <2>19 DEF UnlinkRecord, FilesTyped
    <3> QED BY <2>19, <2>d, <3>1 DEF UnlinkRecord, Pcs, Held
  <2>20. CASE UnlinkStartup(h)
    BY <2>20, <2>d DEF UnlinkStartup, FilesTyped, Pcs, Held, RemovalIsSeen, Types
  <2>21. CASE UnlinkLock(h)
    BY <2>21, <2>d DEF UnlinkLock, FilesTyped, Pcs, Held
  <2> QED BY <1>4, <2>1, <2>2, <2>3, <2>4, <2>5, <2>7, <2>9, <2>10, <2>11, <2>12, <2>13, <2>14,
             <2>15, <2>16, <2>17, <2>18, <2>19, <2>20, <2>21 DEF Step
<1> QED BY <1>1, <1>2, <1>3, <1>4 DEF Next

\* Type correctness, for any hooks, events, answers, refused writes and bound.
THEOREM AdapterTypeCorrect == Spec => []AdapterTypeOK
<1>1. Spec => []Types
  BY InitTypes, TypesKept, PTL DEF Spec
<1>2. Types => AdapterTypeOK
  BY DEF Types
<1> QED BY <1>1, <1>2, PTL

-----------------------------------------------------------------------------
(* The sessions. *)

LEMMA InitSession == Init => SessionInv
  BY DEF Init, SessionInv, LockHeldOnce, RecordsKnown, ArrivalsKnown, Knows, Arrived, Holds, Critical

\* The files of other generations than g, and the other hooks than h, are as they were.
Elsewhere(h, g) ==
  /\ gen' = gen
  /\ \A q \in Hooks \ {h} : fd'[q] = fd[q]
  /\ \A k \in Gens \ {g} :
       /\ record'[k] = record[k] /\ started'[k] = started[k] /\ lockfile'[k] = lockfile[k]
       /\ arrived'[k] = arrived[k] /\ discarded'[k] = discarded[k]

\* So a step of h has to be checked against its own session only.
LEMMA OwnSession ==
  ASSUME Types, SessionInv, NEW h \in Hooks, NEW p \in Pcs, pc' = [pc EXCEPT ![h] = p],
         Elsewhere(h, gen[h]),
         ~discarded'[gen[h]] =>
           LockHeldOnce(gen[h])' /\ RecordsKnown(gen[h])' /\ ArrivalsKnown(gen[h])'
  PROVE  SessionInv'
<1> SUFFICES ASSUME NEW g \in Gens, g # gen[h], ~discarded'[g]
             PROVE  LockHeldOnce(g)' /\ RecordsKnown(g)' /\ ArrivalsKnown(g)'
  BY DEF SessionInv, Elsewhere
<1>1. LockHeldOnce(g) /\ RecordsKnown(g) /\ ArrivalsKnown(g)
  BY DEF SessionInv, Elsewhere
<1>2. pc \in [Hooks -> Pcs] /\ \A q \in Hooks : gen[q] = g => q # h /\ pc'[q] = pc[q]
  BY DEF Types, AdapterTypeOK, Pcs
<1>3. LockHeldOnce(g)'
  BY <1>1, <1>2 DEF LockHeldOnce, Elsewhere, Holds
<1>4. RecordsKnown(g)'
  BY <1>1, <1>2 DEF RecordsKnown, Knows, Arrived, Elsewhere
<1>5. ArrivalsKnown(g)'
  BY <1>1 DEF ArrivalsKnown, Arrived, Elsewhere
<1> QED BY <1>3, <1>4, <1>5

\* What lets h be at control point p of session g as the files stand.
Fits(h, g, p) ==
  /\ p \in Critical \cup {"flock"} => fd[h] = lockfile[g] /\ lockfile[g] # 0
  /\ p \in Critical => \A q \in Hooks \ {h} : gen[q] = g => ~Holds(q)
  /\ Knows(g, p)

\* A step that changes no record of a session that is kept.
LEMMA QuietMove ==
  ASSUME Types, SessionInv, NEW h \in Hooks, NEW p \in Pcs, pc' = [pc EXCEPT ![h] = p],
         UNCHANGED <<record, started, lockfile, arrived, discarded, gen, fd>>,
         ~discarded[gen[h]] => Fits(h, gen[h], p)
  PROVE  SessionInv'
<1>1. Elsewhere(h, gen[h])
  BY DEF Elsewhere
<1>2. ASSUME ~discarded[gen[h]]
      PROVE  LockHeldOnce(gen[h])' /\ RecordsKnown(gen[h])' /\ ArrivalsKnown(gen[h])'
  <2> DEFINE g == gen[h]
  <2>1. g \in Gens /\ pc \in [Hooks -> Pcs] /\ pc'[h] = p
        /\ \A q \in Hooks \ {h} : pc'[q] = pc[q]
    BY DEF Types, AdapterTypeOK, Pcs
  <2>2. LockHeldOnce(g) /\ RecordsKnown(g) /\ ArrivalsKnown(g) /\ Fits(h, g, p)
    BY <1>2, <2>1 DEF SessionInv
  <2>3. LockHeldOnce(g)'
    BY <2>1, <2>2 DEF LockHeldOnce, Fits, Holds
  <2>4. RecordsKnown(g)'
    BY <2>1, <2>2 DEF RecordsKnown, Knows, Arrived, Fits
  <2>5. ArrivalsKnown(g)'
    BY <2>2 DEF ArrivalsKnown, Arrived
  <2> QED BY <2>3, <2>4, <2>5
<1> QED BY <1>1, <1>2, OwnSession

\* A request that may arrive keeps what the session knows.
LEMMA Arrival ==
  ASSUME Types, NEW g \in Gens, NEW r \in Requests, arrived'[g] = Append(arrived[g], r)
  PROVE  /\ \A R : Arrived(g, R)' <=> (Arrived(g, R) \/ r \in R)
         /\ ArrivalsKnown(g) /\ UNCHANGED started
            /\ (r \in StepRequests => started[g] \notin {None, Pending})
            /\ (r \notin StepRequests => ~Arrived(g, StepRequests))
            /\ (r = "steps/sessionStart" =>
                  started[g] # None /\ ~Arrived(g, {"steps/sessionStart"}))
            => ArrivalsKnown(g)'
<1> DEFINE s == arrived[g]
<1>1. s \in Seq(Requests)
  BY DEF Types, AdapterTypeOK
<1>2. /\ Len(arrived'[g]) = Len(s) + 1 /\ Len(s) \in Nat
      /\ arrived'[g][Len(s) + 1] = r
      /\ \A i \in 1..Len(s) : arrived'[g][i] = s[i]
  BY <1>1
<1>3. \A R : Arrived(g, R)' <=> (Arrived(g, R) \/ r \in R)
  BY <1>2 DEF Arrived
<1>4. ASSUME ArrivalsKnown(g), UNCHANGED started,
             r \in StepRequests => started[g] \notin {None, Pending},
             r \notin StepRequests => ~Arrived(g, StepRequests),
             r = "steps/sessionStart" => started[g] # None /\ ~Arrived(g, {"steps/sessionStart"})
      PROVE  ArrivalsKnown(g)'
  <2>1. started'[g] \in {None, Pending} => ~Arrived(g, StepRequests)'
    BY <1>3, <1>4 DEF ArrivalsKnown
  <2>2. started'[g] = None => ~Arrived(g, {"steps/sessionStart"})'
    BY <1>3, <1>4 DEF ArrivalsKnown
  <2>3. ASSUME NEW i \in 1..Len(arrived'[g]), NEW j \in 1..Len(arrived'[g])
        PROVE  /\ arrived'[g][i] = "steps/sessionStart" /\ arrived'[g][j] = "steps/sessionStart" => i = j
               /\ i < j /\ arrived'[g][i] \in StepRequests => arrived'[g][j] \in StepRequests
    <3>1. (i \in 1..Len(s) \/ i = Len(s) + 1) /\ (j \in 1..Len(s) \/ j = Len(s) + 1)
      BY <1>2
    <3> QED BY <1>2, <1>4, <3>1 DEF ArrivalsKnown, Arrived
  <2> QED BY <2>1, <2>2, <2>3 DEF ArrivalsKnown
<1> QED BY <1>3, <1>4

-----------------------------------------------------------------------------
(* One step at a time. *)

LEMMA LeavingKeeps ==
  ASSUME Inv, NEW h \in Hooks, event[h] \in Event, NEW d \in Decision, Follow(h, d),
         d \in Negotiated => started[gen[h]] \notin {None, Pending},
         UNCHANGED <<record, started, lockfile, arrived, discarded, gen, fd>>
  PROVE  SessionInv'
<1>1. PICK p \in {"send", "done", "unlink_record"} :
        pc' = [pc EXCEPT ![h] = p] /\ (p = "send" => d \in Negotiated)
  BY FollowEffect DEF Inv, Types
<1>2. p \in Pcs /\ Fits(h, gen[h], p)
  BY <1>1 DEF Fits, Knows, Pcs, Critical
<1> QED BY <1>1, <1>2, QuietMove DEF Inv

LEMMA SessionKept == Inv /\ [Next]_vars => SessionInv'
<1> SUFFICES ASSUME Inv, [Next]_vars PROVE SessionInv'
  OBVIOUS
<1> USE DEF vars, files, Inv
<1>0. pc \in [Hooks -> Pcs] /\ gen \in [Hooks -> Gens] /\ arrived \in [Gens -> Seq(Requests)]
      /\ record \in [Gens -> Decision \cup {None}] /\ discarded \in [Gens -> BOOLEAN]
      /\ started \in [Gens -> Decision \cup {Pending, None}]
      /\ fd \in [Hooks -> Nat] /\ lockfile \in [Gens -> Nat] /\ inodes \in [Gens -> Nat]
  BY DEF Types, AdapterTypeOK, Pcs
<1>1. CASE UNCHANGED vars
  BY <1>1 DEF SessionInv, LockHeldOnce, RecordsKnown, Knows, ArrivalsKnown, Arrived, Holds
<1>2. ASSUME NEW h \in Hooks, NEW e \in Events, Begin(h, e) PROVE SessionInv'
  <2>1. PICK g \in Gens, p \in {"mark", "read_record"} :
          gen' = [gen EXCEPT ![h] = g] /\ pc' = [pc EXCEPT ![h] = p]
    BY <1>2 DEF Begin, Goto
  <2>2. UNCHANGED <<record, started, lockfile, arrived, discarded, fd>>
    BY <1>2 DEF Begin
  <2>3. ASSUME NEW k \in Gens, ~discarded[k], LockHeldOnce(k), RecordsKnown(k), ArrivalsKnown(k)
        PROVE  LockHeldOnce(k)' /\ RecordsKnown(k)' /\ ArrivalsKnown(k)'
    <3>1. LockHeldOnce(k)'
      BY <1>0, <2>1, <2>2, <2>3 DEF LockHeldOnce, Holds, Critical
    <3>2. RecordsKnown(k)'
      BY <1>0, <2>1, <2>2, <2>3 DEF RecordsKnown, Knows, Arrived
    <3>3. ArrivalsKnown(k)'
      BY <2>2, <2>3 DEF ArrivalsKnown, Arrived
    <3> QED BY <3>1, <3>2, <3>3
  <2> QED BY <2>2, <2>3 DEF SessionInv
<1>3. ASSUME NEW h \in Hooks, Killed(h) PROVE SessionInv'
  <2>1. pc' = [pc EXCEPT ![h] = "dead"]
        /\ UNCHANGED <<record, started, lockfile, arrived, discarded, gen, fd>>
    BY <1>3 DEF Killed, Goto
  <2>2. "dead" \in Pcs /\ Fits(h, gen[h], "dead")
    BY DEF Pcs, Fits, Knows, Critical
  <2> QED BY <2>1, <2>2, QuietMove
<1>4. ASSUME NEW h \in Hooks, Step(h) PROVE SessionInv'
  <2> DEFINE g == gen[h]
             same == UNCHANGED <<record, started, lockfile, arrived, discarded, gen, fd>>
  <2>0. event[h] \in Event /\ g \in Gens
    BY <1>0, <1>4 DEF Types, Step, DecisionsHeld, MarkEnded, ReadRecord, ReadStartup, OpenLock, Flock,
       Decide, Hello, HelloReturns, Startup, Claim, SendSessionStart, StartRaises, StartReturns,
       RecordOutcome, Send, Returns, UnlinkRecord, UnlinkStartup, UnlinkLock
  <2>a. Held(pc[h], decision[h])
    BY DEF Types, DecisionsHeld
  <2>b. ~discarded[g] => /\ LockHeldOnce(g) /\ RecordsKnown(g) /\ ArrivalsKnown(g)
                         /\ Fits(h, g, pc[h])
    BY <1>0, <2>0 DEF SessionInv, LockHeldOnce, RecordsKnown, Holds, Fits
  \* A plain move to p.
  <2>c. ASSUME NEW p \in Pcs, Goto(h, p), same, ~discarded[g] => Fits(h, g, p) PROVE SessionInv'
    BY <2>c, QuietMove DEF Goto
  \* A move to a place that asks nothing of the files.
  <2>d. \A p \in {"read_record", "read_startup", "open_lock", "done", "unlink_record"} :
          p \in Pcs /\ Fits(h, g, p)
    BY DEF Fits, Knows, Pcs, Critical
  <2>e. SessionRefused \notin Negotiated /\ NoAnswer \notin Negotiated
    BY DecisionKinds DEF SessionRefused, NoAnswer
  <2> USE <1>0, <2>0
  <2>1. CASE MarkEnded(h)
    <3>1. \E p \in {"read_record", "done"} : Goto(h, p)
      BY <2>1 DEF MarkEnded, Succeeds
    <3> QED BY <2>1, <2>c, <2>d, <3>1 DEF MarkEnded
  <2>2. CASE ReadRecord(h)
    <3>1. CASE record[g] = None \/ record[g].kind = "negotiated"
      <4>1. \E p \in {"open_lock", "read_startup"} : Goto(h, p)
        BY <2>2, <3>1 DEF ReadRecord
      <4> QED BY <2>2, <2>c, <2>d, <4>1 DEF ReadRecord
    <3>2. CASE ~(record[g] = None \/ record[g].kind = "negotiated")
      BY <2>2, <3>2, LeavingKeeps, DecisionKinds DEF ReadRecord
    <3> QED BY <3>1, <3>2
  <2>3. CASE ReadStartup(h)
    <3>1. CASE started[g] \in {None, Pending}
      BY <2>3, <2>c, <2>d, <3>1 DEF ReadStartup
    <3>2. CASE started[g] \notin {None, Pending}
      BY <2>3, <3>2, LeavingKeeps DEF ReadStartup
    <3> QED BY <3>1, <3>2
  <2>4. CASE OpenLock(h)
    <3>1. CASE Follow(h, SessionRefused) /\ UNCHANGED <<inodes, lockfile, fd>>
      BY <2>4, <2>e, <3>1, DecisionKinds, LeavingKeeps DEF OpenLock
    <3>2. CASE ~(Follow(h, SessionRefused) /\ UNCHANGED <<inodes, lockfile, fd>>)
      <4>0. /\ UNCHANGED <<record, started, discarded, arrived, gen>>
            /\ inodes' = IF lockfile[g] = 0 THEN [inodes EXCEPT ![g] = @ + 1] ELSE inodes
            /\ lockfile' = IF lockfile[g] = 0 THEN [lockfile EXCEPT ![g] = inodes'[g]] ELSE lockfile
            /\ fd' = [fd EXCEPT ![h] = lockfile'[g]]
            /\ pc' = [pc EXCEPT ![h] = "flock"]
            /\ pc[h] = "open_lock"
        BY <2>4, <3>2 DEF OpenLock, Goto
      <4>1. Elsewhere(h, g) /\ "flock" \in Pcs
        BY <4>0 DEF Elsewhere, Pcs
      <4>2. ASSUME ~discarded[g] PROVE LockHeldOnce(g)' /\ RecordsKnown(g)' /\ ArrivalsKnown(g)'
        <5>1. lockfile[g] # 0 => lockfile'[g] = lockfile[g]
          BY <4>0
        <5>2. lockfile'[g] # 0 /\ fd'[h] = lockfile'[g]
          BY <4>0
        <5>3. pc'[h] = "flock" /\ \A q \in Hooks \ {h} : pc'[q] = pc[q] /\ fd'[q] = fd[q] /\ gen'[q] = gen[q]
          BY <4>0
        <5>4. LockHeldOnce(g)'
          BY <2>b, <4>0, <4>2, <5>1, <5>2, <5>3 DEF LockHeldOnce, Holds, Critical
        <5>5. RecordsKnown(g)'
          BY <2>b, <4>0, <4>2, <5>3 DEF RecordsKnown, Knows, Arrived
        <5>6. ArrivalsKnown(g)'
          BY <2>b, <4>0, <4>2 DEF ArrivalsKnown, Arrived
        <5> QED BY <5>4, <5>5, <5>6
      <4> QED BY <4>0, <4>1, <4>2, OwnSession
    <3> QED BY <3>1, <3>2
  <2>5. CASE Flock(h)
    <3>1. Goto(h, "decide") /\ same /\ pc[h] = "flock"
      BY <2>5 DEF Flock
    <3>2. ASSUME ~discarded[g] PROVE Fits(h, g, "decide")
      <4>1. \A q \in Hooks \ {h} : gen[q] = g => ~Holds(q)
        <5>1. \A q \in Hooks \ {h} : gen[q] = g /\ Holds(q) => fd[q] = fd[h]
          BY <2>b, <3>1, <3>2 DEF LockHeldOnce, Holds
        <5> QED BY <2>5, <5>1 DEF Flock
      <4> QED BY <2>b, <3>1, <3>2, <4>1 DEF Fits, Knows
    <3> QED BY <2>c, <3>1, <3>2 DEF Pcs, Critical
  \* The files do not change: under the lock with d, a hook goes on or leaves.
  <2>6. ASSUME NEW d \in Decision, Decided(h, d), pc[h] \in Critical, same,
               ~discarded[g] => record[g] # None
        PROVE  SessionInv'
    <3>1. PICK p \in {"startup", "done", "unlink_record"} : pc' = [pc EXCEPT ![h] = p]
      BY <2>6, DecidedEffect DEF Types
    <3>2. p \in Pcs /\ (~discarded[g] => Fits(h, g, p))
      BY <2>b, <2>6, <3>1 DEF Fits, Knows, Pcs, Critical
    <3> QED BY <2>6, <3>1, <3>2, QuietMove
  \* The first decision is stored.
  <2>7. ASSUME NEW d \in Decision, store_first(h, d), pc[h] \in Critical,
               UNCHANGED <<started, lockfile, arrived, discarded, gen, fd>>,
               ~discarded[g] => record[g] = None
        PROVE  SessionInv'
    <3>1. CASE Follow(h, SessionRefused) /\ UNCHANGED record
      BY <2>e, <2>7, <3>1, DecisionKinds, LeavingKeeps
    <3>2. CASE ~(Follow(h, SessionRefused) /\ UNCHANGED record)
      <4>1. PICK first \in Decision : record' = [record EXCEPT ![g] = first] /\ Decided(h, first)
        BY <2>7, <3>2 DEF store_first
      <4>2. PICK p \in {"startup", "done", "unlink_record"} : pc' = [pc EXCEPT ![h] = p]
        BY <4>1, DecidedEffect DEF Types
      <4>3. Elsewhere(h, g) /\ p \in Pcs
        BY <2>7, <4>1, <4>2 DEF Elsewhere, Pcs, Critical
      <4>4. ASSUME ~discarded[g] PROVE LockHeldOnce(g)' /\ RecordsKnown(g)' /\ ArrivalsKnown(g)'
        <5>1. pc'[h] = p /\ \A q \in Hooks \ {h} : pc'[q] = pc[q]
          BY <4>2
        <5>2. \A q \in Hooks \ {h} : gen[q] = g => ~Holds(q)
          BY <2>b, <2>7, <4>4 DEF Fits
        <5>3. record'[g] # None /\ started[g] = None
          BY <2>b, <2>7, <4>1, <4>4, DecisionKinds DEF RecordsKnown
        <5>4. LockHeldOnce(g)'
          BY <2>b, <2>7, <4>4, <5>1, <5>2 DEF LockHeldOnce, Fits, Holds, Critical
        <5>5. RecordsKnown(g)'
          BY <2>b, <2>7, <4>2, <4>4, <5>1, <5>2, <5>3 DEF RecordsKnown, Knows, Arrived, Holds, Critical
        <5>6. ArrivalsKnown(g)'
          BY <2>b, <2>7, <4>4 DEF ArrivalsKnown, Arrived
        <5> QED BY <5>4, <5>5, <5>6
      <4> QED BY <2>7, <4>2, <4>3, <4>4, OwnSession
    <3> QED BY <3>1, <3>2
  <2>8. CASE Decide(h)
    <3>1. CASE record[g] # None
      <4>1. record[g] \in Decision /\ Decided(h, record[g]) /\ pc[h] = "decide" /\ same
        BY <2>8, <3>1 DEF Decide
      <4> QED BY <2>6, <3>1, <4>1 DEF Critical
    <3>2. CASE record[g] = None /\ ~event[h].handshake
      <4>1. store_first(h, NoAnswer) /\ pc[h] = "decide"
            /\ UNCHANGED <<started, lockfile, arrived, discarded, gen, fd>>
        BY <2>8, <3>2 DEF Decide
      <4> QED BY <2>7, <3>2, <4>1, DecisionKinds DEF Critical
    <3>3. CASE record[g] = None /\ event[h].handshake
      <4>1. Goto(h, "hello") /\ same /\ pc[h] = "decide"
        BY <2>8, <3>3 DEF Decide
      <4>2. "hello" \in Pcs /\ (~discarded[g] => Fits(h, g, "hello"))
        BY <2>b, <3>3, <4>1 DEF Fits, Knows, Pcs, Critical
      <4> QED BY <2>c, <4>1, <4>2
    <3> QED BY <3>1, <3>2, <3>3
  <2>9. ASSUME NEW d \in ServerHellos, HelloReturns(h, d) PROVE SessionInv'
    <3>1. pc[h] = "await_hello" /\ store_first(h, d)
          /\ UNCHANGED <<started, lockfile, arrived, discarded, gen, fd>>
      BY <2>9 DEF HelloReturns
    <3>2. ~discarded[g] => record[g] = None
      BY <2>b, <3>1 DEF Fits, Knows
    <3> QED BY <2>7, <3>1, <3>2, DecisionKinds DEF Critical
  \* A request arrives, or is lost.
  <2>10. ASSUME NEW r \in Requests, NEW p \in Pcs, Deliver(h, r), Goto(h, p),
                UNCHANGED <<record, started, lockfile, discarded, gen, fd>>,
                ~discarded[g] => Fits(h, g, p) /\ p # "start",
                ~discarded[g] =>
                  /\ r \in StepRequests => started[g] \notin {None, Pending}
                  /\ r \notin StepRequests => ~Arrived(g, StepRequests)
                  /\ r = "steps/sessionStart" => pc[h] = "start" /\ started[g] # None
         PROVE  SessionInv'
    <3>1. CASE UNCHANGED arrived
      BY <2>10, <2>c, <3>1
    <3>2. CASE arrived' = [arrived EXCEPT ![g] = Append(@, r)]
      <4>1. Elsewhere(h, g) /\ pc' = [pc EXCEPT ![h] = p] /\ arrived'[g] = Append(arrived[g], r)
        BY <2>10, <3>2 DEF Elsewhere, Goto
      <4>2. ASSUME ~discarded[g] PROVE LockHeldOnce(g)' /\ RecordsKnown(g)' /\ ArrivalsKnown(g)'
        <5>1. pc'[h] = p /\ \A q \in Hooks \ {h} : pc'[q] = pc[q]
          BY <4>1
        <5>2. LockHeldOnce(g)'
          BY <2>b, <2>10, <4>2, <5>1 DEF LockHeldOnce, Fits, Holds
        <5>3. \A R : Arrived(g, R)' <=> (Arrived(g, R) \/ r \in R)
          BY <2>10, <4>1, Arrival
        <5>4. r = "steps/sessionStart" =>
                started[g] # None /\ ~Arrived(g, {"steps/sessionStart"})
                /\ \A q \in Hooks \ {h} : gen[q] = g => pc[q] # "start"
          BY <2>b, <2>10, <4>2 DEF Fits, Knows, Holds, Critical
        <5>5. RecordsKnown(g)'
          BY <2>b, <2>10, <4>2, <5>1, <5>3, <5>4 DEF RecordsKnown, Knows, Fits
        <5>6. ArrivalsKnown(g)'
          BY <2>b, <2>10, <4>1, <4>2, <5>4, Arrival
        <5> QED BY <5>2, <5>5, <5>6
      <4> QED BY <2>10, <4>1, <4>2, OwnSession
    <3> QED BY <2>10, <3>1, <3>2 DEF Deliver
  <2>11. CASE Hello(h)
    <3>1. pc[h] = "hello" /\ Deliver(h, "handshake/hello") /\ Goto(h, "await_hello")
          /\ UNCHANGED <<record, started, lockfile, discarded, gen, fd>>
      BY <2>11 DEF Hello
    <3>2. ~discarded[g] => Fits(h, g, "await_hello") /\ ~Arrived(g, StepRequests)
      BY <2>b, <3>1 DEF Fits, Knows, Critical, RecordsKnown, ArrivalsKnown
    <3> QED BY <2>10, <3>1, <3>2 DEF Requests, StepRequests, Pcs, Critical
  <2>12. CASE SendSessionStart(h)
    <3>1. pc[h] = "start" /\ Deliver(h, "steps/sessionStart") /\ Goto(h, "await_start")
          /\ UNCHANGED <<record, started, lockfile, discarded, gen, fd>>
      BY <2>12 DEF SendSessionStart
    <3>2. ~discarded[g] => /\ Fits(h, g, "await_start") /\ ~Arrived(g, StepRequests)
                           /\ started[g] # None
      BY <2>b, <3>1, DecisionKinds DEF Fits, Knows, Critical, ArrivalsKnown
    <3> QED BY <2>10, <3>1, <3>2 DEF Requests, StepRequests, Pcs, Critical
  <2>13. CASE Send(h)
    <3>1. pc[h] = "send" /\ Deliver(h, request(event[h])) /\ Goto(h, "await")
          /\ UNCHANGED <<record, started, lockfile, discarded, gen, fd>>
      BY <2>13 DEF Send
    <3>2. ~discarded[g] => Fits(h, g, "await") /\ started[g] \notin {None, Pending}
      BY <2>b, <3>1 DEF Fits, Knows, Critical
    <3>3. request(event[h]) \in Requests \cap StepRequests /\ request(event[h]) # "steps/sessionStart"
      BY DEF request, Requests, StepRequests
    <3> QED BY <2>10, <3>1, <3>2, <3>3 DEF Pcs
  \* The startup record is written under the lock, by a hook that then goes to p.
  <2>14. ASSUME NEW v \in Decision \cup {Pending}, NEW p \in {"start", "outcome", "send", "done", "unlink_record"},
                pc[h] \in Critical, started' = [started EXCEPT ![g] = v], pc' = [pc EXCEPT ![h] = p],
                UNCHANGED <<record, lockfile, arrived, discarded, gen, fd>>,
                ~discarded[g] => started[g] \in {None, Pending} /\ record[g] # None,
                v = Pending <=> p \in {"start", "outcome"},
                ~discarded[g] /\ p = "start" => started[g] = None
         PROVE  SessionInv'
    <3>1. Elsewhere(h, g) /\ p \in Pcs
      BY <2>14 DEF Elsewhere, Pcs, Critical
    <3>2. ASSUME ~discarded[g] PROVE LockHeldOnce(g)' /\ RecordsKnown(g)' /\ ArrivalsKnown(g)'
      <4>1. pc'[h] = p /\ (\A q \in Hooks \ {h} : pc'[q] = pc[q]) /\ started'[g] = v /\ v # None
        BY <2>14, DecisionKinds
      <4>2. \A q \in Hooks \ {h} : gen[q] = g => ~Holds(q) /\ pc[q] \notin {"send", "await"}
        BY <2>b, <2>14, <3>2 DEF Fits, RecordsKnown, Knows
      <4>3. LockHeldOnce(g)'
        BY <2>b, <2>14, <3>2, <4>1, <4>2 DEF LockHeldOnce, Fits, Holds, Critical
      <4>4. p = "start" => ~Arrived(g, {"steps/sessionStart"})
        BY <2>b, <2>14, <3>2 DEF ArrivalsKnown
      <4>5. ASSUME NEW q \in Hooks, gen[q] = g PROVE Knows(g, pc[q])'
        <5>1. CASE q = h
          BY <2>14, <3>2, <4>1, <4>4, <5>1 DEF Knows, Arrived
        <5>2. CASE q # h
          <6>1. pc'[q] = pc[q] /\ pc[q] \notin Critical \cup {"send", "await"}
            BY <4>1, <4>2, <4>5, <5>2 DEF Holds
          <6> QED BY <6>1 DEF Knows, Critical
        <5> QED BY <5>1, <5>2
      <4>6. RecordsKnown(g)'
        BY <2>14, <3>2, <4>5 DEF RecordsKnown
      <4>7. ArrivalsKnown(g)'
        BY <2>b, <2>14, <3>2, <4>1 DEF ArrivalsKnown, Arrived
      <4> QED BY <4>3, <4>6, <4>7
    <3> QED BY <2>14, <3>1, <3>2, OwnSession
  <2>15. CASE Startup(h)
    <3>1. pc[h] = "startup" /\ same
      BY <2>15 DEF Startup
    <3>2. CASE started[g] = None
      <4>1. Goto(h, "claim")
        BY <2>15, <3>2, DecisionKinds DEF Startup
      <4>2. ~discarded[g] => Fits(h, g, "claim")
        BY <2>b, <3>1, <3>2 DEF Fits, Knows, Critical
      <4> QED BY <2>c, <3>1, <4>1, <4>2 DEF Pcs, Critical
    <3>3. CASE started[g] = Pending
      <4>1. Goto(h, "outcome")
        BY <2>15, <3>3, DecisionKinds DEF Startup
      <4>2. ~discarded[g] => Fits(h, g, "outcome")
        BY <2>b, <3>1, <3>3 DEF Fits, Knows, Critical
      <4> QED BY <2>c, <3>1, <4>1, <4>2 DEF Pcs, Critical
    <3>4. CASE started[g] \notin {None, Pending}
      <4>1. Follow(h, started[g]) /\ started[g] \in Decision
        BY <2>15, <3>4 DEF Startup
      <4> QED BY <3>1, <3>4, <4>1, LeavingKeeps
    <3> QED BY <3>2, <3>3, <3>4
  <2>16. CASE Claim(h)
    <3>1. pc[h] = "claim" /\ UNCHANGED <<record, lockfile, arrived, discarded, gen, fd>>
      BY <2>16 DEF Claim
    <3>2. CASE Follow(h, SessionRefused) /\ UNCHANGED started
      BY <2>e, <3>1, <3>2, DecisionKinds, LeavingKeeps
    <3>3. CASE ~(Follow(h, SessionRefused) /\ UNCHANGED started)
      <4>1. started[g] = None /\ started' = [started EXCEPT ![g] = Pending]
            /\ \E p \in {"start", "outcome"} : pc' = [pc EXCEPT ![h] = p]
        BY <2>16, <3>3 DEF Claim, Goto
      <4>2. ~discarded[g] => record[g] # None
        BY <2>b, <3>1 DEF Fits, Knows
      <4> QED BY <2>14, <3>1, <4>1, <4>2 DEF Critical
    <3> QED BY <3>2, <3>3
  <2>17. CASE StartRaises(h)
    <3>1. pc[h] = "start" /\ Goto(h, "outcome") /\ same
      BY <2>17 DEF StartRaises
    <3>2. ~discarded[g] => Fits(h, g, "outcome")
      BY <2>b, <3>1 DEF Fits, Knows, Critical
    <3> QED BY <2>c, <3>1, <3>2 DEF Pcs, Critical
  <2>18. ASSUME NEW a \in Answer, StartReturns(h, a) PROVE SessionInv'
    <3>1. pc[h] = "await_start" /\ Goto(h, "outcome") /\ same
      BY <2>18 DEF StartReturns
    <3>2. ~discarded[g] => Fits(h, g, "outcome")
      BY <2>b, <3>1 DEF Fits, Knows, Critical
    <3> QED BY <2>c, <3>1, <3>2 DEF Pcs, Critical
  <2>19. CASE RecordOutcome(h)
    <3>1. pc[h] = "outcome" /\ UNCHANGED <<record, lockfile, arrived, discarded, gen, fd>>
      BY <2>19 DEF RecordOutcome
    <3>2. CASE Follow(h, SessionRefused) /\ UNCHANGED started
      BY <2>e, <3>1, <3>2, DecisionKinds, LeavingKeeps
    <3>3. CASE ~(Follow(h, SessionRefused) /\ UNCHANGED started)
      <4>1. started' = [started EXCEPT ![g] = decision[h]] /\ Follow(h, decision[h])
        BY <2>19, <3>3 DEF RecordOutcome
      <4>2. decision[h] \in Decision /\ decision[h] # Pending
        BY <2>a, <3>1, DecisionKinds DEF Held
      <4>3. PICK p \in {"send", "done", "unlink_record"} : pc' = [pc EXCEPT ![h] = p]
        BY <4>1, <4>2, FollowEffect DEF Types
      <4>4. ~discarded[g] => started[g] = Pending /\ record[g] # None
        BY <2>b, <3>1, DecisionKinds DEF Fits, Knows, RecordsKnown
      <4> QED BY <2>14, <3>1, <4>1, <4>2, <4>3, <4>4 DEF Critical
    <3> QED BY <3>2, <3>3
  <2>20. ASSUME NEW a \in Answer, Returns(h, a) PROVE SessionInv'
    <3>1. Goto(h, settled(event[h])) /\ same
      BY <2>20 DEF Returns
    <3>2. settled(event[h]) \in {"done", "unlink_record"}
      BY DEF settled
    <3> QED BY <2>c, <2>d, <3>1, <3>2
  \* A removed session is seen as discarded.
  <2>21. CASE UnlinkRecord(h)
    <3>1. Elsewhere(h, g) /\ pc' = [pc EXCEPT ![h] = "unlink_startup"] /\ discarded'[g]
      BY <2>21 DEF UnlinkRecord, Elsewhere, Goto
    <3> QED BY <3>1, OwnSession DEF Pcs
  <2>22. CASE UnlinkStartup(h)
    <3>1. Elsewhere(h, g) /\ pc' = [pc EXCEPT ![h] = "unlink_lock"] /\ discarded'[g]
      BY <2>22 DEF UnlinkStartup, Elsewhere, Goto, Types, RemovalIsSeen
    <3> QED BY <3>1, OwnSession DEF Pcs
  <2>23. CASE UnlinkLock(h)
    <3>1. Elsewhere(h, g) /\ pc' = [pc EXCEPT ![h] = "done"] /\ discarded'[g]
      BY <2>23 DEF UnlinkLock, Elsewhere, Goto, Types, RemovalIsSeen
    <3> QED BY <3>1, OwnSession DEF Pcs
  <2> QED BY <1>4, <2>1, <2>2, <2>3, <2>4, <2>5, <2>8, <2>9, <2>11, <2>12, <2>13, <2>15, <2>16,
             <2>17, <2>18, <2>19, <2>20, <2>21, <2>22, <2>23 DEF Step
<1> QED BY <1>1, <1>2, <1>3, <1>4 DEF Next

-----------------------------------------------------------------------------
(* The theorems. *)

LEMMA InvHolds == Spec => []Inv
<1>1. Init => Inv
  BY InitTypes, InitSession DEF Inv
<1>2. Inv /\ [Next]_vars => Inv'
  BY TypesKept, SessionKept DEF Inv
<1> QED BY <1>1, <1>2, PTL DEF Spec

\* At most one sessionStart of a session reaches the Guardian, for any number of
\* hooks that race, die or fail to write.
THEOREM StartSentOnceHolds == Spec => []StartSentOnce
<1>1. Inv => StartSentOnce
  BY DEF Inv, SessionInv, ArrivalsKnown, StartSentOnce
<1> QED BY <1>1, InvHolds, PTL

\* No hello and no sessionStart arrives after a step of the session.
THEOREM StepsComeLastHolds == Spec => []StepsComeLast
<1>1. Inv => StepsComeLast
  BY DEF Inv, SessionInv, ArrivalsKnown, StepsComeLast, StepRequests
<1> QED BY <1>1, InvHolds, PTL

\* The start comes once and before the session's steps (open_session).
THEOREM StartIsOnceAndFirstHolds == Spec => []StartIsOnceAndFirst
  BY StartSentOnceHolds, StepsComeLastHolds, PTL DEF StartIsOnceAndFirst

\* What is recorded of a session is not revised while its records are kept.
THEOREM RecordsStandHolds == Spec => RecordsStand
<1> DEFINE Stand == \A g \in Gens : ~discarded'[g] =>
                      /\ record[g] # None => record'[g] = record[g]
                      /\ started[g] \notin {None, Pending} => started'[g] = started[g]
<1>1. ASSUME Inv, [Next]_vars PROVE Stand
  <2> USE DEF vars, files
  <2>0. pc \in [Hooks -> Pcs] /\ gen \in [Hooks -> Gens]
        /\ record \in [Gens -> Decision \cup {None}]
        /\ started \in [Gens -> Decision \cup {Pending, None}]
        /\ discarded \in [Gens -> BOOLEAN]
    BY <1>1 DEF Inv, Types, AdapterTypeOK, Pcs
  <2>1. CASE UNCHANGED <<record, started>>
    BY <2>1
  <2>2. ASSUME NEW h \in Hooks, Decide(h) \/ \E d \in ServerHellos : HelloReturns(h, d)
        PROVE  Stand
    <3>1. UNCHANGED <<started, discarded>>
      BY <2>2 DEF Decide, HelloReturns
    <3>2. CASE UNCHANGED record
      BY <3>1, <3>2
    <3>3. CASE record' # record
      <4>1. PICK d \in Decision : store_first(h, d)
        BY <2>2, <3>3, DecisionKinds DEF Decide, HelloReturns
      <4>2. \E first : record' = [record EXCEPT ![gen[h]] = first]
                      /\ (record[gen[h]] # None => first = record[gen[h]])
        BY <3>3, <4>1 DEF store_first
      <4> QED BY <2>0, <3>1, <4>2
    <3> QED BY <3>2, <3>3
  <2>3. ASSUME NEW h \in Hooks, Claim(h) \/ RecordOutcome(h) PROVE Stand
    <3>1. UNCHANGED <<record, discarded>>
          /\ \/ UNCHANGED started
             \/ \E v : started' = [started EXCEPT ![gen[h]] = v]
      BY <2>3 DEF Claim, RecordOutcome
    <3>2. Claim(h) => started[gen[h]] = None \/ UNCHANGED started
      BY DEF Claim
    <3>3. RecordOutcome(h) => pc[h] = "outcome"
      BY DEF RecordOutcome
    <3>4. RecordOutcome(h) /\ ~discarded[gen[h]] => started[gen[h]] = Pending
      BY <1>1, <2>0, <3>3 DEF Inv, SessionInv, RecordsKnown, Knows
    <3> QED BY <2>0, <2>3, <3>1, <3>2, <3>4
  <2>4. ASSUME NEW h \in Hooks, UnlinkRecord(h) \/ UnlinkStartup(h) PROVE Stand
    <3>1. discarded'[gen[h]] /\ \A g \in Gens \ {gen[h]} :
            record'[g] = record[g] /\ started'[g] = started[g]
      BY <1>1, <2>0, <2>4 DEF UnlinkRecord, UnlinkStartup, Inv, Types, RemovalIsSeen
    <3> QED BY <3>1
  <2>5. ASSUME NEW h \in Hooks, Step(h) PROVE Stand
    <3>1. CASE Decide(h) \/ (\E d \in ServerHellos : HelloReturns(h, d)) \/ Claim(h)
               \/ RecordOutcome(h) \/ UnlinkRecord(h) \/ UnlinkStartup(h)
      BY <2>2, <2>3, <2>4, <3>1
    <3>2. CASE ~(Decide(h) \/ (\E d \in ServerHellos : HelloReturns(h, d)) \/ Claim(h)
                 \/ RecordOutcome(h) \/ UnlinkRecord(h) \/ UnlinkStartup(h))
      <4>1. UNCHANGED <<record, started>>
        BY <2>5, <3>2 DEF Step, MarkEnded, ReadRecord, ReadStartup, OpenLock, Flock, Hello, Startup,
           SendSessionStart, StartRaises, StartReturns, Send, Returns, UnlinkLock
      <4> QED BY <2>1, <4>1
    <3> QED BY <3>1, <3>2
  <2>6. ASSUME NEW h \in Hooks, NEW e \in Events, Begin(h, e) PROVE Stand
    BY <2>1, <2>6 DEF Begin
  <2>7. ASSUME NEW h \in Hooks, Killed(h) PROVE Stand
    BY <2>1, <2>7 DEF Killed
  <2> QED BY <1>1, <2>1, <2>5, <2>6, <2>7 DEF Next
<1> QED BY <1>1, InvHolds, PTL DEF Spec, RecordsStand

\* At most one hook holds the startup lock of a session that nothing discarded.
THEOREM StartupLockExcludes ==
  Spec => [](\A g \in Gens : ~discarded[g] =>
               \A h, q \in Hooks : gen[h] = g /\ gen[q] = g /\ Holds(h) /\ Holds(q) => h = q)
<1>1. Inv => \A g \in Gens : ~discarded[g] =>
                \A h, q \in Hooks : gen[h] = g /\ gen[q] = g /\ Holds(h) /\ Holds(q) => h = q
  BY DEF Inv, SessionInv, LockHeldOnce
<1> QED BY <1>1, InvHolds, PTL

-----------------------------------------------------------------------------
(* A step is one hook's: it moves that hook, and no other. *)

Turns(h) ==
  /\ UNCHANGED <<event, gen>>
  /\ \E p, d, r : /\ pc' = [pc EXCEPT ![h] = p]
                  /\ decision' = [decision EXCEPT ![h] = d]
                  /\ result' = [result EXCEPT ![h] = r]

LEMMA OneHookMoves ==
  ASSUME Types, NEW h \in Hooks, Step(h)
  PROVE  Turns(h)
<1> USE DEF files
<1>0. /\ decision = [decision EXCEPT ![h] = decision[h]]
      /\ result = [result EXCEPT ![h] = result[h]]
  BY DEF Types, AdapterTypeOK
<1> DEFINE moved == \E p, d, r : /\ pc' = [pc EXCEPT ![h] = p]
                                /\ decision' = [decision EXCEPT ![h] = d]
                                /\ result' = [result EXCEPT ![h] = r]
<1>1. UNCHANGED <<event, gen>>
  BY DEF Step, MarkEnded, ReadRecord, ReadStartup, OpenLock, Flock, Decide, Hello, HelloReturns,
     Startup, Claim, SendSessionStart, StartRaises, StartReturns, RecordOutcome, Send, Returns,
     UnlinkRecord, UnlinkStartup, UnlinkLock
<1> SUFFICES moved
  BY <1>1 DEF Turns
<1>m. ASSUME NEW p, NEW d, NEW r, pc' = [pc EXCEPT ![h] = p],
             decision' = [decision EXCEPT ![h] = d], result' = [result EXCEPT ![h] = r]
      PROVE  moved
  BY <1>m
<1> HIDE DEF moved
<1>2. \A p : Goto(h, p) /\ UNCHANGED <<decision, result>> => moved
  BY <1>0, <1>m DEF Goto
<1>3. \A d : Follow(h, d) => moved
  BY <1>0, <1>m DEF Follow
<1>a. \A p, d : Goto(h, p) /\ decision' = [decision EXCEPT ![h] = d] /\ UNCHANGED result => moved
  BY <1>0, <1>m DEF Goto
<1>4. \A d : Decided(h, d) => moved
  BY <1>3, <1>a DEF Decided
<1>5. \A d : store_first(h, d) => moved
  BY <1>3, <1>4 DEF store_first
<1>6. CASE ReadRecord(h) \/ ReadStartup(h) \/ OpenLock(h) \/ Flock(h) \/ MarkEnded(h)
  BY <1>2, <1>3, <1>6 DEF ReadRecord, ReadStartup, OpenLock, Flock, MarkEnded
<1>7. CASE Decide(h) \/ \E d \in ServerHellos : HelloReturns(h, d)
  BY <1>2, <1>4, <1>5, <1>7 DEF Decide, HelloReturns
<1>8. CASE Startup(h)
  BY <1>2, <1>3, <1>8, <1>a DEF Startup
<1>9. CASE Claim(h) \/ RecordOutcome(h)
  BY <1>2, <1>3, <1>9 DEF Claim, RecordOutcome
<1>10. CASE Hello(h) \/ SendSessionStart(h) \/ Send(h) \/ UnlinkRecord(h) \/ UnlinkStartup(h)
            \/ UnlinkLock(h)
  BY <1>2, <1>10 DEF Hello, SendSessionStart, Send, UnlinkRecord, UnlinkStartup, UnlinkLock
<1>11. CASE StartRaises(h) \/ \E a \in Answer : StartReturns(h, a)
  BY <1>11, <1>a DEF StartRaises, StartReturns
<1>12. CASE \E a \in Answer : Returns(h, a)
  BY <1>0, <1>12, <1>m DEF Returns, Goto
<1> QED BY <1>6, <1>7, <1>8, <1>9, <1>10, <1>11, <1>12 DEF Step

-----------------------------------------------------------------------------
(* The marker: a SessionEnd marks its session before it does anything else. *)

Sealing(h) ==
  event[h].hook = "SessionEnd" /\ pc[h] \notin {"idle", "mark", "done", "dead"} => marked[gen[h]]

SealInv == Types /\ SealedIsMarked /\ \A h \in Hooks : Sealing(h)

\* A step past the marking leaves the markers alone, and sends sessionEnd for none but a SessionEnd.
LEMMA OnlySessionEndSeals ==
  ASSUME Types, NEW h \in Hooks, Step(h), ~MarkEnded(h)
  PROVE  /\ UNCHANGED <<event, gen, marked>>
         /\ pc[h] \notin {"idle", "mark", "done", "dead"}
         /\ \A q \in Hooks \ {h} : pc'[q] = pc[q]
         /\ \/ UNCHANGED arrived
            \/ \E r \in Requests :
                 /\ arrived' = [arrived EXCEPT ![gen[h]] = Append(@, r)]
                 /\ r = "steps/sessionEnd" => event[h].hook = "SessionEnd"
<1> USE DEF files
<1>0. pc \in [Hooks -> Pcs] /\ \A p, q \in Hooks : p # q => \A l : [pc EXCEPT ![p] = l][q] = pc[q]
  BY DEF Types, AdapterTypeOK, Pcs
<1>1. /\ UNCHANGED <<event, gen, marked>>
      /\ pc[h] \notin {"idle", "mark", "done", "dead"}
  BY DEF Step, ReadRecord, ReadStartup, OpenLock, Flock, Decide, Hello, HelloReturns, Startup, Claim,
     SendSessionStart, StartRaises, StartReturns, RecordOutcome, Send, Returns, UnlinkRecord,
     UnlinkStartup, UnlinkLock
<1>2. \E p : pc' = [pc EXCEPT ![h] = p]
  BY OneHookMoves DEF Turns
<1>3. \/ UNCHANGED arrived
      \/ \E r \in Requests : /\ arrived' = [arrived EXCEPT ![gen[h]] = Append(@, r)]
                             /\ r = "steps/sessionEnd" => event[h].hook = "SessionEnd"
  <2>1. CASE Hello(h) \/ SendSessionStart(h) \/ Send(h)
    BY <2>1 DEF Hello, SendSessionStart, Send, Deliver, Requests, request
  <2>2. CASE ~(Hello(h) \/ SendSessionStart(h) \/ Send(h))
    BY <2>2 DEF Step, ReadRecord, ReadStartup, OpenLock, Flock, Decide, HelloReturns, Startup, Claim,
       StartRaises, StartReturns, RecordOutcome, Returns, UnlinkRecord, UnlinkStartup, UnlinkLock
  <2> QED BY <2>1, <2>2
<1> QED BY <1>0, <1>1, <1>2, <1>3

LEMMA SealKept == SealInv /\ [Next]_vars /\ Types' => SealInv'
<1> SUFFICES ASSUME SealInv, [Next]_vars, Types' PROVE SealedIsMarked' /\ \A h \in Hooks : Sealing(h)'
  BY DEF SealInv
<1> USE DEF vars, files
<1>0. /\ pc \in [Hooks -> Pcs] /\ gen \in [Hooks -> Gens] /\ marked \in [Gens -> BOOLEAN]
      /\ arrived \in [Gens -> Seq(Requests)] /\ event \in [Hooks -> Events \cup {None}]
  BY DEF SealInv, Types, AdapterTypeOK, Pcs
<1>1. CASE UNCHANGED vars
  BY <1>1 DEF SealInv, SealedIsMarked, Sealing
<1>2. ASSUME NEW h \in Hooks, NEW e \in Events, Begin(h, e)
      PROVE  SealedIsMarked' /\ \A q \in Hooks : Sealing(q)'
  BY <1>0, <1>2 DEF SealInv, SealedIsMarked, Sealing, Begin, Goto
<1>3. ASSUME NEW h \in Hooks, Killed(h) PROVE SealedIsMarked' /\ \A q \in Hooks : Sealing(q)'
  BY <1>0, <1>3 DEF SealInv, SealedIsMarked, Sealing, Killed, Goto
<1>4. ASSUME NEW h \in Hooks, MarkEnded(h) PROVE SealedIsMarked' /\ \A q \in Hooks : Sealing(q)'
  <2>1. PICK ok \in BOOLEAN : /\ marked' = [marked EXCEPT ![gen[h]] = @ \/ ok]
                              /\ pc' = [pc EXCEPT ![h] = IF ok THEN "read_record" ELSE "done"]
    BY <1>4 DEF MarkEnded, Succeeds, Goto
  <2>2. UNCHANGED <<event, gen, arrived>>
    BY <1>4 DEF MarkEnded
  <2>3. \A g \in Gens : marked[g] => marked'[g]
    BY <1>0, <2>1
  <2>4. ok => marked'[gen[h]]
    BY <1>0, <2>1
  <2>5. SealedIsMarked'
    BY <2>2, <2>3 DEF SealInv, SealedIsMarked
  <2>6. ASSUME NEW q \in Hooks PROVE Sealing(q)'
    BY <1>0, <2>1, <2>2, <2>3, <2>4 DEF SealInv, Sealing
  <2> QED BY <2>5, <2>6
<1>5. ASSUME NEW h \in Hooks, Step(h), ~MarkEnded(h)
      PROVE  SealedIsMarked' /\ \A q \in Hooks : Sealing(q)'
  <2>1. /\ UNCHANGED <<event, gen, marked>> /\ pc[h] \notin {"idle", "mark", "done", "dead"}
        /\ \A q \in Hooks \ {h} : pc'[q] = pc[q]
        /\ \/ UNCHANGED arrived
           \/ \E r \in Requests : /\ arrived' = [arrived EXCEPT ![gen[h]] = Append(@, r)]
                                  /\ r = "steps/sessionEnd" => event[h].hook = "SessionEnd"
    BY <1>5, OnlySessionEndSeals DEF SealInv
  <2>2. ASSUME NEW q \in Hooks PROVE Sealing(q)'
    BY <2>1 DEF SealInv, Sealing
  <2>3. CASE UNCHANGED arrived
    BY <2>1, <2>2, <2>3 DEF SealInv, SealedIsMarked
  <2>4. ASSUME NEW r \in Requests, arrived' = [arrived EXCEPT ![gen[h]] = Append(@, r)],
               r = "steps/sessionEnd" => event[h].hook = "SessionEnd"
        PROVE  SealedIsMarked'
    <3>1. r = "steps/sessionEnd" => marked[gen[h]]
      BY <2>1, <2>4 DEF SealInv, Sealing
    <3>2. /\ Len(Append(arrived[gen[h]], r)) = Len(arrived[gen[h]]) + 1
          /\ \A i \in 1..Len(arrived[gen[h]]) : Append(arrived[gen[h]], r)[i] = arrived[gen[h]][i]
          /\ Append(arrived[gen[h]], r)[Len(arrived[gen[h]]) + 1] = r
          /\ Len(arrived[gen[h]]) \in Nat
      BY <1>0
    <3> QED BY <1>0, <2>1, <2>4, <3>1, <3>2 DEF SealInv, SealedIsMarked
  <2> QED BY <2>1, <2>2, <2>3, <2>4
<1> QED BY <1>1, <1>2, <1>3, <1>4, <1>5 DEF Next

\* A session whose sessionEnd reached the Guardian is marked ended, whenever a hook
\* of it was killed (mark_session_ended before open_session), so that no hook joins it.
THEOREM SealedIsMarkedHolds == Spec => []SealedIsMarked
<1>1. Init => SealInv
  BY InitTypes DEF Init, SealInv, SealedIsMarked, Sealing
<1>2. Inv /\ Inv' /\ SealInv /\ [Next]_vars => SealInv'
  BY SealKept DEF Inv
<1>3. SealInv => SealedIsMarked
  BY DEF SealInv
<1> QED BY <1>1, <1>2, <1>3, InvHolds, PTL DEF Spec

-----------------------------------------------------------------------------
(* The hooks of a session, however many, implement AcsSession: a step of     *)
(* theirs changes what a session records, and what the Guardian has seen of  *)
(* it, in one of a few ways, and each is a step of AcsSession or leaves it   *)
(* alone.                                                                    *)

StepsSeen(a) == {i \in 1..Len(a) : a[i] = "step"}

\* The ways a step may change session g.
Stays(g) == record'[g] = record[g] /\ started'[g] = started[g]

Answered(g) ==
  /\ record[g] = None /\ record'[g] \in ServerHellos \cup {NoAnswer}
  /\ started'[g] = started[g] /\ arrived'[g] = arrived[g]

Claimed(g) ==
  /\ record[g] \in Negotiated /\ started[g] = None /\ started'[g] = Pending
  /\ record'[g] = record[g] /\ arrived'[g] = arrived[g]

Concluded(g) ==
  /\ started[g] = Pending /\ started'[g] \in Negotiated \cup {SessionRefused}
  /\ \E h \in Hooks : gen[h] = g /\ pc[h] = "outcome" /\ started'[g] = decision[h]
  /\ record'[g] = record[g] /\ arrived'[g] = arrived[g]

Received(g, r) == Stays(g) /\ arrived'[g] = Append(arrived[g], r)

Changes(g) ==
  \/ Stays(g) /\ arrived'[g] = arrived[g]
  \/ Answered(g) \/ Claimed(g) \/ Concluded(g)
  \/ \E r \in Requests : Received(g, r) /\ (r \in StepRequests => started[g] \in Negotiated)

LEMMA StepsSeenFinite ==
  ASSUME NEW a \in Seq(Requests)
  PROVE  IsFiniteSet(StepsSeen(a)) /\ Cardinality(StepsSeen(a)) \in Nat
<1>1. IsFiniteSet(1..Len(a))
  BY FS_Interval
<1> QED BY <1>1, FS_Subset, FS_CardinalityType DEF StepsSeen

LEMMA StepsSeenAppend ==
  ASSUME NEW a \in Seq(Requests), NEW r \in Requests
  PROVE  Cardinality(StepsSeen(Append(a, r)))
           = IF r = "step" THEN Cardinality(StepsSeen(a)) + 1 ELSE Cardinality(StepsSeen(a))
<1>1. /\ Append(a, r) \in Seq(Requests) /\ Len(a) \in Nat /\ Len(Append(a, r)) = Len(a) + 1
      /\ \A i \in 1..Len(a) : Append(a, r)[i] = a[i]
      /\ Append(a, r)[Len(a) + 1] = r
  OBVIOUS
<1>2. StepsSeen(Append(a, r)) = IF r = "step" THEN StepsSeen(a) \cup {Len(a) + 1} ELSE StepsSeen(a)
  BY <1>1 DEF StepsSeen
<1>3. Len(a) + 1 \notin StepsSeen(a)
  BY <1>1 DEF StepsSeen
<1> QED BY <1>2, <1>3, StepsSeenFinite, FS_AddElement

\* Each of them is a step of AcsSession, or leaves it alone.
LEMMA ChangesImplement ==
  ASSUME AdapterTypeOK, NEW g \in Gens, Changes(g)
  PROVE  [ACS(g)!Next]_(ACS(g)!vars)
<1>0. /\ arrived[g] \in Seq(Requests) /\ started[g] \in Decision \cup {Pending, None}
      /\ record[g] \in Decision \cup {None}
  BY DEF AdapterTypeOK
<1>1. CASE Stays(g) /\ arrived'[g] = arrived[g]
  BY <1>1 DEF Stays, ACS!vars
<1>2. CASE Answered(g)
  <2>1. ACS(g)!Negotiate(record'[g])
    BY <1>2 DEF Answered, ACS!Negotiate
  <2> QED BY <1>2, <2>1 DEF Answered, ACS!Next
<1>3. CASE Claimed(g)
  <2>1. ACS(g)!Attempt
    BY <1>0, <1>3, DecisionKinds DEF Claimed, ACS!Attempt
  <2> QED BY <2>1 DEF ACS!Next
<1>4. CASE Concluded(g)
  <2>1. ACS(g)!Conclude(started'[g])
    BY <1>0, <1>4, DecisionKinds DEF Concluded, Decision, ACS!Conclude
  <2>2. started'[g] \in Decision
    BY <1>4 DEF Concluded, Decision
  <2> QED BY <2>1, <2>2 DEF ACS!Next
<1>5. ASSUME NEW r \in Requests, Received(g, r), r \in StepRequests => started[g] \in Negotiated
      PROVE  [ACS(g)!Next]_(ACS(g)!vars)
  <2>1. CASE r = "step"
    <3>1. Cardinality(StepsSeen(arrived'[g])) = Cardinality(StepsSeen(arrived[g])) + 1
      BY <1>0, <1>5, <2>1, StepsSeenAppend DEF Received
    <3>2. ACS(g)!Send
      BY <1>0, <1>5, <2>1, <3>1, DecisionKinds DEF Received, Stays, StepsSeen, StepRequests, ACS!Send
    <3> QED BY <3>2 DEF ACS!Next
  <2>2. CASE r # "step"
    <3>1. Cardinality(StepsSeen(arrived'[g])) = Cardinality(StepsSeen(arrived[g]))
      BY <1>0, <1>5, <2>2, StepsSeenAppend DEF Received
    <3> QED BY <1>5, <3>1 DEF Received, Stays, StepsSeen, ACS!vars
  <2> QED BY <2>1, <2>2
<1> QED BY <1>1, <1>2, <1>3, <1>4, <1>5 DEF Changes

-----------------------------------------------------------------------------
(* What a hook relies on: the answer it starts a session under, and the     *)
(* outcome it sends a step under, are negotiated ones.                      *)

Relies(g, p) ==
  /\ p \in {"startup", "claim"} => record[g] \in Negotiated
  /\ p \in {"send", "await"} => started[g] \in Negotiated

Relied == \A h \in Hooks : ~discarded[gen[h]] => Relies(gen[h], pc[h])

RInv == Inv /\ Relied

\* A hook moves to p, and no hook loses what it relied on.
Passes(h, p) ==
  /\ pc' = [pc EXCEPT ![h] = p]
  /\ ~discarded'[gen[h]] => Relies(gen[h], p)'
  /\ \A g \in Gens : ~discarded'[g] => Changes(g) /\ ~discarded[g]
  /\ UNCHANGED gen

LEMMA PassingKeeps ==
  ASSUME RInv, NEW h \in Hooks, NEW p \in Pcs, Passes(h, p)
  PROVE  Relied'
<1>0. pc \in [Hooks -> Pcs] /\ gen \in [Hooks -> Gens] /\ discarded \in [Gens -> BOOLEAN]
  BY DEF RInv, Inv, Types, AdapterTypeOK, Pcs
<1>1. ASSUME NEW q \in Hooks, ~discarded'[gen'[q]] PROVE Relies(gen[q], pc[q])'
  <2>1. ~discarded[gen[q]] /\ Changes(gen[q]) /\ gen' = gen
    BY <1>0, <1>1 DEF Passes
  <2>2. CASE q = h
    <3>1. pc'[q] = p /\ gen'[q] = gen[h] /\ ~discarded'[gen[h]]
      BY <1>0, <1>1, <2>1, <2>2 DEF Passes
    <3> QED BY <2>1, <2>2, <3>1 DEF Passes, Relies
  <2>3. CASE q # h
    <3>1. pc'[q] = pc[q] /\ Relies(gen[q], pc[q]) /\ Knows(gen[q], pc[q])
      BY <1>0, <2>1, <2>3 DEF Passes, RInv, Relied, Inv, SessionInv, RecordsKnown
    <3>2. pc[q] \in {"startup", "claim"} => record'[gen[q]] = record[gen[q]]
      BY <2>1, <3>1 DEF Knows, Changes, Stays, Answered, Claimed, Concluded, Received
    <3>3. pc[q] \in {"send", "await"} => started'[gen[q]] = started[gen[q]]
      BY <2>1, <3>1 DEF Knows, Changes, Stays, Answered, Claimed, Concluded, Received
    <3> QED BY <1>0, <3>1, <3>2, <3>3 DEF Relies, Passes
  <2> QED BY <2>2, <2>3
<1> QED BY <1>0, <1>1 DEF Relied, Passes

\* A step of h touches only its own session; what it does there.
Does(h, p) ==
  /\ pc' = [pc EXCEPT ![h] = p] /\ UNCHANGED gen
  /\ \A k \in Gens \ {gen[h]} : Stays(k) /\ arrived'[k] = arrived[k] /\ discarded'[k] = discarded[k]
  /\ discarded[gen[h]] => discarded'[gen[h]]
  /\ ~discarded'[gen[h]] => Changes(gen[h]) /\ Relies(gen[h], p)'

LEMMA DoingPasses ==
  ASSUME RInv, NEW h \in Hooks, NEW p, Does(h, p)
  PROVE  Passes(h, p)
  BY DEF RInv, Inv, Types, AdapterTypeOK, Does, Passes, Changes

\* The hook leaves open_session, and follows only what is on record.
LEMMA LeavingPasses ==
  ASSUME RInv, NEW h \in Hooks, event[h] \in Event, NEW d \in Decision, Follow(h, d),
         d \in Negotiated /\ ~discarded[gen[h]] => started[gen[h]] \in Negotiated,
         UNCHANGED <<record, started, arrived, discarded, gen>>
  PROVE  \E p \in Pcs : Passes(h, p)
<1>1. PICK p \in {"send", "done", "unlink_record"} :
        pc' = [pc EXCEPT ![h] = p] /\ (p = "send" => d \in Negotiated)
  BY FollowEffect DEF RInv, Inv, Types
<1>2. p \in Pcs /\ Does(h, p)
  BY <1>1 DEF Does, Changes, Stays, Relies, Pcs
<1> QED BY <1>2, DoingPasses

\* A decision taken under the lock lets the hook go on only if it is a negotiated one.
LEMMA DecidedPasses ==
  ASSUME RInv, NEW h \in Hooks, event[h] \in Event, NEW d \in Decision, Decided(h, d)
  PROVE  \E p \in {"startup", "done", "unlink_record"} :
           pc' = [pc EXCEPT ![h] = p] /\ (p = "startup" => d \in Negotiated)
<1>1. CASE required_profiles(event[h], d).kind = "negotiated"
  BY <1>1, DecisionKinds DEF Decided, Goto, required_profiles, SessionRefused
<1>2. CASE required_profiles(event[h], d).kind # "negotiated"
  <2>1. PICK p \in {"startup", "done", "unlink_record"} : pc' = [pc EXCEPT ![h] = p]
    BY DecidedEffect DEF RInv, Inv, Types
  <2>2. pc'[h] # "startup"
    BY <1>2 DEF Decided, Follow, settled, RInv, Inv, Types, AdapterTypeOK
  <2>3. p # "startup"
    BY <2>1, <2>2 DEF RInv, Inv, Types, AdapterTypeOK
  <2> QED BY <2>1, <2>3
<1> QED BY <1>1, <1>2

LEMMA StepPasses ==
  ASSUME RInv, NEW h \in Hooks, Step(h)
  PROVE  \E p \in Pcs : Passes(h, p)
<1> DEFINE g == gen[h]
           same == UNCHANGED <<record, started, arrived, discarded, gen>>
<1> USE DEF vars, files
<1>0. /\ pc \in [Hooks -> Pcs] /\ gen \in [Hooks -> Gens] /\ g \in Gens
      /\ arrived \in [Gens -> Seq(Requests)] /\ discarded \in [Gens -> BOOLEAN]
      /\ record \in [Gens -> Decision \cup {None}]
      /\ started \in [Gens -> Decision \cup {Pending, None}]
      /\ decision \in [Hooks -> Decision \cup {None}]
  BY DEF RInv, Inv, Types, AdapterTypeOK, Pcs
<1>a. event[h] \in Event /\ Held(pc[h], decision[h])
  BY <1>0 DEF RInv, Inv, Types, Step, DecisionsHeld, MarkEnded, ReadRecord, ReadStartup, OpenLock,
     Flock, Decide, Hello, HelloReturns, Startup, Claim, SendSessionStart, StartRaises, StartReturns,
     RecordOutcome, Send, Returns, UnlinkRecord, UnlinkStartup, UnlinkLock
<1>b. ~discarded[g] => /\ Knows(g, pc[h]) /\ Relies(g, pc[h])
                       /\ started[g] # None => record[g] # None
  BY <1>0 DEF RInv, Relied, Inv, SessionInv, RecordsKnown
\* A plain move to p.
<1>c. ASSUME NEW p \in Pcs, Goto(h, p), same, ~discarded[g] => Relies(g, p)
      PROVE  \E r \in Pcs : Passes(h, r)
  <2>1. Does(h, p)
    BY <1>c DEF Does, Goto, Changes, Stays, Relies
  <2> QED BY <2>1, DoingPasses
\* A request is sent, or lost, on the way to p.
<1>d. ASSUME NEW r \in Requests, NEW p \in Pcs, Goto(h, p), Deliver(h, r),
             UNCHANGED <<record, started, discarded, gen>>, ~discarded[g] => Relies(g, p),
             ~discarded[g] /\ r \in StepRequests => started[g] \in Negotiated
      PROVE  \E k \in Pcs : Passes(h, k)
  <2>1. Does(h, p)
    BY <1>0, <1>d DEF Does, Goto, Deliver, Changes, Stays, Received, Relies
  <2> QED BY <1>d, <2>1, DoingPasses
\* A decision is stored, and a later one finds it.
<1>e. ASSUME NEW d \in ServerHellos \cup {NoAnswer}, store_first(h, d),
             ~discarded[g] => record[g] = None,
             UNCHANGED <<started, arrived, discarded, gen>>
      PROVE  \E k \in Pcs : Passes(h, k)
  <2>1. CASE Follow(h, SessionRefused) /\ UNCHANGED record
    BY <1>a, <1>e, <2>1, DecisionKinds, LeavingPasses DEF SessionRefused, Negotiated
  <2>2. CASE ~(Follow(h, SessionRefused) /\ UNCHANGED record)
    <3>1. PICK first \in Decision : /\ record' = [record EXCEPT ![g] = first] /\ Decided(h, first)
                                    /\ record[g] = None => first = d
      BY <1>0, <1>e, <2>2, DecisionKinds DEF store_first
    <3>2. PICK p \in {"startup", "done", "unlink_record"} : 
            pc' = [pc EXCEPT ![h] = p] /\ (p = "startup" => first \in Negotiated)
      BY <1>0, <1>a, <3>1, DecidedPasses
    <3>3. Does(h, p) /\ p \in Pcs
      BY <1>0, <1>e, <3>1, <3>2 DEF Does, Changes, Stays, Answered, Relies, Pcs, Critical
    <3> QED BY <3>3, DoingPasses
  <2> QED BY <2>1, <2>2
<1>1. CASE MarkEnded(h)
  <2>1. same /\ \E p \in {"read_record", "done"} : Goto(h, p)
    BY <1>1 DEF MarkEnded, Succeeds
  <2> QED BY <1>c, <2>1 DEF Pcs, Relies
<1>2. CASE ReadRecord(h)
  <2>1. CASE record[g] = None \/ record[g].kind = "negotiated"
    <3>1. same /\ \E p \in {"open_lock", "read_startup"} : Goto(h, p)
      BY <1>2, <2>1 DEF ReadRecord
    <3> QED BY <1>c, <3>1 DEF Pcs, Relies
  <2>2. CASE ~(record[g] = None \/ record[g].kind = "negotiated")
    <3>1. record[g] \in Decision \ Negotiated
      BY <1>0, <2>2, DecisionKinds
    <3> QED BY <1>2, <1>a, <2>2, <3>1, LeavingPasses DEF ReadRecord
  <2> QED BY <2>1, <2>2
<1>3. CASE ReadStartup(h)
  <2>1. CASE started[g] \in {None, Pending}
    BY <1>3, <1>c, <2>1 DEF ReadStartup, Pcs, Relies
  <2>2. CASE started[g] \notin {None, Pending}
    BY <1>0, <1>3, <1>a, <2>2, LeavingPasses DEF ReadStartup
  <2> QED BY <2>1, <2>2
<1>4. CASE OpenLock(h)
  <2>1. CASE Follow(h, SessionRefused)
    BY <1>4, <1>a, <2>1, DecisionKinds, LeavingPasses DEF OpenLock, SessionRefused, Negotiated
  <2>2. CASE ~Follow(h, SessionRefused)
    BY <1>4, <1>c, <2>2 DEF OpenLock, Pcs, Relies
  <2> QED BY <2>1, <2>2
<1>5. CASE Flock(h)
  BY <1>5, <1>c DEF Flock, Pcs, Critical, Relies
<1>6. CASE Decide(h)
  <2>1. CASE record[g] # None /\ Decided(h, record[g]) /\ UNCHANGED record
    <3>1. PICK p \in {"startup", "done", "unlink_record"} : 
            pc' = [pc EXCEPT ![h] = p] /\ (p = "startup" => record[g] \in Negotiated)
      BY <1>0, <1>a, <2>1, DecidedPasses
    <3>2. Does(h, p) /\ p \in Pcs
      BY <1>6, <2>1, <3>1 DEF Decide, Does, Changes, Stays, Relies, Pcs, Critical
    <3> QED BY <3>2, DoingPasses
  <2>2. CASE record[g] = None /\ store_first(h, NoAnswer)
    BY <1>6, <1>e, <2>2 DEF Decide
  <2>3. CASE Goto(h, "hello") /\ UNCHANGED record
    BY <1>6, <1>c, <2>3 DEF Decide, Pcs, Critical, Relies
  <2> QED BY <1>6, <2>1, <2>2, <2>3 DEF Decide
<1>7. CASE Hello(h)
  BY <1>7, <1>d DEF Hello, Requests, StepRequests, Pcs, Critical, Relies
<1>8. ASSUME NEW d \in ServerHellos, HelloReturns(h, d) PROVE \E p \in Pcs : Passes(h, p)
  BY <1>8, <1>b, <1>e DEF HelloReturns, Knows
<1>9. CASE Startup(h)
  <2>0. same /\ pc[h] = "startup"
    BY <1>9 DEF Startup
  <2>1. CASE started[g] = None
    <3>1. Goto(h, "claim")
      BY <1>9, <2>1, DecisionKinds DEF Startup
    <3> QED BY <1>b, <1>c, <2>0, <3>1 DEF Pcs, Critical, Relies
  <2>2. CASE started[g] = Pending
    <3>1. Goto(h, "outcome")
      BY <1>9, <2>2, DecisionKinds DEF Startup
    <3> QED BY <1>c, <2>0, <3>1 DEF Pcs, Critical, Relies
  <2>3. CASE started[g] \notin {None, Pending}
    <3>1. Follow(h, started[g]) /\ started[g] \in Decision
      BY <1>0, <1>9, <2>3 DEF Startup
    <3> QED BY <1>a, <2>0, <3>1, LeavingPasses
  <2> QED BY <2>1, <2>2, <2>3
<1>10. CASE Claim(h)
  <2>0. pc[h] = "claim" /\ UNCHANGED <<record, arrived, discarded, gen>>
    BY <1>10 DEF Claim
  <2>1. CASE Follow(h, SessionRefused) /\ UNCHANGED started
    BY <1>a, <2>0, <2>1, DecisionKinds, LeavingPasses DEF SessionRefused, Negotiated
  <2>2. CASE ~(Follow(h, SessionRefused) /\ UNCHANGED started)
    <3>1. started[g] = None /\ started' = [started EXCEPT ![g] = Pending]
          /\ \E p \in {"start", "outcome"} : pc' = [pc EXCEPT ![h] = p]
      BY <1>10, <2>2 DEF Claim, Goto
    <3>2. ~discarded[g] => record[g] \in Negotiated
      BY <1>b, <2>0 DEF Relies
    <3>3. \E p \in {"start", "outcome"} : Does(h, p)
      BY <1>0, <2>0, <3>1, <3>2 DEF Does, Changes, Stays, Claimed, Relies
    <3> QED BY <3>3, DoingPasses DEF Pcs, Critical
  <2> QED BY <2>1, <2>2
<1>11. CASE SendSessionStart(h)
  BY <1>11, <1>d DEF SendSessionStart, Requests, StepRequests, Pcs, Critical, Relies
<1>12. CASE StartRaises(h)
  BY <1>12, <1>c DEF StartRaises, Pcs, Critical, Relies
<1>13. ASSUME NEW a \in Answer, StartReturns(h, a) PROVE \E p \in Pcs : Passes(h, p)
  BY <1>13, <1>c DEF StartReturns, Pcs, Critical, Relies
<1>14. CASE RecordOutcome(h)
  <2>0. pc[h] = "outcome" /\ UNCHANGED <<record, arrived, discarded, gen>>
    BY <1>14 DEF RecordOutcome
  <2>1. CASE Follow(h, SessionRefused) /\ UNCHANGED started
    BY <1>a, <2>0, <2>1, DecisionKinds, LeavingPasses DEF SessionRefused, Negotiated
  <2>2. CASE ~(Follow(h, SessionRefused) /\ UNCHANGED started)
    <3>1. started' = [started EXCEPT ![g] = decision[h]] /\ Follow(h, decision[h])
      BY <1>14, <2>2 DEF RecordOutcome
    <3>2. decision[h] \in Negotiated \cup {SessionRefused} /\ decision[h] \in Decision
      BY <1>a, <2>0, DecisionKinds DEF Held
    <3>3. PICK p \in {"send", "done", "unlink_record"} :
            pc' = [pc EXCEPT ![h] = p] /\ (p = "send" => decision[h] \in Negotiated)
      BY <1>a, <3>1, <3>2, FollowEffect DEF RInv, Inv, Types
    <3>4. ~discarded[g] => started[g] = Pending
      BY <1>b, <2>0 DEF Knows
    <3>5. Does(h, p) /\ p \in Pcs
      BY <1>0, <2>0, <3>1, <3>2, <3>3, <3>4 DEF Does, Changes, Stays, Concluded, Relies, Pcs
    <3> QED BY <3>5, DoingPasses
  <2> QED BY <2>1, <2>2
<1>15. CASE Send(h)
  <2>1. pc[h] = "send" /\ Goto(h, "await") /\ Deliver(h, request(event[h]))
        /\ UNCHANGED <<record, started, discarded, gen>>
    BY <1>15 DEF Send
  <2>2. request(event[h]) \in Requests
    BY DEF request, Requests
  <2>3. ~discarded[g] => started[g] \in Negotiated
    BY <1>b, <2>1 DEF Relies
  <2> QED BY <1>d, <2>1, <2>2, <2>3 DEF Pcs, Relies
<1>16. ASSUME NEW a \in Answer, Returns(h, a) PROVE \E p \in Pcs : Passes(h, p)
  <2>1. same /\ Goto(h, settled(event[h])) /\ settled(event[h]) \in {"done", "unlink_record"}
    BY <1>16 DEF Returns, settled
  <2> QED BY <1>c, <2>1 DEF Pcs, Relies
\* A removed session is seen as discarded.
<1>17. CASE UnlinkRecord(h)
  <2>1. Does(h, "unlink_startup")
    BY <1>0, <1>17 DEF UnlinkRecord, Goto, Does, Stays
  <2> QED BY <2>1, DoingPasses DEF Pcs
<1>18. CASE UnlinkStartup(h)
  <2>1. Does(h, "unlink_lock")
    BY <1>0, <1>18 DEF UnlinkStartup, Goto, Does, Stays, RInv, Inv, Types, RemovalIsSeen
  <2> QED BY <2>1, DoingPasses DEF Pcs
<1>19. CASE UnlinkLock(h)
  BY <1>19, <1>c DEF UnlinkLock, Pcs, Relies
<1> QED BY <1>1, <1>2, <1>3, <1>4, <1>5, <1>6, <1>7, <1>8, <1>9, <1>10, <1>11, <1>12, <1>13,
           <1>14, <1>15, <1>16, <1>17, <1>18, <1>19 DEF Step

-----------------------------------------------------------------------------
(* The refinement. *)

KeptInStep == \A g \in Gens : ~discarded'[g] => Changes(g)

LEMMA RelianceKept ==
  ASSUME RInv, [Next]_vars
  PROVE  Relied' /\ KeptInStep
<1> USE DEF vars, files, KeptInStep
<1>0. /\ pc \in [Hooks -> Pcs] /\ gen \in [Hooks -> Gens] /\ discarded \in [Gens -> BOOLEAN]
  BY DEF RInv, Inv, Types, AdapterTypeOK, Pcs
<1>1. CASE UNCHANGED vars
  BY <1>1 DEF RInv, Relied, Relies, Changes, Stays
<1>2. ASSUME NEW h \in Hooks, NEW e \in Events, Begin(h, e) PROVE Relied' /\ KeptInStep
  <2>1. \E g \in Gens, p \in {"mark", "read_record"} :
          gen' = [gen EXCEPT ![h] = g] /\ pc' = [pc EXCEPT ![h] = p]
    BY <1>2 DEF Begin, Goto
  <2> QED BY <1>0, <1>2, <2>1 DEF Begin, RInv, Relied, Relies, Changes, Stays
<1>3. ASSUME NEW h \in Hooks, Killed(h) PROVE Relied' /\ KeptInStep
  <2>1. Does(h, "dead")
    BY <1>3 DEF Killed, Goto, Does, Changes, Stays, Relies
  <2> QED BY <2>1, DoingPasses, PassingKeeps DEF Pcs, Passes
<1>4. ASSUME NEW h \in Hooks, Step(h) PROVE Relied' /\ KeptInStep
  BY <1>4, StepPasses, PassingKeeps DEF Passes
<1> QED BY <1>1, <1>2, <1>3, <1>4 DEF Next

LEMMA RInvHolds == Spec => []RInv
<1>1. Init => Relied
  BY DEF Init, Relied, Relies
<1>2. RInv /\ [Next]_vars /\ Inv' => RInv'
  BY RelianceKept DEF RInv
<1> QED BY <1>1, <1>2, InvHolds, PTL DEF Spec, RInv

\* The hook processes together keep the promise of each ACS session: one answer,
\* one attempted start, one outcome, and steps only under it (open_session).
THEOREM KeepsTheSessionHolds == Spec => KeepsTheSession
<1>1. Init => \A g \in Gens : ACS(g)!Init
  <2>1. Cardinality(StepsSeen(<< >>)) = 0
    <3>1. StepsSeen(<< >>) = {}
      BY DEF StepsSeen
    <3> QED BY <3>1, FS_EmptySet
  <2> QED BY <2>1 DEF Init, ACS!Init, StepsSeen
<1>2. RInv /\ [Next]_vars => \A g \in Gens : ~discarded'[g] => [ACS(g)!Next]_(ACS(g)!vars)
  BY RelianceKept, ChangesImplement DEF KeptInStep, RInv, Inv, Types
<1> QED BY <1>1, <1>2, RInvHolds, PTL DEF Spec, KeepsTheSession

-----------------------------------------------------------------------------
(* What became of a session's start binds the hooks of the session: what    *)
(* is on record of it, and what a hook that read it may do.                 *)

\* The causes that are counted, or refused to be, before the outcome is written.
Reported == Causes \ {"adapter_exception"}

Reckoned(g) == counted[g] > 0 \/ missed[g]

Uncounted(d) == d \in Negotiated /\ d.start_failure \in Reported

Ledger(g) == ~discarded[g] =>
  /\ started[g] \in Negotiated \cup {SessionRefused, Pending, None}
  /\ started[g] # None => record[g] \in Negotiated
  /\ started[g] = SessionRefused => ~Arrived(g, StepRequests)
  /\ record[g] \in Negotiated => record[g].start_failure = None
  /\ Uncounted(started[g]) => Reckoned(g)

\* A hook sends only what its posture and its profiles let through.
MaySend(e, d) ==
  d \in Negotiated /\ gate(e, d) = None /\ (e.requires => d.accepts)

\* A host proceeds by an answer, or by a posture nobody tightened.
MayProceed(e, d) ==
  \/ d = NoAnswer /\ e.startup
  \/ MaySend(e, d)

Bound(h) ==
  /\ result[h] # None => pc[h] \in {"unlink_record", "unlink_startup", "unlink_lock", "done", "dead"}
  /\ pc[h] \in {"send", "await"} => MaySend(event[h], decision[h])
  /\ result[h] = "proceed" => MayProceed(event[h], decision[h])
  /\ ~discarded[gen[h]] =>
       /\ result[h] = "proceed" => started[gen[h]] \in Negotiated \/ record[gen[h]] = NoAnswer
       /\ pc[h] \in {"startup", "claim", "start", "await_start"} => decision[h].start_failure = None
       /\ pc[h] \in {"outcome", "send"} /\ Uncounted(decision[h]) => Reckoned(gen[h])

BInv == RInv /\ (\A g \in Gens : Ledger(g)) /\ \A h \in Hooks : Bound(h)

\* Until a session's records are removed, its count only grows.
CountsGrow ==
  \A g \in Gens : ~discarded'[g] => counted'[g] >= counted[g] /\ (missed[g] => missed'[g])

LEMMA LedgerKept ==
  ASSUME BInv, KeptInStep, CountsGrow, AdapterTypeOK', NEW g \in Gens, discarded[g] => discarded'[g]
  PROVE  Ledger(g)'
<1> SUFFICES ASSUME ~discarded'[g]
    PROVE  /\ started'[g] \in Negotiated \cup {SessionRefused, Pending, None}
           /\ started'[g] # None => record'[g] \in Negotiated
           /\ started'[g] = SessionRefused => ~Arrived(g, StepRequests)'
           /\ record'[g] \in Negotiated => record'[g].start_failure = None
           /\ Uncounted(started'[g]) => Reckoned(g)'
  BY DEF Ledger, Uncounted
<1>0. /\ ~discarded[g] /\ Ledger(g) /\ Changes(g) /\ ArrivalsKnown(g) /\ RecordsKnown(g)
      /\ Reckoned(g) => Reckoned(g)'
      /\ arrived[g] \in Seq(Requests)
  BY DEF BInv, KeptInStep, CountsGrow, Reckoned, RInv, Inv, SessionInv, Types, AdapterTypeOK
<1>k. Pending \notin Negotiated /\ None \notin Negotiated /\ Pending # SessionRefused
      /\ None # SessionRefused /\ Pending # None /\ NoAnswer \notin Negotiated
  BY DecisionKinds DEF NoAnswer
<1>1. CASE Stays(g) /\ arrived'[g] = arrived[g]
  BY <1>0, <1>1 DEF Ledger, Stays, Arrived
<1>2. CASE Answered(g)
  <2>1. record'[g] \in Negotiated => record'[g].start_failure = None
    BY <1>2, <1>k, ServerHellosAssumption, DecisionKinds DEF Answered
  <2>2. started[g] = None
    BY <1>0, <1>2 DEF Answered, RecordsKnown
  <2> QED BY <1>0, <1>2, <1>k, <2>1, <2>2 DEF Answered, Uncounted
<1>3. CASE Claimed(g)
  BY <1>0, <1>3, <1>k DEF Ledger, Claimed, Uncounted
<1>4. CASE Concluded(g)
  <2>1. PICK h \in Hooks : gen[h] = g /\ pc[h] = "outcome" /\ started'[g] = decision[h]
    BY <1>4 DEF Concluded
  <2>2. Uncounted(decision[h]) => Reckoned(g)
    BY <1>0, <2>1 DEF BInv, Bound
  <2>3. ~Arrived(g, StepRequests)'
    BY <1>0, <1>4 DEF Concluded, ArrivalsKnown, Arrived
  <2> QED BY <1>0, <1>4, <1>k, <2>1, <2>2, <2>3 DEF Ledger, Concluded
<1>5. ASSUME NEW r \in Requests, Received(g, r), r \in StepRequests => started[g] \in Negotiated
      PROVE  started'[g] = SessionRefused => ~Arrived(g, StepRequests)'
  <2>1. started'[g] = SessionRefused => r \notin StepRequests /\ ~Arrived(g, StepRequests)
    BY <1>0, <1>5, DecisionKinds DEF Received, Stays, Ledger, SessionRefused
  <2>2. /\ Len(Append(arrived[g], r)) = Len(arrived[g]) + 1 /\ Len(arrived[g]) \in Nat
        /\ \A i \in 1..Len(arrived[g]) : Append(arrived[g], r)[i] = arrived[g][i]
        /\ Append(arrived[g], r)[Len(arrived[g]) + 1] = r
    BY <1>0
  <2> QED BY <1>5, <2>1, <2>2 DEF Received, Arrived
<1>6. ASSUME NEW r \in Requests, Received(g, r), r \in StepRequests => started[g] \in Negotiated
      PROVE  /\ started'[g] \in Negotiated \cup {SessionRefused, Pending, None}
             /\ started'[g] # None => record'[g] \in Negotiated
             /\ record'[g] \in Negotiated => record'[g].start_failure = None
             /\ Uncounted(started'[g]) => Reckoned(g)'
  BY <1>0, <1>6 DEF Received, Stays, Ledger
<1> QED BY <1>0, <1>1, <1>2, <1>3, <1>4, <1>5, <1>6 DEF Changes

\* Where Follow takes a hook that has no result yet, and on what terms.
LEMMA FollowTerms ==
  ASSUME AdapterTypeOK, NEW h \in Hooks, event[h] \in Event, NEW d \in Decision, Follow(h, d)
  PROVE  \/ /\ pc'[h] = "send" /\ result' = result /\ decision'[h] = d /\ MaySend(event[h], d)
         \/ /\ pc'[h] \in {"unlink_record", "done"} /\ result'[h] = "blocked"
         \/ /\ pc'[h] \in {"unlink_record", "done"} /\ decision'[h] = d /\ MayProceed(event[h], d)
<1> DEFINE own == required_profiles(event[h], d)
           gated == gate(event[h], own)
<1> HIDE DEF own, gated
<1>0. /\ pc \in [Hooks -> Pcs] /\ decision \in [Hooks -> Decision \cup {None}]
      /\ result \in [Hooks -> {"proceed", "blocked", None}]
  BY DEF AdapterTypeOK, Pcs
<1>1. /\ own \in Decision /\ own.kind \in {"negotiated", "refused", "no_answer"}
      /\ own.kind # "refused" => own = d /\ (d \in Negotiated /\ event[h].requires => d.accepts)
  BY DecisionKinds DEF own, required_profiles, SessionRefused
<1>2. /\ gated = None => MaySend(event[h], own) /\ own = d
      /\ gated = "proceed" => own = NoAnswer /\ event[h].startup /\ own = d
      /\ gated \in {None, "proceed", "blocked"}
  <2>1. CASE own.kind = "negotiated"
    <3>1. own \in Negotiated /\ own = d /\ (event[h].requires => d.accepts)
      BY <1>1, <2>1, DecisionKinds
    <3>2. gated \in {None, "blocked"}
      BY <2>1 DEF gated, gate
    <3> QED BY <3>1, <3>2, NoneAssumption DEF gated, MaySend
  <2>2. CASE own.kind = "refused"
    BY <2>2, NoneAssumption DEF gated, gate
  <2>3. CASE own.kind = "no_answer"
    <3>1. own = NoAnswer
      BY <1>1, <2>3, DecisionKinds DEF Decision, SessionRefused
    <3>2. gated = IF event[h].startup THEN "proceed" ELSE "blocked"
      BY <2>3 DEF gated, gate
    <3> QED BY <1>1, <2>3, <3>1, <3>2, NoneAssumption
  <2> QED BY <1>1, <2>1, <2>2, <2>3
<1>3. settled(event[h]) \in {"unlink_record", "done"}
  BY DEF settled
<1>4. decision'[h] = own
  BY <1>0 DEF Follow, own
<1>5. CASE gated = None /\ event[h].hook # "SessionStart"
  <2>1. pc'[h] = "send" /\ result' = result
    BY <1>0, <1>5 DEF Follow, own, gated
  <2> QED BY <1>2, <1>4, <1>5, <2>1
<1>6. CASE ~(gated = None /\ event[h].hook # "SessionStart")
  <2>1. pc'[h] = settled(event[h]) /\ result'[h] = IF gated = None THEN "proceed" ELSE gated
    BY <1>0, <1>6 DEF Follow, own, gated
  <2> QED BY <1>2, <1>3, <1>4, <2>1 DEF MayProceed
<1> QED BY <1>5, <1>6

\* A hook that only moves on stays bound, and so does one that another hook's step
\* leaves where it is.
LEMMA MovingStaysBound ==
  ASSUME BInv, KeptInStep, CountsGrow, AdapterTypeOK', NEW q \in Hooks,
         decision'[q] = decision[q], result'[q] = result[q],
         event'[q] = event[q], gen'[q] = gen[q], discarded[gen[q]] => discarded'[gen[q]],
         result[q] # None => pc'[q] \in {"unlink_record", "unlink_startup", "unlink_lock", "done", "dead"},
         pc'[q] \in {"send", "await"} => pc[q] \in {"send", "await"},
         pc'[q] \in {"startup", "claim", "start", "await_start"} =>
           pc[q] \in {"startup", "claim", "start", "await_start"},
         pc'[q] \in {"outcome", "send"} => pc[q] \in {"outcome", "send"}
  PROVE  Bound(q)'
<1>0. Bound(q) /\ gen[q] \in Gens
  BY DEF BInv, RInv, Inv, Types, AdapterTypeOK
<1>1. ASSUME ~discarded'[gen[q]]
      PROVE  /\ started[gen[q]] \in Negotiated => started'[gen[q]] \in Negotiated
             /\ record[gen[q]] = NoAnswer => record'[gen[q]] = NoAnswer
             /\ Reckoned(gen[q]) => Reckoned(gen[q])'
  <2>1. Changes(gen[q]) /\ (Reckoned(gen[q]) => Reckoned(gen[q])')
    BY <1>0, <1>1 DEF KeptInStep, CountsGrow, Reckoned, BInv, RInv, Inv, Types, AdapterTypeOK
  <2> QED BY <2>1, DecisionKinds DEF Changes, Stays, Answered, Claimed, Concluded, Received
<1> QED BY <1>0, <1>1 DEF Bound, MaySend, MayProceed, Uncounted

\* A hook that leaves open_session with d is bound by it, if d is what is on record.
LEMMA FollowingBinds ==
  ASSUME AdapterTypeOK, AdapterTypeOK', NEW h \in Hooks, event[h] \in Event, NEW d \in Decision,
         Follow(h, d), result[h] = None, UNCHANGED <<event, gen>>,
         ~discarded'[gen[h]] /\ d \in Negotiated =>
           started'[gen[h]] \in Negotiated /\ (Uncounted(d) => Reckoned(gen[h])'),
         ~discarded'[gen[h]] /\ d = NoAnswer => record'[gen[h]] = NoAnswer
  PROVE  Bound(h)'
<1>0. d = NoAnswer \/ MaySend(event[h], d) => d = NoAnswer \/ d \in Negotiated
  BY DEF MaySend
<1>1. CASE pc'[h] = "send" /\ result' = result /\ decision'[h] = d /\ MaySend(event[h], d)
  BY <1>0, <1>1, NoneAssumption DEF Bound, MaySend
<1>2. CASE pc'[h] \in {"unlink_record", "done"} /\ result'[h] = "blocked"
  BY <1>2 DEF Bound
<1>3. CASE pc'[h] \in {"unlink_record", "done"} /\ decision'[h] = d /\ MayProceed(event[h], d)
  BY <1>0, <1>3 DEF Bound, MayProceed, MaySend
<1> QED BY <1>1, <1>2, <1>3, FollowTerms

\* So is a hook that goes on under the lock.
LEMMA DecidingBinds ==
  ASSUME AdapterTypeOK, AdapterTypeOK', NEW h \in Hooks, event[h] \in Event, NEW d \in Decision,
         Decided(h, d), result[h] = None, UNCHANGED <<event, gen>>, Ledger(gen[h])',
         ~discarded'[gen[h]] => record'[gen[h]] = d
  PROVE  Bound(h)'
<1>0. /\ pc \in [Hooks -> Pcs] /\ decision \in [Hooks -> Decision \cup {None}] /\ gen' = gen
      /\ result \in [Hooks -> {"proceed", "blocked", None}]
  BY DEF AdapterTypeOK, Pcs
<1>1. CASE required_profiles(event[h], d).kind = "negotiated"
  <2>1. decision'[h] = d /\ pc'[h] = "startup" /\ result'[h] = None
    BY <1>0, <1>1 DEF Decided, Goto
  <2>2. d \in Negotiated
    BY <1>1, DecisionKinds DEF required_profiles, SessionRefused
  <2>3. ~discarded'[gen[h]] => d.start_failure = None
    BY <1>0, <2>2 DEF Ledger
  <2> QED BY <1>0, <2>1, <2>3, NoneAssumption DEF Bound
<1>2. CASE required_profiles(event[h], d).kind # "negotiated"
  <2>1. Follow(h, d) /\ decision'[h].kind # "negotiated"
    BY <1>0, <1>2 DEF Decided, Follow
  <2>2. \/ pc'[h] \in {"unlink_record", "done"} /\ result'[h] = "blocked"
        \/ pc'[h] \in {"unlink_record", "done"} /\ decision'[h] = NoAnswer /\ d = NoAnswer /\ event[h].startup
    BY <2>1, FollowTerms, DecisionKinds DEF MaySend, MayProceed
  <2> QED BY <1>0, <2>2 DEF Bound, MayProceed
<1> QED BY <1>1, <1>2

\* The count of a session goes down only once the session is discarded.
LEMMA StepCounts ==
  ASSUME Types, NEW h \in Hooks, Step(h)
  PROVE  CountsGrow /\ \A g \in Gens : discarded[g] => discarded'[g]
<1> USE DEF files
<1>0. /\ counted \in [Gens -> Nat] /\ discarded \in [Gens -> BOOLEAN]
      /\ missed \in [Gens -> BOOLEAN] /\ gen[h] \in Gens
      /\ pc[h] = "unlink_lock" => discarded[gen[h]]
  BY DEF Types, AdapterTypeOK, RemovalIsSeen
<1>1. CASE UnlinkLock(h)
  BY <1>0, <1>1 DEF UnlinkLock, CountsGrow
<1>2. CASE UnlinkRecord(h)
  BY <1>0, <1>2 DEF UnlinkRecord, CountsGrow
<1>3. CASE ~UnlinkLock(h) /\ ~UnlinkRecord(h)
  <2>1. UNCHANGED discarded /\ (Count(h) \/ UNCHANGED <<counted, missed>>)
    BY <1>3 DEF Step, MarkEnded, ReadRecord, ReadStartup, OpenLock, Flock, Decide, Hello, HelloReturns,
       Startup, Claim, SendSessionStart, StartRaises, StartReturns, RecordOutcome, Send, Returns,
       UnlinkStartup
  <2> QED BY <1>0, <2>1, CountEffect DEF CountsGrow
<1> QED BY <1>1, <1>2, <1>3

LEMMA StepBinds ==
  ASSUME BInv, NEW h \in Hooks, Step(h), KeptInStep, CountsGrow, Types', \A g \in Gens : Ledger(g)',
         \A g \in Gens : discarded[g] => discarded'[g]
  PROVE  Bound(h)'
<1> DEFINE g == gen[h]
<1> USE DEF files
<1>0. /\ AdapterTypeOK /\ AdapterTypeOK' /\ g \in Gens /\ Bound(h) /\ Ledger(g) /\ Ledger(g)'
      /\ pc \in [Hooks -> Pcs] /\ decision \in [Hooks -> Decision \cup {None}]
      /\ result \in [Hooks -> {"proceed", "blocked", None}]
      /\ record \in [Gens -> Decision \cup {None}]
      /\ started \in [Gens -> Decision \cup {Pending, None}]
      /\ counted \in [Gens -> Nat] /\ missed \in [Gens -> BOOLEAN] /\ (discarded[g] => discarded'[g])
  BY DEF BInv, RInv, Inv, Types, AdapterTypeOK, Pcs
<1>a. event[h] \in Event /\ Held(pc[h], decision[h])
  BY <1>0 DEF BInv, RInv, Inv, Types, Step, DecisionsHeld, MarkEnded, ReadRecord, ReadStartup, OpenLock,
     Flock, Decide, Hello, HelloReturns, Startup, Claim, SendSessionStart, StartRaises, StartReturns,
     RecordOutcome, Send, Returns, UnlinkRecord, UnlinkStartup, UnlinkLock
<1>b. UNCHANGED <<event, gen>>
  BY OneHookMoves DEF Turns, BInv, RInv, Inv
<1>n. pc[h] \notin {"unlink_record", "unlink_startup", "unlink_lock", "done", "dead"} => result[h] = None
  BY <1>0 DEF Bound
\* A plain move.
<1>m. ASSUME NEW p \in Pcs, Goto(h, p), UNCHANGED <<decision, result>>,
             result[h] # None => p \in {"unlink_record", "unlink_startup", "unlink_lock", "done", "dead"},
             p \in {"send", "await"} => pc[h] \in {"send", "await"},
             p \in {"startup", "claim", "start", "await_start"} =>
               pc[h] \in {"startup", "claim", "start", "await_start"},
             p \in {"outcome", "send"} => pc[h] \in {"outcome", "send"}
      PROVE  Bound(h)'
  <2>1. pc'[h] = p
    BY <1>0, <1>m DEF Goto
  <2> QED BY <1>0, <1>b, <1>m, <2>1, MovingStaysBound
\* The decision that ends open_session for this hook alone.
<1>r. ASSUME Follow(h, SessionRefused), result[h] = None PROVE Bound(h)'
  BY <1>0, <1>a, <1>b, <1>r, DecisionKinds, FollowingBinds DEF SessionRefused, NoAnswer
<1>s. ASSUME NEW d \in ServerHellos \cup {NoAnswer}, store_first(h, d), result[h] = None PROVE Bound(h)'
  <2>1. CASE Follow(h, SessionRefused)
    BY <1>r, <1>s, <2>1
  <2>2. CASE ~Follow(h, SessionRefused)
    <3>1. PICK first \in Decision : record' = [record EXCEPT ![g] = first] /\ Decided(h, first)
      BY <1>0, <1>s, <2>2, DecisionKinds DEF store_first
    <3> QED BY <1>0, <1>a, <1>b, <1>s, <3>1, DecidingBinds
  <2> QED BY <2>1, <2>2
<1>1. CASE MarkEnded(h)
  <2>1. pc[h] = "mark" /\ UNCHANGED <<decision, result>> /\ \E p \in {"read_record", "done"} : Goto(h, p)
    BY <1>1 DEF MarkEnded, Succeeds
  <2> QED BY <1>m, <1>n, <2>1 DEF Pcs
<1>2. CASE ReadRecord(h)
  <2>1. CASE record[g] = None \/ record[g].kind = "negotiated"
    <3>1. /\ pc[h] = "read_record" /\ UNCHANGED <<decision, result>>
          /\ \E p \in {"open_lock", "read_startup"} : Goto(h, p)
      BY <1>2, <2>1 DEF ReadRecord
    <3> QED BY <1>m, <1>n, <3>1 DEF Pcs
  <2>2. CASE ~(record[g] = None \/ record[g].kind = "negotiated")
    <3>1. record[g] \in Decision \ Negotiated
      BY <1>0, <2>2, DecisionKinds
    <3>2. Follow(h, record[g]) /\ pc[h] = "read_record" /\ UNCHANGED record
      BY <1>2, <2>2 DEF ReadRecord
    <3> QED BY <1>0, <1>a, <1>b, <1>n, <3>1, <3>2, FollowingBinds
  <2> QED BY <2>1, <2>2
\* An outcome that is on record.
<1>o. ASSUME started[g] \notin {None, Pending}, Follow(h, started[g]), result[h] = None,
             UNCHANGED <<started, record, counted, missed>>
      PROVE  Bound(h)'
  <2>1. started[g] \in Decision /\ (~discarded'[g] => started[g] \in Negotiated \cup {SessionRefused})
    BY <1>0, <1>o DEF Ledger
  <2>2. ~discarded'[g] /\ Uncounted(started[g]) => Reckoned(g)'
    BY <1>0, <1>b, <1>o DEF Ledger, Reckoned
  <2>3. ~discarded'[g] => started[g] # NoAnswer
    BY <2>1, DecisionKinds DEF SessionRefused, NoAnswer
  <2> QED BY <1>0, <1>a, <1>b, <1>o, <2>1, <2>2, <2>3, FollowingBinds
<1>3. CASE ReadStartup(h)
  <2>1. pc[h] = "read_startup" /\ UNCHANGED <<started, record, counted, missed>>
    BY <1>3 DEF ReadStartup
  <2>2. CASE started[g] \in {None, Pending}
    <3>1. Goto(h, "open_lock") /\ UNCHANGED <<decision, result>>
      BY <1>3, <2>2 DEF ReadStartup
    <3> QED BY <1>m, <1>n, <2>1, <3>1 DEF Pcs
  <2>3. CASE started[g] \notin {None, Pending}
    BY <1>3, <1>n, <1>o, <2>1, <2>3 DEF ReadStartup
  <2> QED BY <2>2, <2>3
<1>4. CASE OpenLock(h)
  <2>1. pc[h] = "open_lock" /\ (Follow(h, SessionRefused) \/ (Goto(h, "flock") /\ UNCHANGED <<decision, result>>))
    BY <1>4 DEF OpenLock
  <2> QED BY <1>m, <1>n, <1>r, <2>1 DEF Pcs
<1>5. CASE Flock(h)
  <2>1. pc[h] = "flock" /\ Goto(h, "decide") /\ UNCHANGED <<decision, result>>
    BY <1>5 DEF Flock
  <2> QED BY <1>m, <1>n, <2>1 DEF Pcs, Critical
<1>6. CASE Decide(h)
  <2>0. pc[h] = "decide" /\ result[h] = None
    BY <1>6, <1>n DEF Decide
  <2>1. CASE record[g] # None /\ Decided(h, record[g]) /\ UNCHANGED record
    BY <1>0, <1>a, <1>b, <2>0, <2>1, DecidingBinds
  <2>2. CASE store_first(h, NoAnswer)
    BY <1>s, <2>0, <2>2
  <2>3. CASE Goto(h, "hello") /\ UNCHANGED <<decision, result>>
    BY <1>m, <2>0, <2>3 DEF Pcs, Critical
  <2> QED BY <1>6, <2>1, <2>2, <2>3 DEF Decide
<1>7. CASE Hello(h) \/ SendSessionStart(h) \/ Send(h)
  <2>1. /\ UNCHANGED <<decision, result>>
        /\ \/ pc[h] = "hello" /\ Goto(h, "await_hello")
           \/ pc[h] = "start" /\ Goto(h, "await_start")
           \/ pc[h] = "send" /\ Goto(h, "await")
    BY <1>7 DEF Hello, SendSessionStart, Send
  <2> QED BY <1>m, <1>n, <2>1 DEF Pcs, Critical
<1>8. ASSUME NEW d \in ServerHellos, HelloReturns(h, d) PROVE Bound(h)'
  BY <1>8, <1>n, <1>s DEF HelloReturns
\* A failed start is counted before it is followed.
<1>d. ASSUME NEW d \in Decision, decision'[h] = d, pc'[h] = "outcome", result'[h] = None,
             ~discarded'[g] /\ Uncounted(d) => Reckoned(g)'
      PROVE  Bound(h)'
  BY <1>b, <1>d, NoneAssumption DEF Bound
<1>9. CASE Startup(h)
  <2>0. pc[h] = "startup" /\ result[h] = None /\ UNCHANGED <<record, started>> /\ decision[h] \in Negotiated
    BY <1>9, <1>a, <1>n DEF Startup, Held
  <2>1. CASE started[g] = None
    <3>1. Goto(h, "claim") /\ UNCHANGED <<decision, result>>
      BY <1>9, <2>1, DecisionKinds DEF Startup
    <3> QED BY <1>m, <2>0, <3>1 DEF Pcs, Critical
  <2>2. CASE started[g] = Pending
    <3>1. /\ decision' = [decision EXCEPT ![h] = StartFailed(@, "session_start_incomplete")]
          /\ Count(h) /\ Goto(h, "outcome") /\ UNCHANGED result
      BY <1>9, <2>2, DecisionKinds DEF Startup
    <3>2. StartFailed(decision[h], "session_start_incomplete") \in Decision
      BY <2>0, StartFailedTypes, DecisionKinds DEF Causes
    <3>3. /\ pc'[h] = "outcome" /\ result'[h] = None
          /\ decision'[h] = StartFailed(decision[h], "session_start_incomplete")
      BY <1>0, <2>0, <3>1 DEF Goto
    <3>4. Reckoned(g)'
      BY <1>0, <1>9, <3>1, CountEffect DEF Startup, Holds, Critical, Reckoned
    <3> QED BY <1>d, <3>2, <3>3, <3>4
  <2>3. CASE started[g] \notin {None, Pending}
    BY <1>9, <1>o, <2>0, <2>3 DEF Startup
  <2> QED BY <2>1, <2>2, <2>3
<1>10. CASE Claim(h)
  <2>0. pc[h] = "claim" /\ result[h] = None /\ decision[h] \in Negotiated /\ decision[h] \in Decision
    BY <1>10, <1>a, <1>n, DecisionKinds DEF Claim, Held
  <2>1. \/ Follow(h, SessionRefused)
        \/ UNCHANGED <<decision, result>> /\ (Goto(h, "start") \/ Goto(h, "outcome"))
    BY <1>10 DEF Claim
  <2>2. CASE Goto(h, "outcome") /\ UNCHANGED <<decision, result>>
    <3>1. ~discarded'[g] => ~Uncounted(decision[h])
      BY <1>0, <2>0, NoneAssumption DEF Bound, Uncounted, Reported
    <3> QED BY <1>0, <1>d, <2>0, <2>2, <3>1 DEF Goto
  <2>3. CASE Goto(h, "start") /\ UNCHANGED <<decision, result>>
    BY <1>m, <2>0, <2>3 DEF Pcs, Critical
  <2> QED BY <1>r, <2>0, <2>1, <2>2, <2>3
<1>11. CASE StartRaises(h)
  <2>0. pc[h] = "start" /\ result[h] = None /\ decision[h] \in Negotiated
    BY <1>11, <1>a, <1>n DEF StartRaises, Held
  <2>1. StartFailed(decision[h], "adapter_exception") \in Decision
    BY <2>0, StartFailedTypes, DecisionKinds DEF Causes
  <2>2. ~Uncounted(StartFailed(decision[h], "adapter_exception"))
    BY <2>0 DEF StartFailed, Uncounted, Reported, Negotiated
  <2>3. /\ decision'[h] = StartFailed(decision[h], "adapter_exception")
        /\ pc'[h] = "outcome" /\ result'[h] = None
    BY <1>0, <1>11, <2>0 DEF StartRaises, Goto
  <2> QED BY <1>d, <2>1, <2>2, <2>3
<1>12. ASSUME NEW a \in Answer, StartReturns(h, a) PROVE Bound(h)'
  <2>0. pc[h] = "await_start" /\ result[h] = None /\ decision[h] \in Negotiated
    BY <1>12, <1>a, <1>n DEF StartReturns, Held
  <2>1. pc'[h] = "outcome" /\ result'[h] = None
    BY <1>0, <1>12, <2>0 DEF StartReturns, Goto
  <2>2. CASE a = "allow"
    <3>1. decision'[h] = decision[h]
      BY <1>0, <1>12, <2>2 DEF StartReturns
    <3>2. ~discarded'[g] => ~Uncounted(decision[h])
      BY <1>0, <2>0, NoneAssumption DEF Bound, Uncounted, Reported
    <3> QED BY <1>d, <2>0, <2>1, <3>1, <3>2, DecisionKinds
  <2>3. CASE a \in {"deny", "refusal"}
    <3>1. decision'[h] = SessionRefused
      BY <1>0, <1>12, <2>3 DEF StartReturns
    <3> QED BY <1>d, <2>1, <3>1, DecisionKinds DEF Uncounted, SessionRefused
  <2>4. CASE a = "failure"
    <3>1. decision'[h] = StartFailed(decision[h], "undecided") /\ Count(h)
      BY <1>0, <1>12, <2>4 DEF StartReturns
    <3>2. StartFailed(decision[h], "undecided") \in Decision
      BY <2>0, StartFailedTypes, DecisionKinds DEF Causes
    <3>3. Reckoned(g)'
      BY <1>0, <1>12, <3>1, CountEffect DEF StartReturns, Holds, Critical, Reckoned
    <3> QED BY <1>d, <2>1, <3>1, <3>2, <3>3
  <2> QED BY <2>2, <2>3, <2>4 DEF Answer
<1>13. CASE RecordOutcome(h)
  <2>0. /\ pc[h] = "outcome" /\ result[h] = None /\ UNCHANGED <<counted, missed, record>>
        /\ decision[h] \in Negotiated \cup {SessionRefused} /\ decision[h] \in Decision
    BY <1>13, <1>a, <1>n, DecisionKinds DEF RecordOutcome, Held
  <2>1. CASE Follow(h, SessionRefused)
    BY <1>r, <2>0, <2>1
  <2>2. CASE ~Follow(h, SessionRefused)
    <3>1. Follow(h, decision[h]) /\ started' = [started EXCEPT ![g] = decision[h]]
      BY <1>13, <2>2 DEF RecordOutcome
    <3>2. ~discarded'[g] /\ Uncounted(decision[h]) => Reckoned(g)'
      BY <1>0, <1>b, <2>0 DEF Bound, Reckoned
    <3>3. decision[h] # NoAnswer
      BY <2>0, DecisionKinds DEF SessionRefused, NoAnswer
    <3> QED BY <1>0, <1>a, <1>b, <2>0, <3>1, <3>2, <3>3, FollowingBinds
  <2> QED BY <2>1, <2>2
<1>14. ASSUME NEW a \in Answer, Returns(h, a) PROVE Bound(h)'
  <2>0. pc[h] = "await" /\ MaySend(event[h], decision[h]) /\ UNCHANGED <<decision, started>>
    BY <1>0, <1>14 DEF Returns, Bound
  <2>1. pc'[h] \in {"done", "unlink_record"}
    BY <1>0, <1>14 DEF Returns, Goto, settled
  <2>2. ~discarded'[g] => started[g] \in Negotiated
    BY <1>0, <2>0 DEF BInv, RInv, Relied, Relies
  <2> QED BY <1>b, <2>0, <2>1, <2>2 DEF Bound, MayProceed
<1>15. CASE UnlinkRecord(h) \/ UnlinkStartup(h) \/ UnlinkLock(h)
  <2>1. UNCHANGED <<decision, result>> /\ \E p \in {"unlink_startup", "unlink_lock", "done"} : Goto(h, p)
    BY <1>15 DEF UnlinkRecord, UnlinkStartup, UnlinkLock
  <2> QED BY <1>m, <2>1 DEF Pcs
<1> QED BY <1>1, <1>2, <1>3, <1>4, <1>5, <1>6, <1>7, <1>8, <1>9, <1>10, <1>11, <1>12, <1>13, <1>14,
           <1>15 DEF Step

LEMMA BindingKept == BInv /\ [Next]_vars /\ RInv' => BInv'
<1> SUFFICES ASSUME BInv, [Next]_vars, RInv'
    PROVE (\A g \in Gens : Ledger(g)') /\ \A q \in Hooks : Bound(q)'
  BY DEF BInv
<1> USE DEF vars, files
<1>0. /\ pc \in [Hooks -> Pcs] /\ gen \in [Hooks -> Gens] /\ AdapterTypeOK /\ AdapterTypeOK' /\ Types'
      /\ decision \in [Hooks -> Decision \cup {None}]
      /\ result \in [Hooks -> {"proceed", "blocked", None}] /\ counted \in [Gens -> Nat]
  BY DEF BInv, RInv, Inv, Types, AdapterTypeOK, Pcs
<1>k. KeptInStep
  BY RelianceKept DEF BInv
\* The hooks whose step it is not.
<1>o. ASSUME CountsGrow, \A g \in Gens : discarded[g] => discarded'[g], NEW q \in Hooks,
             pc'[q] = pc[q], decision'[q] = decision[q], result'[q] = result[q],
             event'[q] = event[q], gen'[q] = gen[q]
      PROVE  Bound(q)'
  BY <1>0, <1>k, <1>o, MovingStaysBound DEF BInv, Bound
<1>1. CASE UNCHANGED vars
  BY <1>1 DEF BInv, Ledger, Uncounted, Reckoned, Arrived, Bound, MaySend, MayProceed
<1>2. ASSUME NEW h \in Hooks, (\E e \in Events : Begin(h, e)) \/ Killed(h)
      PROVE (\A g \in Gens : Ledger(g)') /\ \A q \in Hooks : Bound(q)'
  <2>1. UNCHANGED <<files, arrived, decision, result>>
    BY <1>2 DEF Begin, Killed
  <2>2. \A g \in Gens : Ledger(g)'
    BY <2>1 DEF BInv, Ledger, Uncounted, Reckoned, Arrived
  <2>3. CountsGrow /\ \A g \in Gens : discarded[g] => discarded'[g]
    BY <1>0, <2>1 DEF CountsGrow
  <2>4. ASSUME NEW q \in Hooks, q # h PROVE Bound(q)'
    <3>1. pc'[q] = pc[q] /\ event'[q] = event[q] /\ gen'[q] = gen[q]
      BY <1>0, <1>2, <2>4 DEF Begin, Killed, Goto, AdapterTypeOK
    <3> QED BY <1>o, <2>1, <2>3, <3>1
  <2>5. CASE Killed(h)
    <3>1. pc'[h] = "dead" /\ event' = event /\ gen' = gen
      BY <1>0, <2>5 DEF Killed, Goto
    <3> QED BY <1>0, <1>k, <2>1, <2>2, <2>3, <2>4, <3>1, MovingStaysBound
  <2>6. CASE \E e \in Events : Begin(h, e)
    <3>1. pc[h] = "idle" /\ pc'[h] \in {"mark", "read_record"}
      BY <1>0, <2>6 DEF Begin, Goto
    <3>2. result[h] = None
      BY <3>1 DEF BInv, Bound
    <3>3. Bound(h)'
      BY <2>1, <3>1, <3>2, NoneAssumption DEF Bound
    <3> QED BY <2>2, <2>4, <3>3
  <2> QED BY <1>2, <2>5, <2>6
<1>3. ASSUME NEW h \in Hooks, Step(h)
      PROVE (\A g \in Gens : Ledger(g)') /\ \A q \in Hooks : Bound(q)'
  <2>1. CountsGrow /\ \A g \in Gens : discarded[g] => discarded'[g]
    BY <1>3, StepCounts DEF BInv, RInv, Inv
  <2>2. \A g \in Gens : Ledger(g)'
    BY <1>0, <1>k, <2>1, LedgerKept
  <2>3. Bound(h)'
    BY <1>0, <1>3, <1>k, <2>1, <2>2, StepBinds
  <2>4. ASSUME NEW q \in Hooks, q # h PROVE Bound(q)'
    <3>1. /\ pc'[q] = pc[q] /\ decision'[q] = decision[q] /\ result'[q] = result[q]
          /\ event'[q] = event[q] /\ gen'[q] = gen[q]
      BY <1>0, <1>3, <2>4, OneHookMoves DEF Turns, BInv, RInv, Inv
    <3> QED BY <1>o, <2>1, <3>1
  <2> QED BY <2>2, <2>3, <2>4
<1> QED BY <1>1, <1>2, <1>3 DEF Next

LEMMA BInvHolds == Spec => []BInv
<1>1. Init /\ RInv => BInv
  <2>1. Init => \A g \in Gens : Ledger(g)
    BY DecisionKinds DEF Init, Ledger, Uncounted, SessionRefused
  <2>2. Init => \A h \in Hooks : Bound(h)
    BY NoneAssumption DEF Init, Bound
  <2> QED BY <2>1, <2>2 DEF BInv
<1> QED BY <1>1, BindingKept, RInvHolds, PTL DEF Spec

\* What became of a session's start binds its later hooks: after a refused one no
\* step is sent and nobody proceeds (open_session), and a hook whose posture denies
\* on failure proceeds only in a session it may use (Config.gate).
THEOREM StartOutcomeBindsHolds == Spec => []StartOutcomeBinds
<1>1. ASSUME BInv PROVE RefusedStartHolds
  <2> SUFFICES ASSUME NEW g \in Gens, ~discarded[g], started[g] = SessionRefused
      PROVE  /\ \A i \in 1..Len(arrived[g]) : arrived[g][i] \in {"handshake/hello", "steps/sessionStart"}
             /\ \A h \in Hooks : event[h] # None /\ gen[h] = g => result[h] # "proceed"
    BY DEF RefusedStartHolds
  <2>1. /\ ~Arrived(g, StepRequests) /\ record[g] \in Negotiated /\ arrived[g] \in Seq(Requests)
    BY <1>1, DecisionKinds DEF BInv, Ledger, RInv, Inv, Types, AdapterTypeOK
  <2>2. \A i \in 1..Len(arrived[g]) : arrived[g][i] \in Requests \ StepRequests
    BY <2>1 DEF Arrived
  <2>3. started[g] \notin Negotiated /\ record[g] # NoAnswer
    BY <2>1, DecisionKinds DEF SessionRefused, NoAnswer
  <2>4. \A h \in Hooks : gen[h] = g => result[h] # "proceed"
    BY <1>1, <2>3 DEF BInv, Bound
  <2> QED BY <2>2, <2>4 DEF Requests, StepRequests
<1>2. ASSUME BInv PROVE DenyPostureHolds
  <2> SUFFICES ASSUME NEW h \in Hooks, result[h] = "proceed", event[h].hook = "step"
      PROVE  /\ decision[h] # SessionRefused
             /\ decision[h] = NoAnswer => event[h].startup
             /\ decision[h].kind = "negotiated" /\ decision[h].start_failure # None
                  => ~denies(event[h], decision[h])
             /\ decision[h].kind = "negotiated" /\ event[h].requires => decision[h].accepts
    BY DEF DenyPostureHolds
  <2>1. MayProceed(event[h], decision[h])
    BY <1>2 DEF BInv, Bound
  <2>2. CASE decision[h] = NoAnswer /\ event[h].startup
    BY <2>2, DecisionKinds DEF NoAnswer, SessionRefused
  <2>3. CASE MaySend(event[h], decision[h])
    <3>1. decision[h] \in Negotiated /\ decision[h].kind = "negotiated"
      BY <2>3, DecisionKinds DEF MaySend
    <3>2. decision[h] # SessionRefused /\ decision[h] # NoAnswer
      BY <3>1 DEF SessionRefused, NoAnswer
    <3> QED BY <2>3, <3>1, <3>2, NoneAssumption DEF MaySend, gate
  <2> QED BY <2>1, <2>2, <2>3 DEF MayProceed
<1> QED BY <1>1, <1>2, BInvHolds, PTL DEF StartOutcomeBinds

\* A failed sessionStart is in the count that the session's sessionEnd reports,
\* unless the file system refused to count it (session_start_outcome counts
\* before the outcome is written, count_decision_failure swallows an OSError).
THEOREM StartFailureCountedHolds == Spec => []StartFailureCounted
<1>1. BInv => StartFailureCounted
  BY DEF BInv, Bound, MaySend, Uncounted, Reckoned, Reported, StartFailureCounted
<1> QED BY <1>1, BInvHolds, PTL
=============================================================================
