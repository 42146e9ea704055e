------------------------- MODULE GovernedCall_proofs -------------------------
(***************************************************************************)
(* Proofs about GovernedCall: where each call is and what has become of it, *)
(* which ids its messages carry, and what rendering a decision through a    *)
(* hookmap the host's gate let load comes to.                               *)
(***************************************************************************)
EXTENDS GovernedCall, SequenceTheorems, FiniteSetTheorems, NaturalsInduction, WellFoundedInduction, TLAPS

------------------------------------------------------------------------------
(* The parts of the inductive invariant. *)

\* What a behaviour began with is a deployment whose host's gate let it load.
Deployed == \E d \in Hookmaps : accepts(d) /\ host = d.host /\ hooks = d.hooks

Shapes ==
  /\ DOMAIN at = Calls /\ DOMAIN live = Calls /\ DOMAIN envelope = Calls /\ DOMAIN outcome = Calls
  /\ \A c \in Calls : DOMAIN outcome[c] = Gates

\* A step at the result gate is one of a call that ran: a repeat, which takes
\* back a request that was refused, takes back nothing that has a result.
ResultsFollowRuns ==
  \A c \in Calls :
    (at[c] \in {"ran", "judging"} \/ outcome[c].result # undecided) =>
      outcome[c].request.effect.kind \in {"ran", "ungoverned"}

TypeInv == Deployed /\ Shapes /\ CallTypeOK /\ ResultsFollowRuns

(* What can become of a call at a gate. *)

kinds == {"refused", "ran", "ungoverned"}

LEMMA ActsKind ==
  ASSUME NEW output, NEW gate, NEW payload
  PROVE  acts(output, gate, payload).kind \in {"refused", "ran"}
<1> DEFINE out == asClaudeCodeOutput(output, gate)
<1>1. applyOpenCodeOutput(output, gate, payload).kind \in {"refused", "ran"}
  <2> DEFINE doc == mergeInPlace(resolve(payload, <<IF gate = "request" THEN "args" ELSE "result">>),
                                 resolve(output, <<IF gate = "request" THEN "args" ELSE "result">>))
  <2>1. applyOpenCodeOutput(output, gate, payload) \in {refused, ran(doc)}
    BY DEF applyOpenCodeOutput
  <2> HIDE DEF doc
  <2> QED BY <2>1 DEF refused, ran
<1>2. claudeCodeReads(output, gate, payload).kind \in {"refused", "ran"}
  <2>1. \E doc : claudeCodeReads(output, gate, payload) \in {refused, ran(doc)}
    BY DEF claudeCodeReads
  <2> QED BY <2>1 DEF refused, ran
<1>3. refused.kind = "refused"
  BY DEF refused
<1> QED BY <1>1, <1>2, <1>3 DEF acts

\* What ended leaves: the call's outcome at this gate, and where the call is.
LEMMA EndedLeaves ==
  ASSUME TypeInv, NEW c \in Calls, NEW decision, NEW stage, NEW effect, NEW asked,
         stage # "undecided", effect.kind \in kinds, at[c] # "done",
         gateAt(c) = "result" => outcome[c].request.effect.kind \in {"ran", "ungoverned"},
         ended(c, decision, stage, effect, asked)
  PROVE  /\ DOMAIN at' = Calls /\ DOMAIN outcome' = Calls /\ \A b \in Calls : DOMAIN outcome'[b] = Gates
         /\ \A b \in Calls \ {c} : at'[b] = at[b] /\ outcome'[b] = outcome[b]
         /\ at'[c] \in {"ran", "done"}
         /\ outcome'[c][gateAt(c)].decision = decision /\ outcome'[c][gateAt(c)].effect = effect
         /\ outcome'[c][gateAt(c)].stage = stage /\ outcome'[c][gateAt(c)] # undecided
         /\ outcome'[c][gateAt(c)].asked = asked /\ outcome'[c][gateAt(c)].payload = live'[c]
         /\ \A gate \in Gates \ {gateAt(c)} : outcome'[c][gate] = outcome[c][gate]
         /\ at'[c] = "ran" <=> gateAt(c) = "request" /\ effect.kind \in {"ran", "ungoverned"}
<1> DEFINE o == [decision |-> decision, stage |-> stage, effect |-> effect, payload |-> live'[c], asked |-> asked]
           g == gateAt(c)
<1>1. g \in Gates
  BY DEF gateAt, Gates
<1>2. outcome' = [outcome EXCEPT ![c][g] = o]
  BY DEF ended
<1>3. /\ o.decision = decision /\ o.stage = stage /\ o.effect = effect /\ o.payload = live'[c]
      /\ o.asked = asked /\ o # undecided
  BY DEF undecided
<1>4. at' = [at EXCEPT ![c] = IF g = "request" /\ effect.kind \in {"ran", "ungoverned"} THEN "ran" ELSE "done"]
  BY DEF ended
<1> HIDE DEF o, g
<1>5. DOMAIN at = Calls /\ DOMAIN outcome = Calls /\ \A b \in Calls : DOMAIN outcome[b] = Gates
  BY DEF TypeInv, Shapes
<1>6. DOMAIN outcome' = Calls /\ \A b \in Calls \ {c} : outcome'[b] = outcome[b]
  BY <1>2, <1>5
<1>7. outcome'[c] = [outcome[c] EXCEPT ![g] = o]
  BY <1>2, <1>5
<1>8. /\ DOMAIN outcome'[c] = Gates /\ outcome'[c][g] = o
      /\ \A gate \in Gates \ {g} : outcome'[c][gate] = outcome[c][gate]
  BY <1>1, <1>5, <1>7
<1>9. \A b \in Calls : DOMAIN outcome'[b] = Gates
  BY <1>5, <1>6, <1>8
<1>10. /\ DOMAIN at' = Calls /\ \A b \in Calls \ {c} : at'[b] = at[b]
       /\ at'[c] = IF g = "request" /\ effect.kind \in {"ran", "ungoverned"} THEN "ran" ELSE "done"
  BY <1>4, <1>5
<1> QED BY <1>3, <1>6, <1>8, <1>9, <1>10 DEF g

\* By the posture or by the decision, a step ends with an outcome.
LEMMA ByPostureEnds ==
  ASSUME NEW c \in Calls, NEW posture, NEW stage, NEW asked, byPosture(c, posture, stage, asked)
  PROVE  \E effect : effect.kind \in kinds /\ ended(c, posture, stage, effect, asked)
<1> DEFINE effect == acts(render(c, posture, live'[c]), gateAt(c), live'[c])
<1>1. ended(c, posture, stage, effect, asked)
  BY DEF byPosture
<1>2. effect.kind \in kinds
  BY ActsKind DEF kinds
<1> QED BY <1>1, <1>2

LEMMA ByDecisionEnds ==
  ASSUME NEW c \in Calls, NEW decision, NEW posture, NEW asked, byDecision(c, decision, posture, asked)
  PROVE  \E d, stage, effect :
           stage # "undecided" /\ effect.kind \in kinds /\ ended(c, d, stage, effect, asked)
<1> DEFINE output == render(c, decision, live'[c])
           effect == acts(output, gateAt(c), live'[c])
<1>1. CASE output = Throws
  <2>1. byPosture(c, posture, "render", asked)
    BY <1>1 DEF byDecision
  <2> QED BY <2>1, ByPostureEnds
<1>2. CASE output # Throws
  <2>1. ended(c, decision, "honoured", effect, asked)
    BY <1>2 DEF byDecision
  <2>2. effect.kind \in kinds
    BY ActsKind DEF kinds
  <2> QED BY <2>1, <2>2
<1> QED BY <1>1, <1>2

LEMMA EndedKeepsTypes ==
  ASSUME TypeInv, NEW c \in Calls, NEW decision, NEW stage, NEW effect, NEW asked,
         stage # "undecided", effect.kind \in kinds, at[c] # "done",
         ended(c, decision, stage, effect, asked),
         UNCHANGED <<host, hooks, envelope, wire, fresh>>, DOMAIN live' = Calls,
         seen' \subseteq {m.sent.request_id : m \in wire}
  PROVE  TypeInv'
<1> DEFINE g == gateAt(c)
<1>0. CallTypeOK /\ Deployed /\ Shapes /\ ResultsFollowRuns
  BY DEF TypeInv
<1>1. gateAt(c) = "result" => at[c] \in {"ran", "judging"}
  BY <1>0 DEF gateAt, CallTypeOK
<1>2. gateAt(c) = "result" => outcome[c].request.effect.kind \in {"ran", "ungoverned"}
  BY <1>0, <1>1 DEF ResultsFollowRuns
<1>3. /\ DOMAIN at' = Calls /\ DOMAIN outcome' = Calls /\ \A b \in Calls : DOMAIN outcome'[b] = Gates
      /\ \A b \in Calls \ {c} : at'[b] = at[b] /\ outcome'[b] = outcome[b]
      /\ at'[c] \in {"ran", "done"}
      /\ outcome'[c][g].effect = effect /\ outcome'[c][g] # undecided
      /\ \A gate \in Gates \ {g} : outcome'[c][gate] = outcome[c][gate]
      /\ at'[c] = "ran" <=> g = "request" /\ effect.kind \in {"ran", "ungoverned"}
  BY <1>2, EndedLeaves
<1>4. g \in Gates /\ (g = "request" <=> at[c] \in {"new", "asking"})
  BY DEF gateAt, Gates
<1> HIDE DEF g
<1>5. Deployed' /\ Shapes'
  BY <1>0, <1>3 DEF Deployed, Shapes
<1>6. CallTypeOK'
  <2>0. \A b \in Calls : at[b] \in {"new", "asking", "ran", "judging", "done"}
    BY <1>0 DEF CallTypeOK
  <2>1. at' \in [Calls -> {"new", "asking", "ran", "judging", "done"}]
    <3>1. at' = [b \in Calls |-> at'[b]]
      BY <1>0, <1>3, Zenon DEF ended, CallTypeOK
    <3> QED BY <1>3, <2>0, <3>1
  <2>2. fresh' \in 0..MaxFresh /\ seen' \subseteq {m.sent.request_id : m \in wire'}
    BY <1>0 DEF CallTypeOK
  <2>3. ASSUME NEW b \in Calls, at'[b] \in {"asking", "judging"}
        PROVE  [call |-> b, sent |-> envelope'[b]] \in wire'
    BY <1>0, <1>3, <2>3 DEF CallTypeOK
  <2>4. ASSUME NEW b \in Calls, at'[b] # "done" PROVE outcome'[b].result = undecided
    <3>1. CASE b = c
      <4>1. g = "request" /\ "result" \in Gates \ {g}
        BY <1>3, <2>4, <3>1 DEF Gates
      <4> QED BY <1>0, <1>3, <1>4, <3>1, <4>1 DEF CallTypeOK
    <3>2. CASE b # c
      BY <1>0, <1>3, <2>4, <3>2 DEF CallTypeOK
    <3> QED BY <3>1, <3>2
  <2>5. ASSUME NEW b \in Calls
        PROVE  (at'[b] \in {"new", "asking"}) <=> outcome'[b].request = undecided
    <3>1. CASE b = c /\ g = "request"
      BY <1>3, <3>1
    <3>2. CASE b = c /\ g = "result"
      <4>1. outcome'[c].request = outcome[c].request
        BY <1>3, <3>2 DEF Gates
      <4>2. outcome[c].request # undecided
        BY <1>0, <1>4, <3>2 DEF CallTypeOK
      <4> QED BY <1>3, <3>2, <4>1, <4>2
    <3>3. CASE b # c
      BY <1>0, <1>3, <3>3 DEF CallTypeOK
    <3> QED BY <1>4, <3>1, <3>2, <3>3 DEF Gates
  <2>6. ASSUME NEW b \in Calls, NEW gate \in Gates, outcome'[b][gate] # undecided
        PROVE  outcome'[b][gate].effect.kind \in kinds
    <3>1. CASE b = c /\ gate = g
      BY <1>3, <3>1
    <3>2. CASE b # c \/ gate # g
      <4>1. outcome'[b][gate] = outcome[b][gate]
        BY <1>3, <3>2
      <4> QED BY <1>0, <2>6, <4>1 DEF CallTypeOK, kinds
    <3> QED BY <3>1, <3>2
  <2> QED BY <2>1, <2>2, <2>3, <2>4, <2>5, <2>6 DEF CallTypeOK, kinds
<1>7. ResultsFollowRuns'
  <2> SUFFICES ASSUME NEW b \in Calls, at'[b] \in {"ran", "judging"} \/ outcome'[b].result # undecided
               PROVE  outcome'[b].request.effect.kind \in {"ran", "ungoverned"}
    BY DEF ResultsFollowRuns
  <2>1. CASE b # c
    BY <1>0, <1>3, <2>1 DEF ResultsFollowRuns
  <2>2. CASE b = c /\ g = "result"
    BY <1>2, <1>3, <2>2 DEF Gates, g
  <2>3. CASE b = c /\ g = "request"
    <3>1. outcome'[c].result = undecided
      BY <1>0, <1>3, <1>4, <2>3 DEF Gates, CallTypeOK
    <3> QED BY <1>3, <2>3, <3>1
  <2> QED BY <1>4, <2>1, <2>2, <2>3 DEF Gates
<1> QED BY <1>5, <1>6, <1>7 DEF TypeInv

\* A step that a hook handed to the host is over at once, or is asked about.
LEMMA FireIsOverOrAsks ==
  ASSUME Shapes, NEW c \in Calls, NEW payload, NEW posture, Fire(c, payload, posture)
  PROVE  /\ at[c] \in {"new", "ran"} /\ DOMAIN live' = Calls /\ live'[c] = payload
         /\ \A b \in Calls \ {c} : live'[b] = live[b]
         /\ UNCHANGED <<host, hooks, seen>>
         /\ \/ /\ \E decision, stage, effect :
                    stage # "undecided" /\ effect.kind \in kinds /\ ended(c, decision, stage, effect, Absent)
               /\ UNCHANGED <<envelope, wire, fresh>>
            \/ LET e == buildEnvelope(entryAt(c), payload, TRUE)
               IN  /\ usable(payload) /\ e # Throws /\ fresh + 2 <= MaxFresh
                   /\ at' = [at EXCEPT ![c] = IF at[c] = "new" THEN "asking" ELSE "judging"]
                   /\ envelope' = [envelope EXCEPT ![c] = e]
                   /\ wire' = wire \cup {[call |-> c, sent |-> e]} /\ fresh' = fresh + 2
                   /\ UNCHANGED outcome
<1> DEFINE entry == entryAt(c)
           e == buildEnvelope(entry, payload, TRUE)
           stays == UNCHANGED <<envelope, wire, fresh>>
           asks == /\ at' = [at EXCEPT ![c] = IF at[c] = "new" THEN "asking" ELSE "judging"]
                   /\ envelope' = [envelope EXCEPT ![c] = e]
                   /\ wire' = wire \cup {[call |-> c, sent |-> e]} /\ fresh' = fresh + 2
                   /\ UNCHANGED outcome
           un == ~usable(payload) \/ (host # "opencode" /\ entry.tools # Absent)
           gov == governsTool(entry, payload)
           unrep == locationAt(c, payload) # Absent /\ ~assertOutputIsReplaceable(locationAt(c, payload))
<1>1. /\ at[c] \in {"new", "ran"} /\ fresh + 2 <= MaxFresh
      /\ live' = [live EXCEPT ![c] = payload] /\ UNCHANGED <<host, hooks, seen>>
  BY DEF Fire
<1>2. DOMAIN live' = Calls /\ live'[c] = payload /\ \A b \in Calls \ {c} : live'[b] = live[b]
  BY <1>1 DEF Shapes
<1>3. refused.kind = "refused" /\ refused.kind \in kinds
  BY DEF refused, kinds
<1>4. IF un THEN ended(c, Absent, "unusable", refused, Absent) /\ stays
      ELSE IF ~gov
      THEN ended(c, Absent, "ungoverned", [kind |-> "ungoverned", doc |-> Absent], Absent) /\ stays
      ELSE IF e = Throws THEN byPosture(c, posture, "request", Absent) /\ stays
      ELSE IF unrep THEN ended(c, Absent, "unreplaceable", refused, Absent) /\ stays
      ELSE asks
  BY DEF Fire
<1>5. ~un => usable(payload)
  OBVIOUS
<1>6. [kind |-> "ungoverned", doc |-> Absent].kind \in kinds
  BY DEF kinds
<1>7. ASSUME byPosture(c, posture, "request", Absent)
      PROVE  \E effect : effect.kind \in kinds /\ ended(c, posture, "request", effect, Absent)
  BY <1>7, ByPostureEnds
<1> HIDE DEF un, gov, unrep, e, entry
<1>8. \/ /\ \E decision, stage, effect :
              stage # "undecided" /\ effect.kind \in kinds /\ ended(c, decision, stage, effect, Absent)
         /\ stays
      \/ usable(payload) /\ e # Throws /\ asks
  <2>1. CASE un
    BY <1>3, <1>4, <2>1
  <2>2. CASE ~un /\ ~gov
    BY <1>4, <1>6, <2>2
  <2>3. CASE ~un /\ gov /\ e = Throws
    BY <1>4, <1>7, <2>3
  <2>4. CASE ~un /\ gov /\ e # Throws /\ unrep
    BY <1>3, <1>4, <2>4
  <2>5. CASE ~un /\ gov /\ e # Throws /\ ~unrep
    BY <1>4, <1>5, <2>5
  <2> QED BY <2>1, <2>2, <2>3, <2>4, <2>5
<1> QED BY <1>1, <1>2, <1>8 DEF e, entry

\* What asking leaves, once it is known what was sent.
LEMMA AskingKeepsTypes ==
  ASSUME TypeInv, NEW c \in Calls, NEW e, NEW stage,
         \/ stage = at[c] /\ at[c] \in {"asking", "judging"}
         \/ at[c] = "new" /\ stage = "asking"
         \/ at[c] = "ran" /\ stage = "judging",
         at' = [at EXCEPT ![c] = stage], envelope' = [envelope EXCEPT ![c] = e],
         wire' = wire \cup {[call |-> c, sent |-> e]}, fresh + 2 <= MaxFresh, fresh' = fresh + 2,
         DOMAIN live' = Calls, UNCHANGED <<host, hooks, seen, outcome>>
  PROVE  TypeInv'
<1>0. CallTypeOK /\ Deployed /\ Shapes /\ ResultsFollowRuns
  BY DEF TypeInv
<1>1. /\ DOMAIN at' = Calls /\ DOMAIN envelope' = Calls /\ at'[c] = stage /\ envelope'[c] = e
      /\ \A b \in Calls \ {c} : at'[b] = at[b] /\ envelope'[b] = envelope[b]
  BY <1>0 DEF Shapes
<1>2. Deployed' /\ Shapes'
  BY <1>0, <1>1 DEF Deployed, Shapes
<1>3. CallTypeOK'
  <2>1. at' \in [Calls -> {"new", "asking", "ran", "judging", "done"}]
    BY <1>0 DEF CallTypeOK
  <2>2. fresh' \in 0..MaxFresh
    BY <1>0, CallAssumption DEF CallTypeOK
  <2>3. seen' \subseteq {m.sent.request_id : m \in wire'}
    BY <1>0 DEF CallTypeOK
  <2>4. ASSUME NEW b \in Calls, at'[b] \in {"asking", "judging"}
        PROVE  [call |-> b, sent |-> envelope'[b]] \in wire'
    BY <1>0, <1>1, <2>4 DEF CallTypeOK
  <2>5. ASSUME NEW b \in Calls
        PROVE  /\ at'[b] # "done" => outcome'[b].result = undecided
               /\ (at'[b] \in {"new", "asking"}) <=> outcome'[b].request = undecided
               /\ \A gate \in Gates : outcome'[b][gate] # undecided => outcome'[b][gate].effect.kind \in kinds
    <3>1. /\ at[b] # "done" => outcome[b].result = undecided
          /\ (at[b] \in {"new", "asking"}) <=> outcome[b].request = undecided
          /\ \A gate \in Gates : outcome[b][gate] # undecided => outcome[b][gate].effect.kind \in kinds
      BY <1>0 DEF CallTypeOK, kinds
    <3>2. at'[b] = "done" <=> at[b] = "done"
      BY <1>1
    <3>3. at'[b] \in {"new", "asking"} <=> at[b] \in {"new", "asking"}
      BY <1>1
    <3> QED BY <3>1, <3>2, <3>3
  <2> QED BY <2>1, <2>2, <2>3, <2>4, <2>5 DEF CallTypeOK, kinds
<1>4. ResultsFollowRuns'
  <2>1. ASSUME NEW b \in Calls, at'[b] \in {"ran", "judging"} PROVE at[b] \in {"ran", "judging"}
    BY <1>1, <2>1
  <2> QED BY <1>0, <2>1 DEF ResultsFollowRuns
<1> QED BY <1>2, <1>3, <1>4 DEF TypeInv

LEMMA TypeInit == Init => TypeInv
<1> SUFFICES ASSUME Init PROVE TypeInv
  OBVIOUS
<1>1. Deployed
  BY DEF Init, Deployed
<1>2. Shapes
  BY DEF Init, Shapes
<1>3. CallTypeOK /\ ResultsFollowRuns
  <2>1. \A c \in Calls, gate \in Gates : outcome[c][gate] = undecided
    BY DEF Init
  <2>2. \A c \in Calls : outcome[c].request = undecided /\ outcome[c].result = undecided
    BY <2>1 DEF Gates
  <2>3. at \in [Calls -> {"new", "asking", "ran", "judging", "done"}] /\ fresh \in 0..MaxFresh /\ seen = {}
    BY CallAssumption DEF Init
  <2>4. \A c \in Calls : at[c] = "new"
    BY DEF Init
  <2> QED BY <2>1, <2>2, <2>3, <2>4 DEF CallTypeOK, ResultsFollowRuns
<1> QED BY <1>1, <1>2, <1>3 DEF TypeInv

LEMMA TypeNext == TypeInv /\ [Next]_vars => TypeInv'
<1> SUFFICES ASSUME TypeInv, [Next]_vars PROVE TypeInv'
  OBVIOUS
<1>0. CallTypeOK /\ Deployed /\ Shapes /\ ResultsFollowRuns
  BY DEF TypeInv
<1>1. ASSUME NEW c \in Calls, NEW posture \in postures, NEW payload, Fire(c, payload, posture)
      PROVE  TypeInv'
  <2> DEFINE e == buildEnvelope(entryAt(c), payload, TRUE)
             stage == IF at[c] = "new" THEN "asking" ELSE "judging"
  <2>0. /\ at[c] \in {"new", "ran"} /\ DOMAIN live' = Calls
        /\ UNCHANGED <<host, hooks, seen>>
        /\ \/ /\ \E decision, st, effect :
                   st # "undecided" /\ effect.kind \in kinds /\ ended(c, decision, st, effect, Absent)
              /\ UNCHANGED <<envelope, wire, fresh>>
           \/ /\ fresh + 2 <= MaxFresh
              /\ at' = [at EXCEPT ![c] = stage] /\ envelope' = [envelope EXCEPT ![c] = e]
              /\ wire' = wire \cup {[call |-> c, sent |-> e]} /\ fresh' = fresh + 2
              /\ UNCHANGED outcome
    BY <1>0, <1>1, FireIsOverOrAsks
  <2> HIDE DEF e
  <2>1. CASE UNCHANGED <<envelope, wire, fresh>>
             /\ \E decision, st, effect :
                  st # "undecided" /\ effect.kind \in kinds /\ ended(c, decision, st, effect, Absent)
    <3>1. seen' \subseteq {m.sent.request_id : m \in wire}
      BY <1>0, <2>0 DEF CallTypeOK
    <3> QED BY <2>0, <2>1, <3>1, EndedKeepsTypes
  <2>2. CASE /\ at' = [at EXCEPT ![c] = stage] /\ envelope' = [envelope EXCEPT ![c] = e]
             /\ wire' = wire \cup {[call |-> c, sent |-> e]} /\ fresh' = fresh + 2
             /\ UNCHANGED outcome /\ fresh + 2 <= MaxFresh
    <3>0. PICK st, sent : st = stage /\ sent = e
      OBVIOUS
    <3>1. (at[c] = "new" /\ st = "asking") \/ (at[c] = "ran" /\ st = "judging")
      BY <2>0, <3>0
    <3>2. at' = [at EXCEPT ![c] = st] /\ envelope' = [envelope EXCEPT ![c] = sent]
      BY <2>2, <3>0
    <3>3. wire' = wire \cup {[call |-> c, sent |-> sent]}
      BY <2>2, <3>0
    <3> HIDE DEF stage
    <3> QED BY <2>0, <2>2, <3>1, <3>2, <3>3, AskingKeepsTypes
  <2> QED BY <2>0, <2>1, <2>2
<1>2. ASSUME NEW c \in Calls, AskAgain(c) PROVE TypeInv'
  <2> DEFINE e == buildEnvelope(entryAt(c), live[c], FALSE)
  <2>1. /\ at[c] \in {"asking", "judging"} /\ fresh + 2 <= MaxFresh
        /\ envelope' = [envelope EXCEPT ![c] = e]
        /\ wire' = wire \cup {[call |-> c, sent |-> envelope'[c]]} /\ fresh' = fresh + 2
        /\ UNCHANGED <<host, hooks, live, at, seen, outcome>>
    BY <1>2 DEF AskAgain, waiting
  <2> HIDE DEF e
  <2>0. PICK st, sent : st = at[c] /\ sent = e
    OBVIOUS
  <2>2. at' = [at EXCEPT ![c] = st] /\ DOMAIN live' = Calls
    BY <1>0, <2>0, <2>1 DEF Shapes, CallTypeOK
  <2>3. envelope' = [envelope EXCEPT ![c] = sent] /\ wire' = wire \cup {[call |-> c, sent |-> sent]}
    BY <1>0, <2>0, <2>1 DEF Shapes
  <2>4. st = at[c] /\ at[c] \in {"asking", "judging"}
    BY <2>0, <2>1
  <2> QED BY <2>1, <2>2, <2>3, <2>4, AskingKeepsTypes
<1>3. ASSUME NEW c \in Calls, Repeat(c) PROVE TypeInv'
  <2>1. /\ at[c] = "done" /\ outcome[c].request.effect = refused
        /\ at' = [at EXCEPT ![c] = "new"] /\ outcome' = [outcome EXCEPT ![c].request = undecided]
        /\ UNCHANGED <<host, hooks, live, envelope, seen, wire, fresh>>
    BY <1>3 DEF Repeat
  <2>2. outcome[c].result = undecided
    BY <1>0, <2>1 DEF ResultsFollowRuns, refused
  <2>3. /\ DOMAIN at' = Calls /\ at'[c] = "new" /\ \A b \in Calls \ {c} : at'[b] = at[b]
        /\ DOMAIN outcome' = Calls /\ \A b \in Calls \ {c} : outcome'[b] = outcome[b]
    BY <1>0, <2>1 DEF Shapes
  <2>4. /\ DOMAIN outcome'[c] = Gates /\ outcome'[c].request = undecided /\ outcome'[c].result = undecided
    BY <1>0, <2>1, <2>2 DEF Shapes, Gates
  <2>5. Deployed' /\ Shapes'
    BY <1>0, <2>1, <2>3, <2>4 DEF Deployed, Shapes
  <2>6. CallTypeOK'
    <3>1. at' \in [Calls -> {"new", "asking", "ran", "judging", "done"}]
      BY <1>0, <2>1 DEF CallTypeOK
    <3>2. \A b \in Calls : at'[b] \in {"asking", "judging"} => b # c
      BY <2>3
    <3>3. ASSUME NEW b \in Calls \ {c}
          PROVE  /\ at'[b] # "done" => outcome'[b].result = undecided
                 /\ (at'[b] \in {"new", "asking"}) <=> outcome'[b].request = undecided
                 /\ \A gate \in Gates : outcome'[b][gate] # undecided => outcome'[b][gate].effect.kind \in kinds
      BY <1>0, <2>3 DEF CallTypeOK, kinds
    <3>4. \A gate \in Gates : outcome'[c][gate] = undecided
      BY <2>4 DEF Gates
    <3> QED BY <1>0, <2>1, <2>3, <2>4, <3>1, <3>2, <3>3, <3>4 DEF CallTypeOK, kinds
  <2>7. ResultsFollowRuns'
    BY <1>0, <2>3, <2>4 DEF ResultsFollowRuns
  <2> QED BY <2>5, <2>6, <2>7 DEF TypeInv
<1>4. ASSUME NEW c \in Calls, waiting(c), UNCHANGED <<envelope, wire, fresh>>,
             seen' \in {seen, seen \cup {envelope[c].request_id}},
             \E d, stage, effect : /\ stage # "undecided" /\ effect.kind \in kinds
                                   /\ ended(c, d, stage, effect, envelope[c])
      PROVE  TypeInv'
  <2>1. at[c] \in {"asking", "judging"} /\ UNCHANGED <<host, hooks, live>> /\ DOMAIN live' = Calls
    BY <1>0, <1>4 DEF waiting, Shapes
  <2>2. [call |-> c, sent |-> envelope[c]] \in wire
    BY <1>0, <2>1 DEF CallTypeOK
  <2>3. envelope[c].request_id \in {m.sent.request_id : m \in wire}
    BY <2>2
  <2>4. seen' \subseteq {m.sent.request_id : m \in wire}
    BY <1>0, <1>4, <2>3 DEF CallTypeOK
  <2> QED BY <1>4, <2>1, <2>4, EndedKeepsTypes
<1>5. ASSUME NEW c \in Calls, NEW decision, NEW late, NEW posture, Answered(c, decision, late, posture)
      PROVE  TypeInv'
  <2>1. /\ waiting(c) /\ seen' = seen \cup {envelope[c].request_id} /\ UNCHANGED <<envelope, wire, fresh>>
        /\ \E d : byDecision(c, d, posture, envelope[c])
    BY <1>5, Zenon DEF Answered
  <2> QED BY <1>4, <2>1, ByDecisionEnds
<1>6. ASSUME NEW c \in Calls, NEW recorded, NEW posture, Unanswered(c, recorded, posture)
      PROVE  TypeInv'
  <2>1. /\ waiting(c) /\ seen' \in {seen, seen \cup {envelope[c].request_id}}
        /\ UNCHANGED <<envelope, wire, fresh>> /\ byPosture(c, posture, "delivery", envelope[c])
    BY <1>6 DEF Unanswered
  <2>2. PICK effect : effect.kind \in kinds /\ ended(c, posture, "delivery", effect, envelope[c])
    BY <2>1, ByPostureEnds
  <2>3. "delivery" # "undecided"
    OBVIOUS
  <2> QED BY <1>4, <2>1, <2>2, <2>3
<1>7. CASE UNCHANGED vars
  <2>1. UNCHANGED <<host, hooks, at, live, envelope, seen, wire, fresh, outcome>>
    BY <1>7 DEF vars
  <2>2. Deployed' /\ Shapes'
    BY <1>0, <2>1 DEF Deployed, Shapes
  <2>3. CallTypeOK'
    BY <1>0, <2>1 DEF CallTypeOK
  <2>4. ResultsFollowRuns'
    BY <1>0, <2>1 DEF ResultsFollowRuns
  <2> QED BY <2>2, <2>3, <2>4 DEF TypeInv
<1> QED BY <1>1, <1>2, <1>3, <1>5, <1>6, <1>7 DEF Next, Host, Guardian

(* Where each call is, and what has become of it at each gate, is as the    *)
(* two hooks and the Guardian's memory of ids leave them, for every set of  *)
(* calls, hookmaps, payloads and decisions (governStep).                    *)
THEOREM CallTypeOKHolds == Spec => []CallTypeOK
<1>1. TypeInv => CallTypeOK
  BY DEF TypeInv
<1> QED BY <1>1, TypeInit, TypeNext, PTL DEF Spec

------------------------------------------------------------------------------
(* The ids a call's messages carry. *)

derivedOf(id) == toInvocationRequestId(id[1], id[2])

\* A random id is one of those drawn so far, and a derived one is hashed from
\* what is the call's own.
drawn(n, id) == \E k \in 1..n : id = random(k)

\* A question without an output, a request, carries the id derived from its
\* call unless that id has been recorded; what a message cites is that id.
CarriesIds(e, id, n, recorded) ==
  /\ (e.request_id = derivedOf(id) /\ id[2] # Absent) \/ drawn(n, e.request_id)
  /\ e.payload.request_id_ref # Absent => e.payload.request_id_ref = derivedOf(id) /\ id[2] # Absent
  /\ e.payload.value = Absent => id[2] = Absent \/ e.request_id = derivedOf(id) \/ derivedOf(id) \in recorded

isOf(m, gate, payload) ==
  m.call \in Calls /\ payload \in payloadsAt(host, gate, m.call) /\ Present(payload, <<"session_id">>)

Traced ==
  \A m \in wire : \E gate \in Gates : \E payload :
    isOf(m, gate, payload) /\ CarriesIds(m.sent, identityOf(hooks[hookAt(host, gate)], payload), fresh, seen)

\* Each message drew a JSON-RPC id of its own.
Numbered ==
  /\ \A m \in wire : drawn(fresh, m.sent.id)
  /\ \A m, n \in wire : m.sent.id = n.sent.id => m = n

buildable(entry, payload) ==
  /\ resolvable(entry.tool_name, payload) /\ typeOf(resolve(payload, entry.tool_name)) = "string"
  /\ buildPayload(entry, payload) # Throws /\ Present(payload, <<"session_id">>)

\* A hook that waits can build its envelope again.
Rebuildable ==
  \A c \in Calls : at[c] \in {"asking", "judging"} =>
    live[c] \in payloadsAt(host, gateAt(c), c) /\ buildable(entryAt(c), live[c])

IdsInv == TypeInv /\ Traced /\ Numbered /\ Rebuildable

LEMMA BuiltOnlyWhenBuildable ==
  ASSUME NEW entry, NEW payload, NEW pair, buildEnvelope(entry, payload, pair) # Throws
  PROVE  buildable(entry, payload)
BY DEF buildEnvelope, buildable

\* What an envelope carries, by whether it is paired with the host's call.
LEMMA EnvelopeIds ==
  ASSUME NEW entry, NEW payload, NEW pair \in BOOLEAN, buildable(entry, payload)
  PROVE  LET e == buildEnvelope(entry, payload, pair)
             id == identityOf(entry, payload)
         IN  /\ e.id \in {random(fresh + 1), random(fresh + 2)}
             /\ pair => \/ e.request_id = derivedOf(id) /\ id[2] # Absent
                        \/ e.request_id = random(fresh + 1)
             /\ pair /\ e.payload.value = Absent => id[2] = Absent \/ e.request_id = derivedOf(id)
             /\ e.payload.request_id_ref # Absent => e.payload.request_id_ref = derivedOf(id) /\ id[2] # Absent
             /\ ~pair => e.request_id = random(fresh + 1) /\ e.payload.request_id_ref = Absent
<1> DEFINE acs == buildPayload(entry, payload)
           session == toSessionUuid(resolve(payload, <<"session_id">>)[<<>>].text)
           call == IF pair THEN invocationIdOf(entry, payload) ELSE Absent
           derived == toInvocationRequestId(session, call)
           id == IF call # Absent /\ acs.value = Absent THEN derived ELSE random(fresh + 1)
           ref == IF call # Absent /\ acs.value # Absent THEN derived ELSE Absent
           tool == resolve(payload, entry.tool_name)
           e == [method |-> entry.acs_method, session |-> session, tool |-> tool[<<>>].text, request_id |-> id,
                 id |-> IF id = derived THEN random(fresh + 2) ELSE id,
                 payload |-> [acs EXCEPT !.request_id_ref = ref]]
           of == identityOf(entry, payload)
<1>1. buildEnvelope(entry, payload, pair) = e
  BY DEF buildEnvelope, buildable
<1>2. "value" \in DOMAIN acs /\ "request_id_ref" \in DOMAIN acs
  <2>1. acs # Throws
    BY DEF buildable
  <2> QED BY <2>1 DEF buildPayload, requestPayload, resultPayload
<1>3. of[1] = session /\ of[2] = invocationIdOf(entry, payload)
  BY DEF identityOf
<1>4. pair => derived = derivedOf(of) /\ call = of[2]
  BY <1>3 DEF derivedOf
<1>5. ~pair => call = Absent
  OBVIOUS
<1> HIDE DEF acs, session, call, derived, of, tool
<1>6. /\ e.request_id = id /\ e.id = (IF id = derived THEN random(fresh + 2) ELSE id)
      /\ e.payload.value = acs.value /\ e.payload.request_id_ref = ref
  BY <1>2
<1> HIDE DEF e
<1>7. e.id \in {random(fresh + 1), random(fresh + 2)}
  BY <1>6
<1> QED BY <1>1, <1>4, <1>5, <1>6, <1>7 DEF of

LEMMA DrawnLater ==
  ASSUME NEW n \in Nat, NEW id, drawn(n, id)
  PROVE  drawn(n + 2, id)
<1>1. \A k \in 1..n : k \in 1..(n + 2)
  OBVIOUS
<1> QED BY <1>1 DEF drawn

LEMMA RandomIsNotDerived ==
  ASSUME NEW k, NEW id
  PROVE  random(k) # derivedOf(id)
<1>1. "random" \in DOMAIN random(k)
  BY DEF random
<1>2. "random" \notin DOMAIN derivedOf(id)
  BY DEF derivedOf, toInvocationRequestId
<1> QED BY <1>1, <1>2

LEMMA CarriedLater ==
  ASSUME NEW e, NEW id, NEW n \in Nat, NEW recorded, NEW after, recorded \subseteq after,
         CarriesIds(e, id, n, recorded)
  PROVE  CarriesIds(e, id, n, after) /\ CarriesIds(e, id, n + 2, after)
<1>1. drawn(n, e.request_id) => drawn(n + 2, e.request_id)
  BY DrawnLater
<1> QED BY <1>1 DEF CarriesIds

\* A step that is over sends nothing, and only adds to what is recorded.
LEMMA OverKeepsIds ==
  ASSUME IdsInv, TypeInv', UNCHANGED <<host, hooks, wire, fresh>>, seen \subseteq seen',
         \A b \in Calls : at'[b] \in {"asking", "judging"} => at'[b] = at[b] /\ live'[b] = live[b]
  PROVE  IdsInv'
<1>0. TypeInv /\ Traced /\ Numbered /\ Rebuildable /\ fresh \in Nat
  BY CallAssumption DEF IdsInv, TypeInv, CallTypeOK
<1>1. Traced'
  <2> SUFFICES ASSUME NEW m \in wire
               PROVE  \E gate \in Gates : \E payload :
                        isOf(m, gate, payload)'
                        /\ CarriesIds(m.sent, identityOf(hooks[hookAt(host, gate)], payload), fresh, seen')
    BY DEF Traced, isOf
  <2>a. PICK gate \in Gates : \E p :
          isOf(m, gate, p) /\ CarriesIds(m.sent, identityOf(hooks[hookAt(host, gate)], p), fresh, seen)
    BY <1>0 DEF Traced
  <2>1. PICK payload :
          isOf(m, gate, payload) /\ CarriesIds(m.sent, identityOf(hooks[hookAt(host, gate)], payload), fresh, seen)
    BY <2>a
  <2>2. isOf(m, gate, payload)'
    BY <2>1 DEF isOf
  <2> QED BY <1>0, <2>1, <2>2, CarriedLater
<1>2. Numbered'
  BY <1>0 DEF Numbered
<1>3. Rebuildable'
  <2> SUFFICES ASSUME NEW c \in Calls, at'[c] \in {"asking", "judging"}
               PROVE  (live[c] \in payloadsAt(host, gateAt(c), c) /\ buildable(entryAt(c), live[c]))'
    BY DEF Rebuildable
  <2>1. at'[c] = at[c] /\ live'[c] = live[c]
    OBVIOUS
  <2>2. live[c] \in payloadsAt(host, gateAt(c), c) /\ buildable(entryAt(c), live[c])
    BY <1>0, <2>1 DEF Rebuildable
  <2>3. gateAt(c)' = gateAt(c)
    BY <2>1 DEF gateAt
  <2>4. entryAt(c)' = entryAt(c)
    BY <2>3 DEF entryAt, hookOf
  <2> QED BY <2>1, <2>2, <2>3, <2>4
<1> QED BY <1>1, <1>2, <1>3 DEF IdsInv

\* A message with new ids of the call's own keeps them apart from the others'.
LEMMA AskingKeepsIds ==
  ASSUME IdsInv, TypeInv', NEW c \in Calls, NEW e, NEW gate \in Gates, NEW payload,
         isOf([call |-> c, sent |-> e], gate, payload),
         CarriesIds(e, identityOf(hooks[hookAt(host, gate)], payload), fresh + 2, seen),
         e.id \in {random(fresh + 1), random(fresh + 2)},
         wire' = wire \cup {[call |-> c, sent |-> e]}, fresh' = fresh + 2, UNCHANGED <<host, hooks, seen>>,
         gateAt(c)' = gate, live'[c] = payload, buildable(hooks[hookAt(host, gate)], payload),
         \A b \in Calls \ {c} : at'[b] = at[b] /\ live'[b] = live[b]
  PROVE  IdsInv'
<1>0. TypeInv /\ Traced /\ Numbered /\ Rebuildable /\ fresh \in Nat
  BY CallAssumption DEF IdsInv, TypeInv, CallTypeOK
<1> DEFINE new == [call |-> c, sent |-> e]
<1>a. new.call = c /\ new.sent = e
  OBVIOUS
<1> HIDE DEF new
<1>1. Traced'
  <2> SUFFICES ASSUME NEW m \in wire'
               PROVE  \E g \in Gates : \E p :
                        isOf(m, g, p)' /\ CarriesIds(m.sent, identityOf(hooks[hookAt(host, g)], p), fresh + 2, seen)
    BY DEF Traced, isOf
  <2>0. \A g, p : isOf(m, g, p)' <=> isOf(m, g, p)
    BY DEF isOf
  <2>1. CASE m = new
    BY <1>a, <2>0, <2>1 DEF new
  <2>2. CASE m \in wire
    <3>a. PICK g \in Gates : \E p :
            isOf(m, g, p) /\ CarriesIds(m.sent, identityOf(hooks[hookAt(host, g)], p), fresh, seen)
      BY <1>0, <2>2 DEF Traced
    <3>1. PICK p : isOf(m, g, p) /\ CarriesIds(m.sent, identityOf(hooks[hookAt(host, g)], p), fresh, seen)
      BY <3>a
    <3>2. CarriesIds(m.sent, identityOf(hooks[hookAt(host, g)], p), fresh + 2, seen)
      BY <1>0, <3>1, CarriedLater
    <3> QED BY <2>0, <3>1, <3>2
  <2> QED BY <2>1, <2>2 DEF new
<1>2. Numbered'
  <2>1. \A k \in 1..fresh : random(k) # random(fresh + 1) /\ random(k) # random(fresh + 2)
    BY <1>0 DEF random
  <2>2. \A m \in wire : m.sent.id # e.id
    BY <1>0, <2>1 DEF Numbered, drawn
  <2>3. \A m \in wire : drawn(fresh + 2, m.sent.id)
    BY <1>0, DrawnLater DEF Numbered
  <2>4. drawn(fresh + 2, e.id)
    BY <1>0 DEF drawn
  <2>5. wire' = wire \cup {new}
    BY DEF new
  <2>6. \A m, n \in wire' : m.sent.id = n.sent.id => m = n
    BY <1>0, <1>a, <2>2, <2>5 DEF Numbered
  <2> QED BY <1>a, <2>3, <2>4, <2>5, <2>6 DEF Numbered
<1>3. Rebuildable'
  <2> SUFFICES ASSUME NEW b \in Calls, at'[b] \in {"asking", "judging"}
               PROVE  (live[b] \in payloadsAt(host, gateAt(b), b) /\ buildable(entryAt(b), live[b]))'
    BY DEF Rebuildable
  <2>1. CASE b = c
    <3>1. payload \in payloadsAt(host, gate, c)
      BY <1>a DEF isOf, new
    <3>2. entryAt(c)' = hooks[hookAt(host, gate)]
      BY DEF entryAt, hookOf
    <3> QED BY <2>1, <3>1, <3>2
  <2>2. CASE b # c
    <3>1. at'[b] = at[b] /\ live'[b] = live[b]
      BY <2>2
    <3>2. live[b] \in payloadsAt(host, gateAt(b), b) /\ buildable(entryAt(b), live[b])
      BY <1>0, <3>1 DEF Rebuildable
    <3>3. gateAt(b)' = gateAt(b)
      BY <3>1 DEF gateAt
    <3>4. entryAt(b)' = entryAt(b)
      BY <3>3 DEF entryAt, hookOf
    <3> QED BY <3>1, <3>2, <3>3, <3>4
  <2> QED BY <2>1, <2>2
<1> QED BY <1>1, <1>2, <1>3 DEF IdsInv

\* The payloads of one call, at either hook, have one identity.
LEMMA OneIdentity ==
  ASSUME TypeInv, NEW m, NEW n, NEW g1 \in Gates, NEW g2 \in Gates, NEW p, NEW q, isOf(m, g1, p), isOf(n, g2, q)
  PROVE  LET i == identityOf(hooks[hookAt(host, g1)], p)
             j == identityOf(hooks[hookAt(host, g2)], q)
         IN  IF m.call = n.call THEN i = j ELSE i[2] = Absent \/ i # j
<1>1. PICK d \in Hookmaps : accepts(d) /\ host = d.host /\ hooks = d.hooks
  BY DEF TypeInv, Deployed
<1>2. d \in {e \in Hookmaps : accepts(e)}
  BY <1>1
<1>3. /\ m.call \in Calls /\ p \in payloadsAt(d.host, g1, m.call) /\ Present(p, <<"session_id">>)
      /\ n.call \in Calls /\ q \in payloadsAt(d.host, g2, n.call) /\ Present(q, <<"session_id">>)
  BY <1>1 DEF isOf
<1> DEFINE a == m.call
           b == n.call
<1>4. a \in Calls /\ b \in Calls /\ p \in payloadsAt(d.host, g1, a) /\ q \in payloadsAt(d.host, g2, b)
  BY <1>3
<1> HIDE DEF a, b
<1>5. LET i == identityOf(d.hooks[hookAt(d.host, g1)], p)
          j == identityOf(d.hooks[hookAt(d.host, g2)], q)
      IN  IF a = b THEN i = j ELSE i[2] = Absent \/ i # j
  BY <1>2, <1>3, <1>4, PayloadAssumption
<1> QED BY <1>1, <1>5 DEF a, b

LEMMA IdsInit == Init => IdsInv
<1>1. ASSUME Init PROVE Traced /\ Numbered /\ Rebuildable
  BY <1>1 DEF Init, Traced, Numbered, Rebuildable
<1> QED BY <1>1, TypeInit DEF IdsInv

LEMMA IdsNext == IdsInv /\ [Next]_vars => IdsInv'
<1> SUFFICES ASSUME IdsInv, [Next]_vars PROVE IdsInv'
  OBVIOUS
<1>0. TypeInv /\ CallTypeOK /\ Shapes /\ Traced /\ Numbered /\ Rebuildable /\ TypeInv' /\ fresh \in Nat
  BY TypeNext, CallAssumption DEF IdsInv, TypeInv, CallTypeOK
<1>1. ASSUME NEW c \in Calls, NEW posture \in postures,
             NEW payload \in (IF at[c] = "new" THEN Starts[host][c] ELSE Ends[host][c]), Fire(c, payload, posture)
      PROVE  IdsInv'
  <2> DEFINE entry == entryAt(c)
  <2>0. /\ at[c] \in {"new", "ran"} /\ DOMAIN live' = Calls /\ live'[c] = payload
        /\ \A b \in Calls \ {c} : live'[b] = live[b]
        /\ UNCHANGED <<host, hooks, seen>>
        /\ \/ /\ \E decision, st, effect :
                   st # "undecided" /\ effect.kind \in kinds /\ ended(c, decision, st, effect, Absent)
              /\ UNCHANGED <<envelope, wire, fresh>>
           \/ LET e == buildEnvelope(entryAt(c), payload, TRUE)
              IN  /\ usable(payload) /\ e # Throws
                  /\ at' = [at EXCEPT ![c] = IF at[c] = "new" THEN "asking" ELSE "judging"]
                  /\ wire' = wire \cup {[call |-> c, sent |-> e]} /\ fresh' = fresh + 2
    BY <1>0, <1>1, FireIsOverOrAsks
  <2>1. CASE UNCHANGED <<envelope, wire, fresh>>
             /\ \E decision, st, effect :
                  st # "undecided" /\ effect.kind \in kinds /\ ended(c, decision, st, effect, Absent)
    <3>1. PICK decision, st, effect :
            st # "undecided" /\ effect.kind \in kinds /\ ended(c, decision, st, effect, Absent)
      BY <2>1
    <3>2. gateAt(c) = "result" => outcome[c].request.effect.kind \in {"ran", "ungoverned"}
      BY <1>0, <2>0 DEF gateAt, TypeInv, ResultsFollowRuns
    <3>3. at'[c] \in {"ran", "done"} /\ \A b \in Calls \ {c} : at'[b] = at[b]
      BY <1>0, <2>0, <3>1, <3>2, EndedLeaves
    <3> QED BY <1>0, <2>0, <2>1, <3>3, OverKeepsIds
  <2>2. CASE LET e == buildEnvelope(entryAt(c), payload, TRUE)
             IN  /\ usable(payload) /\ e # Throws
                 /\ at' = [at EXCEPT ![c] = IF at[c] = "new" THEN "asking" ELSE "judging"]
                 /\ wire' = wire \cup {[call |-> c, sent |-> e]} /\ fresh' = fresh + 2
    <3>0. PICK e, gate : e = buildEnvelope(entryAt(c), payload, TRUE) /\ gate = gateAt(c)
      OBVIOUS
    <3>1. /\ usable(payload) /\ e # Throws /\ buildable(entry, payload)
          /\ at' = [at EXCEPT ![c] = IF at[c] = "new" THEN "asking" ELSE "judging"]
          /\ wire' = wire \cup {[call |-> c, sent |-> e]} /\ fresh' = fresh + 2
      BY <2>2, <3>0, BuiltOnlyWhenBuildable
    <3>2. gate \in Gates /\ entry = hooks[hookAt(host, gate)] /\ payload \in payloadsAt(host, gate, c)
      BY <1>1, <2>0, <3>0 DEF gateAt, Gates, entryAt, hookOf, payloadsAt
    <3>3. gateAt(c)' = gate
      <4>1. at'[c] = IF at[c] = "new" THEN "asking" ELSE "judging"
        BY <1>0, <3>1 DEF Shapes
      <4> QED BY <2>0, <3>0, <4>1 DEF gateAt
    <3> DEFINE id == identityOf(entry, payload)
    <3>4. /\ e.id \in {random(fresh + 1), random(fresh + 2)}
          /\ (e.request_id = derivedOf(id) /\ id[2] # Absent) \/ e.request_id = random(fresh + 1)
          /\ e.payload.value = Absent => id[2] = Absent \/ e.request_id = derivedOf(id)
          /\ e.payload.request_id_ref # Absent => e.payload.request_id_ref = derivedOf(id) /\ id[2] # Absent
      BY <3>0, <3>1, EnvelopeIds
    <3> HIDE DEF id, entry
    <3>5. CarriesIds(e, id, fresh + 2, seen)
      <4>1. fresh + 1 \in 1..(fresh + 2)
        BY <1>0
      <4> QED BY <3>4, <4>1 DEF CarriesIds, drawn
    <3>6. isOf([call |-> c, sent |-> e], gate, payload)
      BY <3>1, <3>2 DEF isOf, usable
    <3>7. \A b \in Calls \ {c} : at'[b] = at[b]
      BY <1>0, <3>1 DEF Shapes
    <3> QED BY <1>0, <2>0, <3>1, <3>2, <3>3, <3>4, <3>5, <3>6, <3>7, AskingKeepsIds DEF id
  <2> QED BY <2>0, <2>1, <2>2
<1>2. ASSUME NEW c \in Calls, AskAgain(c) PROVE IdsInv'
  <2>0. PICK e, gate, payload : /\ e = buildEnvelope(entryAt(c), live[c], FALSE)
                                /\ gate = gateAt(c) /\ payload = live[c]
    OBVIOUS
  <2>1. /\ at[c] \in {"asking", "judging"} /\ fresh + 2 <= MaxFresh
        /\ envelope[c].request_id \in seen /\ envelope[c].payload.value = Absent
        /\ envelope' = [envelope EXCEPT ![c] = e]
        /\ wire' = wire \cup {[call |-> c, sent |-> envelope'[c]]} /\ fresh' = fresh + 2
        /\ UNCHANGED <<host, hooks, live, at, seen, outcome>>
    BY <1>2, <2>0 DEF AskAgain, waiting
  <2> DEFINE entry == hooks[hookAt(host, gate)]
             id == identityOf(entry, payload)
             m == [call |-> c, sent |-> envelope[c]]
             new == [call |-> c, sent |-> e]
  <2>2. wire' = wire \cup {new}
    BY <1>0, <2>1 DEF Shapes
  <2>3. entry = entryAt(c) /\ gate \in Gates
    BY <2>0 DEF entryAt, hookOf, gateAt, Gates
  <2>4. payload \in payloadsAt(host, gate, c) /\ buildable(entry, payload)
    BY <1>0, <2>0, <2>1, <2>3 DEF Rebuildable
  <2>5. isOf(new, gate, payload) /\ isOf(m, gate, payload)
    BY <2>4 DEF isOf, buildable
  <2>6. /\ e.id \in {random(fresh + 1), random(fresh + 2)}
        /\ e.request_id = random(fresh + 1) /\ e.payload.request_id_ref = Absent
    BY <2>0, <2>3, <2>4, EnvelopeIds
  <2>7. m \in wire /\ m.call = c /\ m.sent = envelope[c]
    BY <1>0, <2>1 DEF CallTypeOK
  <2> HIDE DEF m, entry
  <2>8. CarriesIds(envelope[c], id, fresh, seen)
    <3>1. PICK g \in Gates : \E p :
            isOf(m, g, p) /\ CarriesIds(m.sent, identityOf(hooks[hookAt(host, g)], p), fresh, seen)
      BY <1>0, <2>7 DEF Traced
    <3>2. PICK p : isOf(m, g, p) /\ CarriesIds(m.sent, identityOf(hooks[hookAt(host, g)], p), fresh, seen)
      BY <3>1
    <3>3. identityOf(hooks[hookAt(host, g)], p) = id
      BY <1>0, <2>3, <2>5, <3>2, OneIdentity DEF entry
    <3> QED BY <2>7, <3>2, <3>3
  <2> HIDE DEF id
  <2>9. id[2] = Absent \/ derivedOf(id) \in seen
    BY <2>1, <2>8, RandomIsNotDerived DEF CarriesIds
  <2>10. CarriesIds(e, id, fresh + 2, seen)
    <3>1. fresh + 1 \in 1..(fresh + 2)
      BY <1>0
    <3> QED BY <2>6, <2>9, <3>1 DEF CarriesIds, drawn
  <2>11. gateAt(c)' = gate /\ live'[c] = payload
    BY <2>0, <2>1 DEF gateAt
  <2> QED BY <1>0, <2>1, <2>2, <2>3, <2>4, <2>5, <2>6, <2>10, <2>11, AskingKeepsIds DEF id, entry
<1>3. ASSUME NEW c \in Calls, Repeat(c) PROVE IdsInv'
  <2>1. /\ at' = [at EXCEPT ![c] = "new"] /\ UNCHANGED <<host, hooks, live, envelope, seen, wire, fresh>>
    BY <1>3 DEF Repeat
  <2>2. at'[c] = "new" /\ \A b \in Calls \ {c} : at'[b] = at[b]
    BY <1>0, <2>1 DEF Shapes
  <2> QED BY <1>0, <2>1, <2>2, OverKeepsIds
<1>4. ASSUME NEW c \in Calls, waiting(c), UNCHANGED <<envelope, wire, fresh>>,
             seen' \in {seen, seen \cup {envelope[c].request_id}},
             \E d, stage, effect : /\ stage # "undecided" /\ effect.kind \in kinds
                                   /\ ended(c, d, stage, effect, envelope[c])
      PROVE  IdsInv'
  <2>1. at[c] \in {"asking", "judging"} /\ UNCHANGED <<host, hooks, live>>
    BY <1>4 DEF waiting
  <2>2. PICK d, stage, effect : /\ stage # "undecided" /\ effect.kind \in kinds
                                /\ ended(c, d, stage, effect, envelope[c])
    BY <1>4
  <2>3. gateAt(c) = "result" => outcome[c].request.effect.kind \in {"ran", "ungoverned"}
    BY <1>0, <2>1 DEF gateAt, TypeInv, ResultsFollowRuns
  <2>4. PICK sent : sent = envelope[c]
    OBVIOUS
  <2>5. at'[c] \in {"ran", "done"} /\ \A b \in Calls \ {c} : at'[b] = at[b]
    BY <1>0, <2>1, <2>2, <2>3, <2>4, EndedLeaves
  <2> QED BY <1>0, <1>4, <2>1, <2>5, OverKeepsIds
<1>5. ASSUME NEW c \in Calls, NEW decision, NEW late, NEW posture, Answered(c, decision, late, posture)
      PROVE  IdsInv'
  <2>1. /\ waiting(c) /\ seen' = seen \cup {envelope[c].request_id} /\ UNCHANGED <<envelope, wire, fresh>>
        /\ \E d : byDecision(c, d, posture, envelope[c])
    BY <1>5, Zenon DEF Answered
  <2> QED BY <1>4, <2>1, ByDecisionEnds
<1>6. ASSUME NEW c \in Calls, NEW recorded, NEW posture, Unanswered(c, recorded, posture)
      PROVE  IdsInv'
  <2>1. /\ waiting(c) /\ seen' \in {seen, seen \cup {envelope[c].request_id}}
        /\ UNCHANGED <<envelope, wire, fresh>> /\ byPosture(c, posture, "delivery", envelope[c])
    BY <1>6 DEF Unanswered
  <2>2. PICK effect : effect.kind \in kinds /\ ended(c, posture, "delivery", effect, envelope[c])
    BY <2>1, ByPostureEnds
  <2>3. "delivery" # "undecided"
    OBVIOUS
  <2> QED BY <1>4, <2>1, <2>2, <2>3
<1>7. CASE UNCHANGED vars
  BY <1>0, <1>7, OverKeepsIds DEF vars
<1> QED BY <1>1, <1>2, <1>3, <1>5, <1>6, <1>7 DEF Next, Host, Guardian

LEMMA IdsGive == IdsInv => ResultCitesItsRequest
<1> SUFFICES ASSUME IdsInv PROVE ResultCitesItsRequest
  OBVIOUS
<1>0. TypeInv /\ Traced /\ Numbered
  BY DEF IdsInv
<1>1. ASSUME NEW m \in wire, m.sent.payload.request_id_ref # Absent
      PROVE  LET cited == m.sent.payload.request_id_ref
             IN  /\ \A r \in wire : r.sent.request_id = cited => r.call = m.call
                 /\ (\E r \in wire : /\ r.call = m.call /\ r.sent.payload.value = Absent
                                     /\ r.sent.request_id \in seen) => cited \in seen
  <2>1. PICK g \in Gates : \E p :
          isOf(m, g, p) /\ CarriesIds(m.sent, identityOf(hooks[hookAt(host, g)], p), fresh, seen)
    BY <1>0 DEF Traced
  <2>2. PICK p : isOf(m, g, p) /\ CarriesIds(m.sent, identityOf(hooks[hookAt(host, g)], p), fresh, seen)
    BY <2>1
  <2> DEFINE id == identityOf(hooks[hookAt(host, g)], p)
             cited == m.sent.payload.request_id_ref
  <2>3. cited = derivedOf(id) /\ id[2] # Absent
    BY <1>1, <2>2 DEF CarriesIds
  <2>4. ASSUME NEW r \in wire
        PROVE  /\ r.sent.request_id = cited => r.call = m.call
               /\ r.call = m.call /\ r.sent.payload.value = Absent /\ r.sent.request_id \in seen => cited \in seen
    <3>1. PICK h \in Gates : \E q :
            isOf(r, h, q) /\ CarriesIds(r.sent, identityOf(hooks[hookAt(host, h)], q), fresh, seen)
      BY <1>0 DEF Traced
    <3>2. PICK q : isOf(r, h, q) /\ CarriesIds(r.sent, identityOf(hooks[hookAt(host, h)], q), fresh, seen)
      BY <3>1
    <3> DEFINE jd == identityOf(hooks[hookAt(host, h)], q)
    <3>3. IF m.call = r.call THEN id = jd ELSE id[2] = Absent \/ id # jd
      BY <1>0, <2>2, <3>2, OneIdentity
    <3>4. derivedOf(id) = derivedOf(jd) => id = jd
      <4>1. id = <<id[1], id[2]>> /\ jd = <<jd[1], jd[2]>>
        BY DEF identityOf
      <4> HIDE DEF id, jd
      <4>2. derivedOf(id).derived = <<id[1], id[2]>>
        BY DEF derivedOf, toInvocationRequestId
      <4>3. derivedOf(jd).derived = <<jd[1], jd[2]>>
        BY DEF derivedOf, toInvocationRequestId
      <4> QED BY <4>1, <4>2, <4>3
    <3>5. CarriesIds(r.sent, jd, fresh, seen)
      BY <3>2
    <3> HIDE DEF id, jd, cited
    <3>a. \A k : random(k) # derivedOf(id)
      BY RandomIsNotDerived
    <3>6. CASE r.sent.request_id = cited
      BY <2>3, <3>3, <3>4, <3>5, <3>6, <3>a DEF CarriesIds, drawn
    <3>7. CASE r.call = m.call /\ r.sent.payload.value = Absent /\ r.sent.request_id \in seen
      BY <2>3, <3>3, <3>5, <3>7 DEF CarriesIds
    <3> QED BY <3>6, <3>7
  <2> QED BY <2>4
<1> QED BY <1>0, <1>1 DEF ResultCitesItsRequest, Numbered

(* A result that cites a request cites one of its own call, and one the     *)
(* Guardian has recorded if it has recorded any request of that call, and   *)
(* no two messages share their JSON-RPC id, however often a call is asked   *)
(* again or repeated and whatever is lost (toInvocationRequestId,           *)
(* buildEnvelope), where PayloadAssumption holds of the host's payloads.    *)
THEOREM ResultCitesItsRequestHolds == Spec => []ResultCitesItsRequest
BY IdsInit, IdsNext, IdsGive, PTL DEF Spec
------------------------------------------------------------------------------
(* What a fold comes to.  A rule's fields are placed one by one, and a       *)
(* document's edits are applied one by one: one step of either is advance.  *)

advance(kind, sofar, item, decision) ==
  IF kind = "place" THEN place(sofar, item, decision) ELSE setAtPath(sofar, item.path, item.value)

\* The recursion a fold is, over the sets of places that are left.
iterates(g, S, kind, base, items, decision) ==
  g = [s \in SUBSET S |->
         IF s = {} THEN base ELSE advance(kind, g[s \ {Max(s)}], items[Max(s)], decision)]

folded(kind, base, items, decision) ==
  (CHOOSE g : iterates(g, DOMAIN items, kind, base, items, decision))[DOMAIN items]

LEMMA RenderIsFolded ==
  ASSUME NEW rule, NEW decision
  PROVE  FoldLeft(LAMBDA output, field : place(output, field, decision), << >>, rule)
           = folded("place", << >>, rule, decision)
BY DEF FoldLeft, MapThenFoldSet, folded, iterates, advance

LEMMA SetAllIsFolded ==
  ASSUME NEW doc, NEW edits, NEW decision
  PROVE  setAll(doc, edits) = folded("set", doc, edits, decision)
BY DEF setAll, FoldLeft, MapThenFoldSet, folded, iterates, advance

LEMMA LeastOf ==
  ASSUME NEW S \in SUBSET Nat, S # {}
  PROVE  \E n \in S : \A m \in S : n <= m
<1> DEFINE Less == {ss \in Nat \X Nat : ss[1] < ss[2]}
<1>1. IsWellFoundedOn(Less, Nat)
  BY NatLessThanWellFounded DEF OpToRel
<1> HIDE DEF Less
<1>2. PICK n \in S : \A m \in S : ~(<<m, n>> \in Less)
  BY <1>1, WFMin
<1>3. \A m \in S : ~(m < n)
  BY <1>2 DEF Less
<1> QED BY <1>3

LEMMA LastOf ==
  ASSUME NEW n \in Nat, NEW S, n \in S, \A i \in S : i \in Nat /\ i <= n
  PROVE  Max(S) = n
<1>1. \A x \in S : (\A y \in S : x >= y) <=> x = n
  OBVIOUS
<1> QED BY <1>1 DEF Max

\* Such a recursion has a solution, place by place.
LEMMA IterateExists ==
  ASSUME NEW n \in Nat, NEW kind, NEW base, NEW items, NEW decision
  PROVE  \E g : iterates(g, 1..n, kind, base, items, decision)
<1> DEFINE has(k) == \E g : iterates(g, 1..k, kind, base, items, decision)
           bad == {k \in Nat : ~has(k)}
<1>1. ASSUME NEW k \in Nat, has(k) PROVE has(k + 1)
  <2>1. PICK g : iterates(g, 1..k, kind, base, items, decision)
    BY <1>1
  <2> DEFINE body(s, f) == IF s = {} THEN base ELSE advance(kind, f[s \ {Max(s)}], items[Max(s)], decision)
             h == [s \in SUBSET (1..(k + 1)) |->
                     IF k + 1 \in s THEN advance(kind, g[s \ {k + 1}], items[k + 1], decision) ELSE g[s]]
  <2>2. g = [s \in SUBSET (1..k) |-> body(s, g)]
    BY <2>1 DEF iterates
  <2>3. \A s \in SUBSET (1..(k + 1)) : k + 1 \notin s => s \in SUBSET (1..k)
    OBVIOUS
  <2>4. \A s \in SUBSET (1..(k + 1)) : s \ {k + 1} \in SUBSET (1..k)
    OBVIOUS
  <2>5. ASSUME NEW s \in SUBSET (1..(k + 1)) PROVE h[s] = body(s, h)
    <3>1. CASE k + 1 \in s
      <4>0. k + 1 \in Nat /\ \A i \in s : i \in Nat /\ i <= k + 1
        OBVIOUS
      <4>1. Max(s) = k + 1
        BY <3>1, <4>0, LastOf
      <4>2. s \ {k + 1} \in SUBSET (1..k) /\ k + 1 \notin s \ {k + 1} /\ s # {}
        BY <2>4, <3>1
      <4>3. s \ {k + 1} \in SUBSET (1..(k + 1))
        OBVIOUS
      <4>4. h[s \ {k + 1}] = g[s \ {k + 1}]
        BY <4>2, <4>3
      <4>5. h[s] = advance(kind, g[s \ {k + 1}], items[k + 1], decision)
        BY <3>1
      <4> HIDE DEF h
      <4> QED BY <4>1, <4>2, <4>4, <4>5
    <3>2. CASE k + 1 \notin s
      <4>1. s \in SUBSET (1..k)
        BY <2>3, <3>2
      <4>2. h[s] = g[s]
        BY <3>2
      <4>3. g[s] = body(s, g)
        <5> HIDE DEF body, h
        <5> QED BY <2>2, <4>1
      <4>4. CASE s = {}
        BY <4>2, <4>3, <4>4
      <4>5. CASE s # {}
        <5> DEFINE r == s \ {Max(s)}
        <5>1. r \in SUBSET (1..(k + 1)) /\ k + 1 \notin r
          BY <3>2
        <5>2. h[r] = g[r]
          <6> HIDE DEF r
          <6> QED BY <5>1
        <5> HIDE DEF h
        <5> QED BY <4>2, <4>3, <4>5, <5>2
      <4> QED BY <4>4, <4>5
    <3> QED BY <3>1, <3>2
  <2>6. h = [s \in SUBSET (1..(k + 1)) |-> body(s, h)]
    <3>1. DOMAIN h = SUBSET (1..(k + 1)) /\ h = [s \in SUBSET (1..(k + 1)) |-> h[s]]
      OBVIOUS
    <3> HIDE DEF h, body
    <3> QED BY <2>5, <3>1
  <2>7. iterates(h, 1..(k + 1), kind, base, items, decision)
    <3> HIDE DEF h
    <3> QED BY <2>6 DEF iterates
  <2> QED BY <2>7
<1>2. has(0)
  <2> DEFINE h == [s \in SUBSET (1..0) |-> base]
  <2>1. \A s \in SUBSET (1..0) : s = {}
    OBVIOUS
  <2>2. h = [s \in SUBSET (1..0) |->
               IF s = {} THEN base ELSE advance(kind, h[s \ {Max(s)}], items[Max(s)], decision)]
    BY <2>1
  <2> HIDE DEF h
  <2> QED BY <2>2 DEF iterates
<1> HIDE DEF has
<1>3. bad = {}
  <2> SUFFICES ASSUME bad # {} PROVE FALSE
    OBVIOUS
  <2>1. PICK k \in bad : \A m \in bad : k <= m
    BY LeastOf
  <2>2. k \in Nat /\ ~has(k) /\ k # 0
    BY <1>2
  <2>3. k - 1 \in Nat /\ k - 1 \notin bad
    BY <2>1, <2>2
  <2>4. has(k - 1) /\ k - 1 + 1 = k
    BY <2>2, <2>3
  <2> QED BY <1>1, <2>2, <2>3, <2>4
<1> QED BY <1>3 DEF has

\* A fold is the last of the documents it runs through.
runsTo(run, n, kind, base, items, decision) ==
  /\ run[0] = base /\ run[n] = folded(kind, base, items, decision)
  /\ \A k \in 1..n : run[k] = advance(kind, run[k - 1], items[k], decision)

LEMMA FoldedRuns ==
  ASSUME NEW kind, NEW base, NEW items, NEW decision, NEW n \in Nat, DOMAIN items = 1..n
  PROVE  \E run : runsTo(run, n, kind, base, items, decision)
<1> DEFINE g == CHOOSE f : iterates(f, DOMAIN items, kind, base, items, decision)
           run == [k \in 0..n |-> g[1..k]]
<1>1. iterates(g, 1..n, kind, base, items, decision)
  BY IterateExists
<1>2. g[1..n] = folded(kind, base, items, decision)
  BY DEF folded
<1> HIDE DEF g
<1>3. g = [s \in SUBSET (1..n) |->
             IF s = {} THEN base ELSE advance(kind, g[s \ {Max(s)}], items[Max(s)], decision)]
  BY <1>1 DEF iterates
<1>4. g[1..0] = base
  <2>1. 1..0 = {} /\ {} \in SUBSET (1..n)
    OBVIOUS
  <2> QED BY <1>3, <2>1
<1>5. ASSUME NEW k \in 1..n PROVE g[1..k] = advance(kind, g[1..(k - 1)], items[k], decision)
  <2>0. k \in Nat /\ k \in 1..k /\ \A i \in 1..k : i \in Nat /\ i <= k
    OBVIOUS
  <2>1. Max(1..k) = k
    BY <2>0, LastOf
  <2>2. 1..k \in SUBSET (1..n) /\ 1..k # {} /\ (1..k) \ {k} = 1..(k - 1)
    OBVIOUS
  <2> DEFINE s == 1..k
  <2>3. s \in SUBSET (1..n) /\ s # {} /\ Max(s) = k /\ s \ {k} = 1..(k - 1)
    BY <2>1, <2>2
  <2> HIDE DEF s
  <2>4. g[s] = advance(kind, g[s \ {Max(s)}], items[Max(s)], decision)
    BY <1>3, <2>3
  <2> QED BY <2>3, <2>4 DEF s
<1>6. /\ run[0] = base /\ run[n] = folded(kind, base, items, decision)
      /\ \A k \in 1..n : run[k] = advance(kind, run[k - 1], items[k], decision)
  <2>1. \A k \in 0..n : run[k] = g[1..k]
    OBVIOUS
  <2>2. 0 \in 0..n /\ n \in 0..n /\ \A k \in 1..n : k \in 0..n /\ k - 1 \in 0..n
    OBVIOUS
  <2> HIDE DEF run
  <2> QED BY <1>2, <1>4, <1>5, <2>1, <2>2
<1> HIDE DEF run
<1> QED BY <1>6 DEF runsTo

setsTo(run, n, doc, edits) ==
  /\ run[0] = doc /\ run[n] = setAll(doc, edits)
  /\ \A k \in 1..n : run[k] = setAtPath(run[k - 1], edits[k].path, edits[k].value)

LEMMA SetAllRuns ==
  ASSUME NEW doc, NEW edits, NEW n \in Nat, DOMAIN edits = 1..n
  PROVE  \E run : setsTo(run, n, doc, edits)
<1>0. PICK kind, none : kind = "set" /\ none = {}
  OBVIOUS
<1>1. PICK run : runsTo(run, n, kind, doc, edits, none)
  BY FoldedRuns
<1>2. setAll(doc, edits) = folded(kind, doc, edits, none)
  BY <1>0, SetAllIsFolded
<1>3. \A before, item : advance(kind, before, item, none) = setAtPath(before, item.path, item.value)
  BY <1>0 DEF advance
<1>4. setsTo(run, n, doc, edits)
  BY <1>1, <1>2, <1>3 DEF runsTo, setsTo
<1> QED BY <1>4

------------------------------------------------------------------------------
(* Paths and documents. *)

Path == Seq(STRING)

LEMMA PrefixPoints ==
  ASSUME NEW p \in Path, NEW q \in Path
  PROVE  IsPrefix(p, q) <=> Len(p) <= Len(q) /\ \A i \in 1..Len(p) : p[i] = q[i]
<1>0. Len(p) \in Nat /\ Len(q) \in Nat
  BY DEF Path
<1>1. SubSeq(p, 1, Len(p)) = p
  BY DEF Path
<1>2. CASE Len(p) <= Len(q)
  <2>1. SubSeq(q, 1, Len(p)) \in Seq(STRING) /\ Len(SubSeq(q, 1, Len(p))) = Len(p)
        /\ \A i \in 1..Len(p) : SubSeq(q, 1, Len(p))[i] = q[i]
    BY <1>0, <1>2 DEF Path
  <2> DEFINE r == SubSeq(q, 1, Len(p))
  <2>2. r \in Seq(STRING) /\ Len(r) = Len(p) /\ \A i \in 1..Len(p) : r[i] = q[i]
    BY <2>1
  <2>3. IsPrefix(p, q) <=> p = r
    BY <1>1, <1>2 DEF IsPrefix
  <2> HIDE DEF r
  <2>4. p = r <=> \A i \in 1..Len(p) : p[i] = r[i]
    BY <2>2, SeqEqual DEF Path
  <2> QED BY <1>2, <2>2, <2>3, <2>4
<1>3. CASE ~(Len(p) <= Len(q))
  BY <1>3 DEF IsPrefix
<1> QED BY <1>2, <1>3

LEMMA PrefixConcat ==
  ASSUME NEW p \in Path, NEW s \in Path
  PROVE  p \o s \in Path /\ IsPrefix(p, p \o s) /\ relative(p \o s, p) = s
<1>0. /\ p \o s \in Path /\ Len(p \o s) = Len(p) + Len(s) /\ Len(p) \in Nat /\ Len(s) \in Nat
      /\ \A i \in 1..Len(p) : (p \o s)[i] = p[i]
  BY ConcatProperties DEF Path
<1> DEFINE q == p \o s
           r == SubSeq(q, Len(p) + 1, Len(q))
<1>2. q \in Path /\ Len(q) = Len(p) + Len(s) /\ \A i \in 1..Len(s) : q[Len(p) + i] = s[i]
  BY <1>0, ConcatProperties DEF Path
<1>3. relative(p \o s, p) = r
  BY DEF relative
<1>a. q \in Path /\ Len(q) >= Len(p) /\ Len(p) \in Nat /\ \A i \in 1..Len(p) : q[i] = p[i]
  BY <1>0
<1> HIDE DEF q
<1>b. Len(p) <= Len(q) /\ \A i \in 1..Len(p) : p[i] = q[i]
  BY <1>2, <1>a DEF Path
<1>c. IsPrefix(p, q)
  BY <1>2, <1>b, PrefixPoints
<1>4. r \in Path /\ Len(r) = Len(s) /\ \A i \in 1..Len(s) : r[i] = q[Len(p) + i]
  BY <1>0, <1>2 DEF Path
<1> HIDE DEF r
<1>5. r = s
  BY <1>2, <1>4, SeqEqual DEF Path
<1> QED BY <1>0, <1>3, <1>5, <1>c DEF q

LEMMA PrefixSplits ==
  ASSUME NEW p \in Path, NEW q \in Path, IsPrefix(p, q)
  PROVE  relative(q, p) \in Path /\ p \o relative(q, p) = q
<1>0. Len(p) \in Nat /\ Len(q) \in Nat /\ Len(p) <= Len(q) /\ \A i \in 1..Len(p) : p[i] = q[i]
  BY PrefixPoints DEF Path
<1> DEFINE r == SubSeq(q, Len(p) + 1, Len(q))
<1>1. r \in Path /\ Len(r) = Len(q) - Len(p) /\ \A i \in 1..Len(r) : r[i] = q[Len(p) + i]
  BY <1>0 DEF Path
<1>2. r = relative(q, p)
  BY DEF relative
<1> HIDE DEF r
<1>3. /\ p \o r \in Path /\ Len(p \o r) = Len(q)
      /\ \A i \in 1..Len(p) : (p \o r)[i] = q[i]
      /\ \A i \in 1..Len(q) : i > Len(p) => (p \o r)[i] = q[i]
  <2>1. p \in Seq(STRING) /\ r \in Seq(STRING)
    BY <1>1 DEF Path
  <2>2. /\ p \o r \in Path /\ Len(p \o r) = Len(p) + Len(r)
        /\ \A i \in 1..Len(p) + Len(r) : (p \o r)[i] = IF i <= Len(p) THEN p[i] ELSE r[i - Len(p)]
    BY <2>1, ConcatProperties DEF Path
  <2>3. Len(p) + Len(r) = Len(q)
    BY <1>0, <1>1
  <2>4. \A i \in 1..Len(p) : (p \o r)[i] = q[i]
    BY <1>0, <2>2, <2>3
  <2>5. ASSUME NEW i \in 1..Len(q), i > Len(p) PROVE (p \o r)[i] = q[i]
    <3>1. (p \o r)[i] = r[i - Len(p)] /\ i - Len(p) \in 1..Len(r)
      BY <1>0, <1>1, <2>2, <2>3, <2>5
    <3>2. r[i - Len(p)] = q[Len(p) + (i - Len(p))] /\ Len(p) + (i - Len(p)) = i
      BY <1>0, <1>1, <3>1
    <3> QED BY <3>1, <3>2
  <2> QED BY <2>2, <2>3, <2>4, <2>5
<1> DEFINE w == p \o r
<1>4. w \in Path /\ Len(w) = Len(q) /\ \A i \in 1..Len(q) : w[i] = q[i]
  BY <1>0, <1>3
<1> HIDE DEF w
<1>5. w = q
  BY <1>4, SeqEqual DEF Path
<1> QED BY <1>1, <1>2, <1>5 DEF w

LEMMA PrefixOrder ==
  /\ \A p \in Path : IsPrefix(p, p)
  /\ \A p, q, r \in Path : IsPrefix(p, q) /\ IsPrefix(q, r) => IsPrefix(p, r)
  /\ \A p, q, r \in Path : IsPrefix(p, r) /\ IsPrefix(q, r) => IsPrefix(p, q) \/ IsPrefix(q, p)
  /\ \A p, q \in Path : IsPrefix(p, q) /\ IsPrefix(q, p) => p = q
<1>0. \A p \in Path : Len(p) \in Nat
  BY DEF Path
<1>1. \A p \in Path : IsPrefix(p, p)
  BY <1>0, PrefixPoints
<1>2. ASSUME NEW p \in Path, NEW q \in Path, NEW r \in Path, IsPrefix(p, q), IsPrefix(q, r)
      PROVE  IsPrefix(p, r)
  <2>1. Len(p) <= Len(q) /\ Len(q) <= Len(r) /\ \A i \in 1..Len(p) : p[i] = q[i] /\ i \in 1..Len(q)
    BY <1>0, <1>2, PrefixPoints
  <2>2. \A i \in 1..Len(q) : q[i] = r[i]
    BY <1>2, PrefixPoints
  <2> QED BY <1>0, <2>1, <2>2, PrefixPoints
<1>3. ASSUME NEW p \in Path, NEW q \in Path, NEW r \in Path, IsPrefix(p, r), IsPrefix(q, r)
      PROVE  IsPrefix(p, q) \/ IsPrefix(q, p)
  <2>1. /\ \A i \in 1..Len(p) : p[i] = r[i]
        /\ \A i \in 1..Len(q) : q[i] = r[i]
    BY <1>3, PrefixPoints
  <2>2. CASE Len(p) <= Len(q)
    BY <1>0, <2>1, <2>2, PrefixPoints
  <2>3. CASE Len(q) <= Len(p)
    BY <1>0, <2>1, <2>3, PrefixPoints
  <2> QED BY <1>0, <2>2, <2>3
<1>4. ASSUME NEW p \in Path, NEW q \in Path, IsPrefix(p, q), IsPrefix(q, p) PROVE p = q
  <2>1. Len(p) = Len(q) /\ \A i \in 1..Len(p) : p[i] = q[i]
    BY <1>0, <1>4, PrefixPoints
  <2> QED BY <2>1, SeqEqual DEF Path
<1> QED BY <1>1, <1>2, <1>3, <1>4

LEMMA ConcatPrefix ==
  ASSUME NEW p \in Path, NEW s \in Path, NEW t \in Path
  PROVE  IsPrefix(p \o s, p \o t) <=> IsPrefix(s, t)
<1>0. \A a, b, c \in Path : (a \o b) \o c = a \o (b \o c)
  BY ConcatAssociative DEF Path
<1>1. ASSUME IsPrefix(s, t) PROVE IsPrefix(p \o s, p \o t)
  <2>1. PICK u \in Path : t = s \o u
    BY <1>1, PrefixSplits
  <2>2. p \o t = (p \o s) \o u
    BY <1>0, <2>1
  <2> DEFINE w == p \o s
  <2>3. w \in Path
    BY PrefixConcat
  <2> HIDE DEF w
  <2>4. IsPrefix(w, w \o u)
    BY <2>3, PrefixConcat
  <2> QED BY <2>2, <2>4 DEF w
<1>2. ASSUME IsPrefix(p \o s, p \o t) PROVE IsPrefix(s, t)
  <2>1. p \o s \in Path /\ p \o t \in Path
    BY PrefixConcat
  <2>2. PICK u \in Path : p \o t = (p \o s) \o u
    <3> DEFINE w == p \o s
               x == p \o t
    <3>1. w \in Path /\ x \in Path /\ IsPrefix(w, x)
      BY <1>2, <2>1
    <3> HIDE DEF w, x
    <3>2. relative(x, w) \in Path /\ w \o relative(x, w) = x
      BY <3>1, PrefixSplits
    <3> QED BY <3>2 DEF w, x
  <2> DEFINE y == s \o u
  <2>3. y \in Path /\ IsPrefix(s, y)
    BY PrefixConcat
  <2>4. (p \o s) \o u = p \o y
    BY <1>0
  <2> HIDE DEF y
  <2>5. relative(p \o t, p) = t
    BY PrefixConcat
  <2>6. relative(p \o y, p) = y
    BY <2>3, PrefixConcat
  <2>7. t = y
    BY <2>2, <2>4, <2>5, <2>6
  <2> QED BY <2>3, <2>7
<1> QED BY <1>1, <1>2

LEMMA ResolveIs ==
  ASSUME NEW doc, isDocument(doc), NEW p \in Path
  PROVE  /\ isDocument(resolve(doc, p))
         /\ \A s : s \in DOMAIN resolve(doc, p) <=> s \in Path /\ p \o s \in DOMAIN doc
         /\ \A s \in DOMAIN resolve(doc, p) : resolve(doc, p)[s] = doc[p \o s]
<1> DEFINE S == {relative(q, p) : q \in {r \in DOMAIN doc : IsPrefix(p, r)}}
           f == [s \in S |-> doc[p \o s]]
<1>1. resolve(doc, p) = f
  BY DEF resolve
<1>2. DOMAIN doc \subseteq Path
  BY DEF isDocument, Path
<1>3. ASSUME NEW s PROVE s \in S <=> s \in Path /\ p \o s \in DOMAIN doc
  <2>1. ASSUME s \in S PROVE s \in Path /\ p \o s \in DOMAIN doc
    <3>1. PICK q \in DOMAIN doc : IsPrefix(p, q) /\ s = relative(q, p)
      BY <2>1
    <3> QED BY <1>2, <3>1, PrefixSplits
  <2>2. ASSUME s \in Path, p \o s \in DOMAIN doc PROVE s \in S
    <3>1. IsPrefix(p, p \o s) /\ relative(p \o s, p) = s
      BY <2>2, PrefixConcat
    <3> QED BY <2>2, <3>1
  <2> QED BY <2>1, <2>2
<1> HIDE DEF S
<1>4. DOMAIN f = S /\ \A s \in S : f[s] = doc[p \o s]
  OBVIOUS
<1>5. f = [s \in DOMAIN f |-> f[s]]
  OBVIOUS
<1> HIDE DEF f
<1>6. isDocument(f)
  <2>1. ASSUME NEW s \in S, NEW t \in S, IsPrefix(s, t) PROVE s = t
    <3>1. s \in Path /\ t \in Path /\ p \o s \in DOMAIN doc /\ p \o t \in DOMAIN doc
      BY <1>3
    <3>2. IsPrefix(p \o s, p \o t)
      BY <2>1, <3>1, ConcatPrefix
    <3>3. p \o s = p \o t
      BY <3>1, <3>2 DEF isDocument
    <3>4. relative(p \o s, p) = s /\ relative(p \o t, p) = t
      BY <3>1, PrefixConcat
    <3> QED BY <3>3, <3>4
  <2> QED BY <1>3, <1>4, <1>5, <2>1 DEF isDocument, Path
<1> QED BY <1>1, <1>3, <1>4, <1>6

\* A value put at a path is what is found there, and what it does not
\* overlap stays as it was.
puts(doc, p, v, new) ==
  /\ isDocument(new)
  /\ \A q \in DOMAIN doc : ~Overlap(p, q) => q \in DOMAIN new /\ new[q] = doc[q]
  /\ \A s \in DOMAIN v : s \in Path /\ p \o s \in DOMAIN new /\ new[p \o s] = v[s]
  /\ \A q \in DOMAIN new : (q \in DOMAIN doc /\ ~Overlap(p, q)) \/ \E s \in DOMAIN v : q = p \o s
  /\ resolve(new, p) = v

LEMMA SetAtPathIs ==
  ASSUME NEW doc, isDocument(doc), NEW v, isDocument(v), NEW p \in Path
  PROVE  puts(doc, p, v, setAtPath(doc, p, v))
<1> DEFINE kept == {q \in DOMAIN doc : ~Overlap(p, q)}
           D == kept \cup {p \o s : s \in DOMAIN v}
           new == [q \in D |-> IF q \in kept THEN doc[q] ELSE v[relative(q, p)]]
<1>1. setAtPath(doc, p, v) = new
  BY DEF setAtPath
<1>2. DOMAIN doc \subseteq Path /\ DOMAIN v \subseteq Path /\ v = [s \in DOMAIN v |-> v[s]]
  BY DEF isDocument, Path
<1>3. \A s \in DOMAIN v : p \o s \in Path /\ IsPrefix(p, p \o s) /\ relative(p \o s, p) = s /\ p \o s \notin kept
  <2> SUFFICES ASSUME NEW s \in DOMAIN v
               PROVE  p \o s \in Path /\ IsPrefix(p, p \o s) /\ relative(p \o s, p) = s /\ p \o s \notin kept
    OBVIOUS
  <2>1. p \o s \in Path /\ IsPrefix(p, p \o s) /\ relative(p \o s, p) = s
    BY <1>2, PrefixConcat
  <2> QED BY <2>1 DEF Overlap
<1>4. \A q \in kept : q \in DOMAIN doc /\ q \in Path /\ ~Overlap(p, q)
  BY <1>2
<1>5. \A q \in DOMAIN doc : ~Overlap(p, q) => q \in kept
  OBVIOUS
<1>6. /\ \A q \in D : q \in kept \/ \E s \in DOMAIN v : q = p \o s
      /\ \A q \in kept : q \in D
      /\ \A s \in DOMAIN v : p \o s \in D
  OBVIOUS
<1> HIDE DEF kept, D
<1>7. DOMAIN new = D /\ new = [q \in DOMAIN new |-> new[q]]
  OBVIOUS
<1>8. \A q \in kept : new[q] = doc[q]
  BY <1>6
<1>9. \A s \in DOMAIN v : new[p \o s] = v[s]
  BY <1>3, <1>6
<1> HIDE DEF new
<1>10. isDocument(new)
  <2>1. D \subseteq Path
    BY <1>3, <1>4, <1>6
  <2>2. ASSUME NEW q \in D, NEW r \in D, IsPrefix(q, r) PROVE q = r
    <3>1. CASE q \in kept /\ r \in kept
      BY <1>4, <2>2, <3>1 DEF isDocument
    <3>2. ASSUME NEW s \in DOMAIN v, q \in kept, r = p \o s PROVE FALSE
      <4>1. IsPrefix(q, r) /\ IsPrefix(p, r) /\ q \in Path /\ r \in Path
        BY <1>3, <1>4, <2>2, <3>2
      <4>2. IsPrefix(p, q) \/ IsPrefix(q, p)
        BY <4>1, PrefixOrder
      <4> QED BY <1>4, <3>2, <4>2 DEF Overlap
    <3>3. ASSUME NEW s \in DOMAIN v, r \in kept, q = p \o s PROVE FALSE
      <4>1. IsPrefix(p, q) /\ IsPrefix(q, r) /\ q \in Path /\ r \in Path
        BY <1>3, <1>4, <2>2, <3>3
      <4>2. IsPrefix(p, r)
        BY <4>1, PrefixOrder
      <4> QED BY <1>4, <3>3, <4>2 DEF Overlap
    <3>4. ASSUME NEW s \in DOMAIN v, NEW t \in DOMAIN v, q = p \o s, r = p \o t PROVE q = r
      <4>1. s \in Path /\ t \in Path
        BY <1>2
      <4>2. IsPrefix(s, t)
        BY <2>2, <3>4, <4>1, ConcatPrefix
      <4>3. s = t
        BY <4>2 DEF isDocument
      <4> QED BY <3>4, <4>3
    <3> QED BY <1>6, <3>1, <3>2, <3>3, <3>4
  <2> QED BY <1>7, <2>1, <2>2 DEF isDocument, Path
<1>11. resolve(new, p) = v
  <2> DEFINE r == resolve(new, p)
  <2>1. /\ isDocument(r) /\ \A s : s \in DOMAIN r <=> s \in Path /\ p \o s \in DOMAIN new
        /\ \A s \in DOMAIN r : r[s] = new[p \o s]
    BY <1>10, ResolveIs
  <2> HIDE DEF r
  <2>2. ASSUME NEW s \in DOMAIN r PROVE s \in DOMAIN v
    <3>1. s \in Path /\ p \o s \in D
      BY <1>7, <2>1
    <3>2. p \o s \notin kept
      BY <1>4, <3>1, PrefixConcat DEF Overlap
    <3>3. PICK t \in DOMAIN v : p \o s = p \o t
      BY <1>6, <3>1, <3>2
    <3>4. relative(p \o s, p) = s /\ relative(p \o t, p) = t
      BY <1>3, <3>1, PrefixConcat
    <3> QED BY <3>3, <3>4
  <2>3. \A s \in DOMAIN v : s \in DOMAIN r
    BY <1>2, <1>6, <1>7, <2>1
  <2>4. DOMAIN r = DOMAIN v
    BY <2>2, <2>3
  <2>5. \A s \in DOMAIN v : r[s] = v[s]
    BY <1>9, <2>1, <2>4
  <2>6. r = [s \in DOMAIN r |-> r[s]]
    BY <2>1 DEF isDocument
  <2>7. r = v
    BY <1>2, <2>4, <2>5, <2>6
  <2> QED BY <2>7 DEF r
<1> QED
  <2>1. \A q \in DOMAIN doc : ~Overlap(p, q) => q \in DOMAIN new /\ new[q] = doc[q]
    BY <1>5, <1>6, <1>7, <1>8
  <2>2. \A s \in DOMAIN v : s \in Path /\ p \o s \in DOMAIN new /\ new[p \o s] = v[s]
    BY <1>2, <1>6, <1>7, <1>9
  <2>3. \A q \in DOMAIN new : (q \in DOMAIN doc /\ ~Overlap(p, q)) \/ \E s \in DOMAIN v : q = p \o s
    BY <1>4, <1>6, <1>7
  <2>4. puts(doc, p, v, new)
    BY <1>10, <1>11, <2>1, <2>2, <2>3 DEF puts
  <2> QED BY <1>1, <2>4

------------------------------------------------------------------------------
(* What rendering a decision comes to: every field its rule declares and the *)
(* decision carries is where the rule puts it, and nothing else is there.    *)

wellRuled(rule) ==
  /\ Len(rule) \in Nat /\ DOMAIN rule = 1..Len(rule)
  /\ \A i \in DOMAIN rule :
       /\ rule[i].path \in Path \ {<<>>}
       /\ rule[i].value # Absent => isDocument(rule[i].value) /\ DOMAIN rule[i].value # {}
       /\ rule[i].value = Absent => rule[i].from \in Renderable

carriesDocuments(decision) ==
  \A f \in Renderable : f \in DOMAIN decision => decision[f] = Absent \/ isDocument(decision[f])

\* Where a field puts what the decision carries, and what it puts there.
isPlacedBy(field, decision, q) ==
  carried(field, decision) # Absent /\ \E s \in DOMAIN carried(field, decision) : q = field.path \o s

fieldsPlaced(output, rule, decision, k) ==
  /\ isDocument(output)
  /\ \A i \in 1..k : carried(rule[i], decision) # Absent =>
       \A s \in DOMAIN carried(rule[i], decision) :
         /\ rule[i].path \o s \in DOMAIN output
         /\ output[rule[i].path \o s] = carried(rule[i], decision)[s]
  /\ \A q \in DOMAIN output : \E i \in 1..k : isPlacedBy(rule[i], decision, q)
  \* Nothing is placed where an earlier field has left something.
  /\ \A m \in 1..k : carried(rule[m], decision) # Absent =>
       \A e \in 1..(m - 1), q \in DOMAIN output : isPlacedBy(rule[e], decision, q) => ~IsPrefix(rule[m].path, q)

LEMMA CarriedIs ==
  ASSUME NEW rule, wellRuled(rule), NEW decision, carriesDocuments(decision), NEW i \in 1..Len(rule)
  PROVE  /\ carried(rule[i], decision) = Absent \/ isDocument(carried(rule[i], decision))
         /\ rule[i].value # Absent => carried(rule[i], decision) = rule[i].value
<1>1. i \in DOMAIN rule
  BY DEF wellRuled
<1>2. rule[i].value # Absent => isDocument(rule[i].value)
  BY <1>1 DEF wellRuled
<1>3. rule[i].value = Absent => rule[i].from \in Renderable
  BY <1>1 DEF wellRuled
<1>4. rule[i].from \in Renderable /\ rule[i].from \in DOMAIN decision =>
        decision[rule[i].from] = Absent \/ isDocument(decision[rule[i].from])
  BY DEF carriesDocuments
<1> QED BY <1>2, <1>3, <1>4 DEF carried

LEMMA PlacePlaces ==
  ASSUME NEW rule, wellRuled(rule), NEW decision, carriesDocuments(decision), NEW k \in 1..Len(rule),
         NEW output, fieldsPlaced(output, rule, decision, k - 1), place(output, rule[k], decision) # Throws
  PROVE  fieldsPlaced(place(output, rule[k], decision), rule, decision, k)
<1> DEFINE p == rule[k].path
           v == carried(rule[k], decision)
           new == place(output, rule[k], decision)
<1>0. k \in Nat /\ k \in DOMAIN rule /\ \A i \in 1..k : i \in 1..(k - 1) \/ i = k
  BY DEF wellRuled
<1>1. p \in Path /\ (v = Absent \/ isDocument(v))
  BY <1>0, CarriedIs DEF wellRuled
<1>2. isDocument(output)
  BY DEF fieldsPlaced
<1>3. \A i \in 1..(k - 1) : carried(rule[i], decision) # Absent =>
        \A s \in DOMAIN carried(rule[i], decision) :
          /\ rule[i].path \o s \in DOMAIN output
          /\ output[rule[i].path \o s] = carried(rule[i], decision)[s]
  BY DEF fieldsPlaced
<1>4. \A q \in DOMAIN output : \E i \in 1..(k - 1) : isPlacedBy(rule[i], decision, q)
  BY DEF fieldsPlaced
<1>4a. \A m \in 1..(k - 1) : carried(rule[m], decision) # Absent =>
         \A e \in 1..(m - 1), q \in DOMAIN output : isPlacedBy(rule[e], decision, q) => ~IsPrefix(rule[m].path, q)
  BY DEF fieldsPlaced
<1>5. CASE v = Absent
  <2>1. new = output
    BY <1>5 DEF place
  <2>2. \A i \in 1..(k - 1) : i \in 1..k
    BY <1>0
  <2> HIDE DEF new
  <2>3. \A i \in 1..k : carried(rule[i], decision) # Absent => i \in 1..(k - 1)
    BY <1>0, <1>5
  <2>4. \A q \in DOMAIN output : \E i \in 1..k : isPlacedBy(rule[i], decision, q)
    BY <1>4, <2>2
  <2>5. \A m \in 1..k : carried(rule[m], decision) # Absent =>
          \A e \in 1..(m - 1), q \in DOMAIN output : isPlacedBy(rule[e], decision, q) => ~IsPrefix(rule[m].path, q)
    BY <1>4a, <2>3
  <2> QED BY <1>2, <1>3, <2>1, <2>3, <2>4, <2>5 DEF fieldsPlaced, new
<1>6. CASE v # Absent
  <2>1. /\ output # Throws /\ ~Present(output, p) /\ ~\E q \in DOMAIN output : IsStrictPrefix(q, p)
        /\ new = setAtPath(output, p, v)
    BY <1>6 DEF place
  <2>2. \A q \in DOMAIN output : ~Overlap(p, q) /\ ~IsPrefix(p, q)
    <3>1. \A q \in DOMAIN output : ~IsPrefix(p, q)
      BY <2>1 DEF Present
    <3>2. \A q \in DOMAIN output : IsPrefix(q, p) => q = p
      BY <2>1 DEF IsStrictPrefix
    <3>3. IsPrefix(p, p)
      BY <1>1, PrefixOrder
    <3> QED BY <3>1, <3>2, <3>3 DEF Overlap
  <2> HIDE DEF new, v, p
  <2>3. /\ isDocument(new)
        /\ \A q \in DOMAIN output : q \in DOMAIN new /\ new[q] = output[q]
        /\ \A s \in DOMAIN v : s \in Path /\ p \o s \in DOMAIN new /\ new[p \o s] = v[s]
        /\ \A q \in DOMAIN new : q \in DOMAIN output \/ \E s \in DOMAIN v : q = p \o s
    <3>1. p \in Path /\ isDocument(v)
      BY <1>1, <1>6
    <3>2. puts(output, p, v, new)
      BY <1>2, <2>1, <3>1, SetAtPathIs
    <3> QED BY <2>2, <3>2 DEF puts
  <2>4. ASSUME NEW i \in 1..k, carried(rule[i], decision) # Absent, NEW s \in DOMAIN carried(rule[i], decision)
        PROVE  /\ rule[i].path \o s \in DOMAIN new
               /\ new[rule[i].path \o s] = carried(rule[i], decision)[s]
    <3>1. CASE i = k
      BY <2>3, <2>4, <3>1 DEF v, p
    <3>2. CASE i \in 1..(k - 1)
      <4>1. /\ rule[i].path \o s \in DOMAIN output
            /\ output[rule[i].path \o s] = carried(rule[i], decision)[s]
        BY <1>3, <2>4, <3>2
      <4> QED BY <2>3, <4>1
    <3> QED BY <1>0, <3>1, <3>2
  <2>5. ASSUME NEW q \in DOMAIN new
        PROVE  \E i \in 1..k : isPlacedBy(rule[i], decision, q)
    <3>1. CASE q \in DOMAIN output
      <4>1. PICK i \in 1..(k - 1) : isPlacedBy(rule[i], decision, q)
        BY <1>4, <3>1
      <4>2. i \in 1..k
        BY <1>0
      <4> QED BY <4>1, <4>2
    <3>2. CASE \E s \in DOMAIN v : q = p \o s
      <4>1. k \in 1..k
        BY <1>0
      <4>2. carried(rule[k], decision) # Absent
        BY <1>6 DEF v
      <4>3. PICK s \in DOMAIN carried(rule[k], decision) : q = rule[k].path \o s
        BY <3>2 DEF v, p
      <4> QED BY <4>1, <4>2, <4>3 DEF isPlacedBy
    <3> QED BY <2>3, <3>1, <3>2
  <2>6. ASSUME NEW e \in 1..(k - 1), NEW q, isPlacedBy(rule[e], decision, q)
        PROVE  q \in DOMAIN output
    BY <1>3, <2>6 DEF isPlacedBy
  <2>7. ASSUME NEW m \in 1..k, carried(rule[m], decision) # Absent,
               NEW e \in 1..(m - 1), NEW q \in DOMAIN new, isPlacedBy(rule[e], decision, q)
        PROVE  ~IsPrefix(rule[m].path, q)
    <3>1. e \in 1..(k - 1)
      BY <1>0
    <3>2. q \in DOMAIN output
      BY <2>6, <2>7, <3>1
    <3>3. CASE m = k
      BY <2>2, <3>2, <3>3 DEF p
    <3>4. CASE m \in 1..(k - 1)
      BY <1>4a, <2>7, <3>2, <3>4
    <3> QED BY <1>0, <3>3, <3>4
  <2> QED BY <2>3, <2>4, <2>5, <2>7 DEF fieldsPlaced, new
<1> QED BY <1>5, <1>6

LEMMA Rendered ==
  ASSUME NEW rules, NEW decision, carriesDocuments(decision),
         \A name \in DOMAIN rules : wellRuled(rules[name])
  PROVE  LET output == renderDecision(rules, decision)
             rule == rules[decision.decision]
         IN  output = Throws \/ /\ decision.decision \in DOMAIN rules /\ decision # Throws
                                /\ fieldsPlaced(output, rule, decision, Len(rule))
<1> DEFINE rule == rules[decision.decision]
           n == Len(rule)
<1>1. CASE decision = Throws \/ decision.decision \notin DOMAIN rules
  BY <1>1 DEF renderDecision
<1>2. CASE ~(decision = Throws \/ decision.decision \notin DOMAIN rules)
  <2>1. renderDecision(rules, decision)
          = FoldLeft(LAMBDA output, field : place(output, field, decision), << >>, rule)
    BY <1>2 DEF renderDecision
  <2>2. wellRuled(rule)
    BY <1>2
  <2> HIDE DEF rule
  <2>3. n \in Nat /\ DOMAIN rule = 1..n
    BY <2>2 DEF wellRuled
  <2>4. renderDecision(rules, decision) = folded("place", << >>, rule, decision)
    BY <2>1, RenderIsFolded
  <2> HIDE DEF n
  <2>5. PICK run : /\ run[0] = << >> /\ run[n] = folded("place", << >>, rule, decision)
                   /\ \A k \in 1..n : run[k] = advance("place", run[k - 1], rule[k], decision)
    BY <2>3, FoldedRuns DEF runsTo
  <2>6. \A k \in 1..n : run[k] = place(run[k - 1], rule[k], decision)
    BY <2>5 DEF advance
  <2> DEFINE good(k) == run[k] = Throws \/ fieldsPlaced(run[k], rule, decision, k)
             bad == {k \in 0..n : ~good(k)}
  <2>7. good(0)
    <3>1. isDocument(<< >>)
      BY DEF isDocument
    <3>2. DOMAIN << >> = {}
      OBVIOUS
    <3> QED BY <2>5, <3>1, <3>2 DEF fieldsPlaced
  <2>8. ASSUME NEW k \in 1..n, good(k - 1) PROVE good(k)
    <3>1. run[k] = place(run[k - 1], rule[k], decision)
      BY <2>6
    <3>2. run[k] # Throws => run[k - 1] # Throws
      BY <3>1 DEF place
    <3> QED BY <2>2, <2>8, <3>1, <3>2, PlacePlaces DEF n
  <2> HIDE DEF good
  <2>9. bad = {}
    <3> SUFFICES ASSUME bad # {} PROVE FALSE
      OBVIOUS
    <3>1. PICK k \in bad : \A m \in bad : k <= m
      <4>1. bad \in SUBSET Nat
        BY <2>3
      <4> HIDE DEF bad
      <4> QED BY <4>1, LeastOf
    <3>2. k \in 0..n /\ ~good(k) /\ k # 0
      BY <2>7
    <3>3. k \in 1..n /\ k - 1 \in 0..n /\ k - 1 \notin bad
      BY <2>3, <3>1, <3>2
    <3> QED BY <2>8, <3>2, <3>3
  <2>10. good(n)
    BY <2>3, <2>9
  <2> QED BY <1>2, <2>4, <2>5, <2>10 DEF good, rule, n
<1> QED BY <1>1, <1>2

------------------------------------------------------------------------------
(* Steps that end in a refusal. *)

isDecision(decision) == DOMAIN decision = DOMAIN decisionOf("allow") /\ carriesDocuments(decision)

LEMMA StrIsDocument ==
  ASSUME NEW text
  PROVE  isDocument(Str(text)) /\ DOMAIN Str(text) = {<<>>}
<1>1. DOMAIN Str(text) = {<<>>} /\ <<>> \in Seq(STRING)
  BY DEF Str, Leaf
<1>2. Str(text) = [p \in DOMAIN Str(text) |-> Str(text)[p]]
  BY DEF Str, Leaf
<1> QED BY <1>1, <1>2 DEF isDocument

LEMMA DecisionFields ==
  ASSUME NEW name
  PROVE  /\ decisionOf(name).decision = name
         /\ DOMAIN decisionOf(name) = DOMAIN decisionOf("allow")
         /\ {"decision", "applied_input", "applied_output", "reasoning"} \subseteq DOMAIN decisionOf(name)
         /\ isDecision(decisionOf(name))
<1>1. /\ decisionOf(name).decision = name
      /\ DOMAIN decisionOf(name) = DOMAIN decisionOf("allow")
      /\ {"decision", "applied_input", "applied_output", "reasoning"} \subseteq DOMAIN decisionOf(name)
  BY DEF decisionOf
<1>2. \A f \in Renderable : decisionOf(name)[f] = Absent
  BY DEF decisionOf, Renderable
<1> QED BY <1>1, <1>2 DEF isDecision, carriesDocuments

\* A decision with one of its documents replaced is one.
LEMMA DecisionWith ==
  ASSUME NEW decision, isDecision(decision), NEW field \in Renderable, NEW doc, doc = Absent \/ isDocument(doc)
  PROVE  /\ isDecision([decision EXCEPT ![field] = doc])
         /\ [decision EXCEPT ![field] = doc].decision = decision.decision
<1>1. /\ DOMAIN decision = DOMAIN decisionOf("allow") /\ carriesDocuments(decision)
      /\ "decision" \in DOMAIN decision /\ field # "decision"
  BY DecisionFields DEF isDecision, Renderable
<1> DEFINE d == [decision EXCEPT ![field] = doc]
<1>2. /\ DOMAIN d = DOMAIN decision /\ d.decision = decision.decision
      /\ \A f \in DOMAIN decision : d[f] = IF f = field THEN doc ELSE decision[f]
  BY <1>1
<1> HIDE DEF d
<1>3. carriesDocuments(d)
  BY <1>1, <1>2 DEF carriesDocuments
<1> QED BY <1>1, <1>2, <1>3 DEF isDecision, d

LEMMA DenyIsDecision ==
  ASSUME NEW kind
  PROVE  isDecision(deny(kind)) /\ deny(kind).decision = "deny"
<1>1. isDecision(decisionOf("deny")) /\ decisionOf("deny").decision = "deny" /\ "reasoning" \in Renderable
  BY DecisionFields DEF Renderable
<1>2. isDocument(Str(kind))
  BY StrIsDocument
<1>3. deny(kind) = [decisionOf("deny") EXCEPT !["reasoning"] = Str(kind)]
  BY DEF deny
<1> QED BY <1>1, <1>2, <1>3, DecisionWith

LEMMA PostureIsDecision ==
  ASSUME NEW posture \in postures
  PROVE  isDecision(posture) /\ posture.decision \in {"allow", "deny"}
<1>1. PICK name \in {"allow", "deny"} : posture = [decisionOf(name) EXCEPT !["reasoning"] = Str("no decision")]
  BY DEF postures
<1>2. isDecision(decisionOf(name)) /\ decisionOf(name).decision = name /\ "reasoning" \in Renderable
  BY DecisionFields DEF Renderable
<1>3. isDocument(Str("no decision"))
  BY StrIsDocument
<1> QED BY <1>1, <1>2, <1>3, DecisionWith

LEMMA ResolvedIsDecision ==
  ASSUME NEW gate \in Gates, NEW decision \in Decisions[gate], NEW document, NEW location
  PROVE  /\ isDecision(decision)
         /\ LET resolved == resolveModify(decision, document, location)
            IN  \/ resolved = deny("modifications_invalid")
                \/ resolved.decision = decision.decision /\ applyModifications(document, decision.modifications) # Throws
<1>1. isDecision(decision)
  BY DecisionAssumption DEF isDecision, carriesDocuments
<1>2. "decision" \in DOMAIN decision
  BY <1>1, DecisionFields DEF isDecision
<1> DEFINE applied == applyModifications(document, decision.modifications)
           output == IF applied = Throws \/ location = Absent THEN Throws
                     ELSE projectAppliedOutput(applied, document, location)
<1>3. \/ resolveModify(decision, document, location) = deny("modifications_invalid")
      \/ applied # Throws /\ resolveModify(decision, document, location) = [decision EXCEPT !.applied_input = applied]
      \/ applied # Throws /\ resolveModify(decision, document, location) = [decision EXCEPT !.applied_output = output]
  BY DEF resolveModify
<1> HIDE DEF applied, output
<1>4. /\ [decision EXCEPT !.applied_input = applied].decision = decision.decision
      /\ [decision EXCEPT !.applied_output = output].decision = decision.decision
  BY <1>2
<1> QED BY <1>1, <1>3, <1>4 DEF applied

LEMMA DeployedRules ==
  ASSUME Deployed
  PROVE  /\ host \in Hosts /\ \A gate \in Gates : hookAt(host, gate) \in DOMAIN hooks
         /\ \A h \in DOMAIN hooks : \A name \in DOMAIN hooks[h].decisions : wellRuled(hooks[h].decisions[name])
<1>1. PICK d \in Hookmaps : accepts(d) /\ host = d.host /\ hooks = d.hooks
  BY DEF Deployed
<1>2. host \in Hosts /\ \A gate \in Gates : hookAt(host, gate) \in DOMAIN hooks
  BY <1>1, CallAssumption
<1>3. assertRenderableDecisions(hooks)
  BY <1>1 DEF accepts, loadHookmap
<1>4. d \in {e \in Hookmaps : accepts(e)}
  BY <1>1
<1>5. ASSUME NEW h \in DOMAIN hooks, NEW name \in DOMAIN hooks[h].decisions
      PROVE  wellRuled(hooks[h].decisions[name])
  <2> DEFINE rule == hooks[h].decisions[name]
  <2>1. /\ Len(rule) \in Nat /\ DOMAIN rule = 1..Len(rule)
        /\ \A i \in DOMAIN rule :
             /\ rule[i].path \in Seq(STRING) \ {<<>>}
             /\ rule[i].from \in {Absent} \cup Renderable
             /\ rule[i].value # Absent => isDocument(rule[i].value) /\ DOMAIN rule[i].value # {}
    BY <1>1, <1>4, DeploymentAssumption
  <2>2. \A i \in DOMAIN rule : rule[i].value # Absent \/ rule[i].from # Absent
    BY <1>3 DEF assertRenderableDecisions
  <2> HIDE DEF rule
  <2>3. wellRuled(rule)
    BY <2>1, <2>2 DEF wellRuled, Path
  <2> QED BY <2>3 DEF rule
<1> QED BY <1>2, <1>3, <1>5

\* Documents stay documents under a sequence of edits.
editsOK(edits) ==
  /\ Len(edits) \in Nat /\ DOMAIN edits = 1..Len(edits)
  /\ \A i \in DOMAIN edits : edits[i].path \in Path /\ isDocument(edits[i].value)

LEMMA SetAllIsDocument ==
  ASSUME NEW doc, isDocument(doc), NEW edits, editsOK(edits)
  PROVE  isDocument(setAll(doc, edits))
<1> DEFINE n == Len(edits)
<1>1. n \in Nat /\ DOMAIN edits = 1..n /\ \A i \in 1..n : edits[i].path \in Path /\ isDocument(edits[i].value)
  BY DEF editsOK
<1> HIDE DEF n
<1>2. PICK run : setsTo(run, n, doc, edits)
  BY <1>1, SetAllRuns
<1>3. /\ run[0] = doc /\ run[n] = setAll(doc, edits)
      /\ \A k \in 1..n : run[k] = setAtPath(run[k - 1], edits[k].path, edits[k].value)
  BY <1>2 DEF setsTo
<1> DEFINE bad == {k \in 0..n : ~isDocument(run[k])}
<1>4. bad = {}
  <2> SUFFICES ASSUME bad # {} PROVE FALSE
    OBVIOUS
  <2>1. PICK k \in bad : \A m \in bad : k <= m
    <3>1. bad \in SUBSET Nat
      BY <1>1
    <3> HIDE DEF bad
    <3> QED BY <3>1, LeastOf
  <2>2. k \in 1..n /\ ~isDocument(run[k])
    BY <1>3
  <2>3. k - 1 \in 0..n /\ k - 1 \notin bad
    BY <1>1, <2>1, <2>2
  <2>4. isDocument(run[k - 1])
    BY <2>3
  <2>5. puts(run[k - 1], edits[k].path, edits[k].value, setAtPath(run[k - 1], edits[k].path, edits[k].value))
    BY <1>1, <2>2, <2>4, SetAtPathIs
  <2> QED BY <1>3, <2>2, <2>5 DEF puts
<1>5. isDocument(run[n])
  BY <1>1, <1>4
<1> QED BY <1>3, <1>5

\* The places a location names.
locates(location) ==
  /\ isDocument(location.payload)
  /\ location.outputs.from \in Path /\ location.outputs.within \in Path /\ location.outputs.mirrors \in Seq(Path)

fieldsOf(outputs) == <<outputs.from>> \o outputs.mirrors

LEMMA FieldsAre ==
  ASSUME NEW location, locates(location)
  PROVE  LET fields == fieldsOf(location.outputs)
             mirrors == location.outputs.mirrors
         IN  /\ fields \in Seq(Path) /\ Len(fields) = Len(mirrors) + 1 /\ Len(mirrors) \in Nat
             /\ DOMAIN fields = 1..Len(fields) /\ fields[1] = location.outputs.from
             /\ \A i \in DOMAIN mirrors : i + 1 \in DOMAIN fields /\ fields[i + 1] = mirrors[i]
             /\ \A i \in DOMAIN fields : i = 1 \/ i - 1 \in DOMAIN mirrors
<1> DEFINE mirrors == location.outputs.mirrors
           first == <<location.outputs.from>>
<1>1. mirrors \in Seq(Path) /\ first \in Seq(Path) /\ Len(first) = 1 /\ first[1] = location.outputs.from
  BY DEF locates
<1> HIDE DEF mirrors, first
<1>2. Len(mirrors) \in Nat /\ DOMAIN mirrors = 1..Len(mirrors)
  BY <1>1
<1> DEFINE fields == first \o mirrors
<1>3. /\ fields \in Seq(Path) /\ Len(fields) = Len(mirrors) + 1
      /\ \A i \in 1..(Len(mirrors) + 1) : fields[i] = IF i <= 1 THEN first[i] ELSE mirrors[i - 1]
  <2>1. /\ first \o mirrors \in Seq(Path) /\ Len(first \o mirrors) = Len(first) + Len(mirrors)
        /\ \A i \in 1..Len(first) + Len(mirrors) :
             (first \o mirrors)[i] = IF i <= Len(first) THEN first[i] ELSE mirrors[i - Len(first)]
    BY <1>1, ConcatProperties
  <2> HIDE DEF fields
  <2>2. /\ fields \in Seq(Path) /\ Len(fields) = Len(first) + Len(mirrors)
        /\ \A i \in 1..Len(first) + Len(mirrors) :
             fields[i] = IF i <= Len(first) THEN first[i] ELSE mirrors[i - Len(first)]
    BY <2>1 DEF fields
  <2>3. Len(first) = 1 /\ Len(first) + Len(mirrors) = Len(mirrors) + 1
    BY <1>1, <1>2
  <2> QED BY <2>2, <2>3
<1> HIDE DEF fields
<1>4. DOMAIN fields = 1..Len(fields)
  BY <1>3
<1>5. fields = fieldsOf(location.outputs)
  BY DEF fields, first, mirrors, fieldsOf
<1>6. fields[1] = location.outputs.from /\ \A i \in DOMAIN mirrors : i + 1 \in DOMAIN fields /\ fields[i + 1] = mirrors[i]
  BY <1>1, <1>2, <1>3, <1>4
<1>7. \A i \in DOMAIN fields : i = 1 \/ i - 1 \in DOMAIN mirrors
  BY <1>2, <1>3, <1>4
<1> QED BY <1>2, <1>3, <1>4, <1>5, <1>6, <1>7 DEF mirrors

LEMMA ReplacedIsDocument ==
  ASSUME NEW location, locates(location), NEW value, isDocument(value)
  PROVE  replacingOutput(location, value) = Throws \/ isDocument(replacingOutput(location, value))
<1> DEFINE outputs == location.outputs
           fields == fieldsOf(outputs)
           within == outputs.within
           edits == [i \in DOMAIN fields |-> [path |-> relative(fields[i], within), value |-> value]]
           container == resolve(location.payload, within)
           clone == patched(location, value)
<1>1. CASE ~replaceable(location, value)
  BY <1>1 DEF replacingOutput
<1>2. CASE replaceable(location, value)
  <2>1. \A i \in DOMAIN fields : Inside(fields[i], within)
    BY <1>2 DEF replaceable, fieldsOf
  <2>2. clone = setAll(container, edits)
    BY DEF patched, fieldsOf
  <2>3. replacingOutput(location, value) \in {Throws, clone}
    BY <1>2 DEF replacingOutput
  <2>4. within \in Path /\ isDocument(location.payload)
    BY DEF locates
  <2>5. fields \in Seq(Path) /\ DOMAIN fields = 1..Len(fields) /\ Len(fields) \in Nat
    BY FieldsAre DEF locates
  <2> HIDE DEF fields, within, clone
  <2>6. isDocument(container)
    BY <2>4, ResolveIs
  <2> HIDE DEF container
  <2>7. ASSUME NEW i \in DOMAIN fields PROVE relative(fields[i], within) \in Path
    <3>1. fields[i] \in Path /\ IsPrefix(within, fields[i])
      BY <2>1, <2>5 DEF Inside, IsStrictPrefix
    <3> QED BY <2>4, <3>1, PrefixSplits
  <2>8. editsOK(edits)
    <3>1. DOMAIN edits = 1..Len(fields) /\ edits \in Seq({edits[i] : i \in 1..Len(fields)})
      BY <2>5
    <3>2. Len(edits) = Len(fields)
      BY <2>5, <3>1
    <3>3. \A i \in DOMAIN fields : edits[i].path = relative(fields[i], within) /\ edits[i].value = value
      OBVIOUS
    <3> HIDE DEF edits
    <3> QED BY <2>5, <2>7, <3>1, <3>2, <3>3 DEF editsOK
  <2> HIDE DEF edits
  <2>9. isDocument(clone)
    BY <2>2, <2>6, <2>8, SetAllIsDocument
  <2> QED BY <2>3, <2>9
<1> QED BY <1>1, <1>2

LEMMA WithheldType == isDocument(Withheld) /\ DOMAIN Withheld = {<<>>} /\ typeOf(Withheld) = "string" /\ Withheld[<<>>].type = "string"
<1>1. PICK text : Withheld = Str(text)
  BY DEF Withheld
<1>2. isDocument(Withheld) /\ DOMAIN Withheld = {<<>>}
  BY <1>1, StrIsDocument
<1>3. Withheld[<<>>].type = "string"
  BY <1>1 DEF Str, Leaf
<1> QED BY <1>2, <1>3 DEF typeOf, isPlainObject

\* A field that holds a string is a leaf, and no other is.
LEMMA StringLeaf ==
  ASSUME NEW doc, isDocument(doc), NEW p \in Path, typeOf(resolve(doc, p)) = "string"
  PROVE  p \in DOMAIN doc /\ doc[p].type = "string" /\ resolve(doc, p)[<<>>] = doc[p] /\ ~isPlainObject(resolve(doc, p))
<1> DEFINE r == resolve(doc, p)
<1>1. <<>> \in DOMAIN r /\ r[<<>>].type = "string" /\ ~isPlainObject(r)
  BY DEF typeOf, isPlainObject
<1>2. /\ \A s : s \in DOMAIN r <=> s \in Path /\ p \o s \in DOMAIN doc
      /\ \A s \in DOMAIN r : r[s] = doc[p \o s]
  BY ResolveIs
<1> HIDE DEF r
<1>3. p \o <<>> = p
  BY ConcatEmptySeq DEF Path
<1> QED BY <1>1, <1>2, <1>3 DEF r

\* A leaf put in another's place leaves the paths of a document as they were.
LEMMA LeafIsSet ==
  ASSUME NEW doc, isDocument(doc), NEW p \in DOMAIN doc, NEW v, isDocument(v), DOMAIN v = {<<>>}
  PROVE  LET new == setAtPath(doc, p, v)
         IN  /\ isDocument(new) /\ DOMAIN new = DOMAIN doc
             /\ \A q \in DOMAIN doc : new[q] = IF q = p THEN v[<<>>] ELSE doc[q]
<1> DEFINE new == setAtPath(doc, p, v)
<1>1. p \in Path /\ DOMAIN doc \subseteq Path
  BY DEF isDocument, Path
<1>2. puts(doc, p, v, new)
  BY <1>1, SetAtPathIs
<1>3. p \o <<>> = p
  BY <1>1, ConcatEmptySeq DEF Path
<1>4. \A q \in DOMAIN doc : Overlap(p, q) => q = p
  BY DEF isDocument, Overlap
<1>5. Overlap(p, p)
  BY <1>1, PrefixOrder DEF Overlap
<1> HIDE DEF new
<1>6. /\ isDocument(new) /\ p \in DOMAIN new /\ new[p] = v[<<>>]
      /\ \A q \in DOMAIN doc : q # p => q \in DOMAIN new /\ new[q] = doc[q]
      /\ \A q \in DOMAIN new : q \in DOMAIN doc
  BY <1>2, <1>3, <1>4 DEF puts
<1>7. DOMAIN new = DOMAIN doc
  BY <1>6
<1> QED BY <1>6, <1>7 DEF new

LEMMA ReplacedAre ==
  ASSUME NEW location, locates(location)
  PROVE  LET fields == fieldsOf(location.outputs)
         IN  replacedIn(location.outputs) = {relative(fields[i], location.outputs.within) : i \in DOMAIN fields}
<1> DEFINE outputs == location.outputs
           fields == fieldsOf(outputs)
           mirrors == outputs.mirrors
           from == outputs.from
<1>1. /\ DOMAIN fields = 1..Len(fields) /\ Len(fields) = Len(mirrors) + 1 /\ Len(mirrors) \in Nat /\ fields[1] = from
      /\ \A i \in DOMAIN mirrors : i + 1 \in DOMAIN fields /\ fields[i + 1] = mirrors[i]
      /\ \A i \in DOMAIN fields : i = 1 \/ i - 1 \in DOMAIN mirrors
  BY FieldsAre
<1> HIDE DEF fields, mirrors, from
<1>2. 1 \in DOMAIN fields
  BY <1>1
<1>3. Range(mirrors) = {mirrors[i] : i \in DOMAIN mirrors}
  BY DEF Range
<1>4. \A p \in {from} \cup Range(mirrors) : \E i \in DOMAIN fields : fields[i] = p
  BY <1>1, <1>2, <1>3
<1>5. \A i \in DOMAIN fields : fields[i] \in {from} \cup Range(mirrors)
  <2> TAKE i \in DOMAIN fields
  <2>1. CASE i = 1
    BY <1>1, <2>1
  <2>2. CASE i - 1 \in DOMAIN mirrors
    <3>1. fields[(i - 1) + 1] = mirrors[i - 1] /\ (i - 1) + 1 = i
      BY <1>1, <2>2
    <3> QED BY <1>3, <2>2, <3>1
  <2> QED BY <1>1, <2>1, <2>2
<1>6. {from} \cup Range(mirrors) = {fields[i] : i \in DOMAIN fields}
  BY <1>4, <1>5
<1>7. {relative(p, outputs.within) : p \in {from} \cup Range(mirrors)} = {relative(fields[i], outputs.within) : i \in DOMAIN fields}
  BY <1>6
<1> QED BY <1>7 DEF replacedIn, fields, mirrors, from

\* Replacing an output replaces the leaf and its mirrors, and only those.
LEMMA OutputIsReplaced ==
  ASSUME NEW location, locates(location), NEW v, isDocument(v), DOMAIN v = {<<>>}, v[<<>>].type = "string",
         replacingOutput(location, v) # Throws
  PROVE  LET doc == replacingOutput(location, v)
             original == resolve(location.payload, location.outputs.within)
             replaced == replacedIn(location.outputs)
             leaf == relative(location.outputs.from, location.outputs.within)
         IN  /\ isDocument(doc) /\ isPlainObject(doc) /\ DOMAIN doc # {} /\ DOMAIN doc = DOMAIN original
             /\ \A q \in DOMAIN doc : doc[q] = IF q \in replaced THEN v[<<>>] ELSE original[q]
             /\ \A q \in DOMAIN doc : doc[q].type = original[q].type
             /\ replaced \subseteq DOMAIN doc /\ replaced \subseteq Path
             /\ location.outputs.mirrors # <<>> => \A q \in DOMAIN doc \ replaced : doc[q] # original[leaf]
<1> DEFINE outputs == location.outputs
           fields == fieldsOf(outputs)
           within == outputs.within
           n == Len(fields)
           at_i(i) == relative(fields[i], within)
           edits == [i \in DOMAIN fields |-> [path |-> at_i(i), value |-> v]]
           original == resolve(location.payload, within)
           leaf == relative(outputs.from, within)
           doc == replacingOutput(location, v)
           replaced == replacedIn(outputs)
<1>1. /\ isPlainObject(original)
      /\ \A i \in DOMAIN fields : /\ Inside(fields[i], within)
                                  /\ typeOf(resolve(original, at_i(i))) = "string"
  <2>1. typeOf(v) = "string"
    BY DEF typeOf, isPlainObject
  <2> QED BY <2>1 DEF replacingOutput, replaceable, fieldsOf
<1>2. doc = setAll(original, edits) /\ (outputs.mirrors # <<>> => ~holdsValue(location, doc))
  BY DEF replacingOutput, patched, fieldsOf
<1>3. /\ within \in Path /\ isDocument(location.payload) /\ outputs.from \in Path
      /\ fields \in Seq(Path) /\ DOMAIN fields = 1..n /\ n \in Nat /\ 1 \in DOMAIN fields /\ fields[1] = outputs.from
  BY FieldsAre DEF locates
<1>4. /\ isDocument(original)
      /\ \A s : s \in DOMAIN original <=> s \in Path /\ within \o s \in DOMAIN location.payload
      /\ \A s \in DOMAIN original : original[s] = location.payload[within \o s]
  BY <1>3, ResolveIs
<1>5. replaced = {at_i(i) : i \in DOMAIN fields}
  BY ReplacedAre
<1> HIDE DEF doc, original, fields, within, n
<1>6. ASSUME NEW i \in DOMAIN fields
      PROVE  /\ at_i(i) \in Path /\ within \o at_i(i) = fields[i]
             /\ at_i(i) \in DOMAIN original /\ original[at_i(i)].type = "string"
  <2>1. fields[i] \in Path /\ IsPrefix(within, fields[i])
    BY <1>1, <1>3 DEF Inside, IsStrictPrefix
  <2>2. at_i(i) \in Path /\ within \o at_i(i) = fields[i]
    BY <1>3, <2>1, PrefixSplits
  <2> QED BY <1>1, <1>4, <2>2, StringLeaf
<1>7. DOMAIN edits = 1..n /\ \A i \in 1..n : edits[i].path = at_i(i) /\ edits[i].value = v
  BY <1>3
<1> HIDE DEF edits
<1>7a. PICK run : setsTo(run, n, original, edits)
  <2>1. n \in Nat /\ DOMAIN edits = 1..n
    BY <1>3, <1>7
  <2> QED BY <2>1, SetAllRuns
<1>8. /\ run[0] = original /\ run[n] = doc
      /\ \A k \in 1..n : run[k] = setAtPath(run[k - 1], edits[k].path, edits[k].value)
  BY <1>2, <1>7a DEF setsTo
<1> DEFINE done(k, q) == \E i \in 1..k : q = at_i(i)
           good(k) == /\ isDocument(run[k]) /\ DOMAIN run[k] = DOMAIN original
                      /\ \A q \in DOMAIN original : run[k][q] = IF done(k, q) THEN v[<<>>] ELSE original[q]
           bad == {k \in 0..n : ~good(k)}
<1>9. good(0)
  BY <1>4, <1>8
<1>10. ASSUME NEW k \in 1..n, good(k - 1) PROVE good(k)
  <2> DEFINE p == at_i(k)
             old == run[k - 1]
             new == run[k]
  <2>1. new = setAtPath(old, p, v)
    BY <1>7, <1>8
  <2>2. k \in Nat /\ \A i : i \in 1..k <=> i \in 1..(k - 1) \/ i = k
    BY <1>3
  <2>3. \A q : done(k, q) <=> done(k - 1, q) \/ q = p
    BY <2>2
  <2>4. isDocument(old) /\ DOMAIN old = DOMAIN original /\ p \in DOMAIN old
    BY <1>3, <1>6, <1>10
  <2>5. \A q \in DOMAIN original : old[q] = IF done(k - 1, q) THEN v[<<>>] ELSE original[q]
    BY <1>10
  <2> HIDE DEF p, old, new, done
  <2>6. /\ isDocument(new) /\ DOMAIN new = DOMAIN old
        /\ \A q \in DOMAIN old : new[q] = IF q = p THEN v[<<>>] ELSE old[q]
    BY <2>1, <2>4, LeafIsSet
  <2>7. \A q \in DOMAIN original : new[q] = IF done(k, q) THEN v[<<>>] ELSE original[q]
    BY <2>3, <2>4, <2>5, <2>6
  <2> QED BY <2>4, <2>6, <2>7 DEF new
<1> HIDE DEF good
<1>11. bad = {}
  <2> SUFFICES ASSUME bad # {} PROVE FALSE
    OBVIOUS
  <2>1. PICK k \in bad : \A m \in bad : k <= m
    <3>1. bad \in SUBSET Nat
      BY <1>3
    <3> HIDE DEF bad
    <3> QED BY <3>1, LeastOf
  <2>2. k \in 0..n /\ ~good(k) /\ k # 0
    BY <1>9
  <2>3. k \in 1..n /\ k - 1 \in 0..n /\ k - 1 \notin bad
    BY <1>3, <2>1, <2>2
  <2> QED BY <1>10, <2>2, <2>3
<1>12. good(n)
  BY <1>3, <1>11
<1>13. \A q : done(n, q) <=> q \in replaced
  BY <1>3, <1>5
<1> HIDE DEF done, replaced, at_i
<1>14. /\ isDocument(doc) /\ DOMAIN doc = DOMAIN original
       /\ \A q \in DOMAIN doc : doc[q] = IF q \in replaced THEN v[<<>>] ELSE original[q]
  BY <1>8, <1>12, <1>13 DEF good
<1>15. leaf \in DOMAIN original /\ isPlainObject(doc)
  <2>1. leaf = at_i(1)
    BY <1>3 DEF at_i
  <2> QED BY <1>1, <1>3, <1>6, <1>14, <2>1 DEF isPlainObject
<1>16. \A q \in DOMAIN doc : doc[q].type = original[q].type
  <2>1. \A q \in replaced : original[q].type = "string"
    BY <1>5, <1>6
  <2> QED BY <1>14, <2>1
<1>17. ASSUME outputs.mirrors # <<>>, NEW q \in DOMAIN doc \ replaced PROVE doc[q] # original[leaf]
  <2> DEFINE whole == resolve(location.payload, outputs.from)
  <2>1. leaf \in Path /\ within \o leaf = outputs.from
    <3>1. leaf = at_i(1)
      BY <1>3 DEF at_i
    <3> QED BY <1>3, <1>6, <3>1
  <2>2. outputs.from \in DOMAIN location.payload /\ location.payload[outputs.from] = original[leaf]
    BY <1>4, <1>15, <2>1
  <2>3. <<>> \in DOMAIN whole /\ whole[<<>>] = original[leaf]
    <3>1. /\ \A s : s \in DOMAIN whole <=> s \in Path /\ outputs.from \o s \in DOMAIN location.payload
          /\ \A s \in DOMAIN whole : whole[s] = location.payload[outputs.from \o s]
      BY <1>3, ResolveIs
    <3>2. outputs.from \o <<>> = outputs.from /\ <<>> \in Path
      BY <1>3, ConcatEmptySeq DEF Path
    <3> HIDE DEF whole
    <3> QED BY <2>2, <3>1, <3>2
  <2> HIDE DEF whole
  <2>4. (\A p \in replaced : ~IsPrefix(p, q)) => doc[q] # whole[<<>>]
    <3>1. ~holdsValue(location, doc)
      BY <1>2, <1>17
    <3>2. ~isPlainObject(whole)
      BY <2>3 DEF isPlainObject
    <3> QED BY <3>1, <3>2 DEF holdsValue, whole, replaced, replacedIn, within
  <2>5. \A p \in replaced : ~IsPrefix(p, q)
    <3>1. replaced \subseteq DOMAIN doc
      BY <1>5, <1>6, <1>14
    <3> QED BY <1>14, <1>17, <3>1 DEF isDocument
  <2> QED BY <2>3, <2>4, <2>5
<1>18. replaced \subseteq DOMAIN doc /\ replaced \subseteq Path
  BY <1>5, <1>6, <1>14
<1> QED BY <1>14, <1>15, <1>16, <1>17, <1>18 DEF doc, original, within, leaf, replaced

\* Withholding an output masks it.
LEMMA OutputIsMasked ==
  ASSUME NEW location, locates(location), replacingOutput(location, Withheld) # Throws
  PROVE  LET doc == replacingOutput(location, Withheld)
             original == resolve(location.payload, location.outputs.within)
         IN  /\ masks(location.outputs, location.payload, doc) /\ isDocument(doc) /\ isPlainObject(doc) /\ DOMAIN doc # {}
             /\ \A q \in DOMAIN doc : doc[q].type = original[q].type
BY OutputIsReplaced, WithheldType DEF masks

\* A decision with its output withheld is still that decision.
LEMMA WithOutputIs ==
  ASSUME NEW decision, isDecision(decision), NEW location, location = Absent \/ locates(location)
  PROVE  LET given == withResultOutput(decision, location)
         IN  given = Throws \/ (isDecision(given) /\ given.decision = decision.decision)
<1> DEFINE output == replacingOutput(location, Withheld)
           given == withResultOutput(decision, location)
<1>1. CASE location = Absent
  BY <1>1 DEF withResultOutput
<1>2. CASE location # Absent
  <2>1. output = Throws \/ isDocument(output)
    BY <1>2, ReplacedIsDocument, WithheldType
  <2>2. given \in {Throws, decision} \/ (output # Throws /\ given = [decision EXCEPT !["applied_output"] = output])
    BY <1>2 DEF withResultOutput
  <2>3. "applied_output" \in Renderable
    BY DEF Renderable
  <2> HIDE DEF output, given
  <2>4. (isDecision(given) /\ given.decision = decision.decision) \/ given = Throws
    <3>1. CASE given \in {Throws, decision}
      BY <3>1
    <3>2. CASE output # Throws /\ given = [decision EXCEPT !["applied_output"] = output]
      BY <2>1, <2>3, <3>2, DecisionWith
    <3> QED BY <2>2, <3>1, <3>2
  <2> QED BY <2>4 DEF given
<1> QED BY <1>1, <1>2

LEMMA OneName == \A t \in STRING : <<t>> \in Path /\ Len(<<t>>) = 1 /\ <<t>>[1] = t
<1>1. ASSUME NEW S, NEW t \in S PROVE <<t>> \in Seq(S)
  OBVIOUS
<1>2. \A t \in STRING : Len(<<t>>) = 1 /\ <<t>>[1] = t
  OBVIOUS
<1> QED BY <1>1, <1>2 DEF Path

LEMMA TwoNames == \A t, u \in STRING : <<t, u>> \in Path
<1>1. ASSUME NEW S, NEW t \in S, NEW u \in S PROVE <<t, u>> \in Seq(S)
  OBVIOUS
<1> QED BY <1>1 DEF Path

\* A literal declared anywhere under refuse is there when the host reads it.
LEMMA RefuseIsPresent ==
  ASSUME NEW rule, wellRuled(rule), NEW decision, carriesDocuments(decision), NEW output,
         fieldsPlaced(output, rule, decision, Len(rule)), declaresUnconditionalRefusal(rule)
  PROVE  Present(output, <<"refuse">>)
<1>1. PICK i \in DOMAIN rule : rule[i].path[1] = "refuse" /\ rule[i].value # Absent
  BY DEF declaresUnconditionalRefusal
<1> DEFINE p == rule[i].path
           v == rule[i].value
<1>2. i \in 1..Len(rule) /\ p \in Path /\ p # <<>> /\ DOMAIN v # {} /\ isDocument(v)
  BY <1>1 DEF wellRuled
<1>3. carried(rule[i], decision) = v
  BY <1>1, <1>2, CarriedIs
<1>4. PICK s \in DOMAIN v : s \in Path /\ p \o s \in DOMAIN output
  BY <1>1, <1>2, <1>3 DEF fieldsPlaced, isDocument, Path
<1> HIDE DEF p, v
<1>5. /\ p \o s \in Path /\ Len(p \o s) = Len(p) + Len(s) /\ Len(p) \in Nat /\ Len(s) \in Nat /\ Len(p) >= 1
      /\ (p \o s)[1] = p[1]
  BY <1>2, <1>4, ConcatProperties DEF Path
<1> DEFINE w == p \o s
           r == <<"refuse">>
<1>6. w \in Path /\ Len(w) >= 1 /\ w[1] = "refuse" /\ Len(w) \in Nat
  BY <1>1, <1>5 DEF p
<1>7. r \in Path /\ Len(r) = 1 /\ r[1] = "refuse"
  BY NameAssumption, OneName
<1>8. w \in DOMAIN output
  BY <1>4
<1> HIDE DEF w, r
<1>9. \A k \in 1..Len(r) : r[k] = w[k]
  BY <1>6, <1>7
<1>10. IsPrefix(r, w)
  BY <1>6, <1>7, <1>9, PrefixPoints
<1> QED BY <1>8, <1>10 DEF Present, r

\* Where a rule declares that a field of the decision is to go, and writes
\* nothing inside it, the host finds that field and nothing else.
LEMMA SinkHoldsField ==
  ASSUME NEW rule, wellRuled(rule), NEW decision, isDecision(decision), NEW output,
         fieldsPlaced(output, rule, decision, Len(rule)),
         NEW sink \in Path, NEW field \in Renderable, declaresSinkFrom(rule, sink, field),
         \A i \in DOMAIN rule : ~IsStrictPrefix(sink, rule[i].path),
         NEW doc, doc = decision[field], doc # Absent, isDocument(doc), isPlainObject(doc), DOMAIN doc # {}
  PROVE  Present(output, sink) /\ resolve(output, sink) = doc
<1>0. /\ DOMAIN rule = 1..Len(rule) /\ Len(rule) \in Nat /\ \A i \in DOMAIN rule : rule[i].path \in Path
      /\ carriesDocuments(decision) /\ field \in DOMAIN decision
  BY DecisionFields DEF wellRuled, isDecision, Renderable
<1>1. PICK i \in DOMAIN rule : /\ rule[i].path = sink /\ rule[i].value = Absent
                               /\ rule[i].type \in {Absent, "object"} /\ rule[i].from = field
  BY DEF declaresSinkFrom
<1>2. carried(rule[i], decision) = doc
  <2>1. typeOf(doc) = "object"
    BY DEF typeOf
  <2> QED BY <1>0, <1>1, <2>1 DEF carried
<1>3. \A s \in DOMAIN doc : s \in Path /\ sink \o s \in Path /\ isPlacedBy(rule[i], decision, sink \o s)
                            /\ sink \o s \in DOMAIN output /\ output[sink \o s] = doc[s]
  <2>1. \A s \in DOMAIN doc : s \in Path /\ sink \o s \in Path
    BY PrefixConcat DEF isDocument, Path
  <2>2. \A s \in DOMAIN doc : isPlacedBy(rule[i], decision, sink \o s)
    BY <1>1, <1>2 DEF isPlacedBy
  <2>3. \A s \in DOMAIN doc : sink \o s \in DOMAIN output /\ output[sink \o s] = doc[s]
    BY <1>0, <1>1, <1>2 DEF fieldsPlaced
  <2> QED BY <2>1, <2>2, <2>3
<1>4. PICK s0 \in DOMAIN doc : TRUE
  OBVIOUS
<1> DEFINE r == resolve(output, sink)
<1>5. /\ isDocument(output) /\ isDocument(r)
      /\ \A s : s \in DOMAIN r <=> s \in Path /\ sink \o s \in DOMAIN output
      /\ \A s \in DOMAIN r : r[s] = output[sink \o s]
  <2>1. isDocument(output)
    BY DEF fieldsPlaced
  <2> QED BY <2>1, ResolveIs
<1> HIDE DEF r
<1>6. ASSUME NEW s \in DOMAIN r PROVE s \in DOMAIN doc
  <2> DEFINE q == sink \o s
  <2>1. s \in Path /\ q \in DOMAIN output /\ q \in Path /\ IsPrefix(sink, q) /\ relative(q, sink) = s
    BY <1>5, PrefixConcat
  <2> HIDE DEF q
  <2>2. PICK j \in DOMAIN rule : isPlacedBy(rule[j], decision, q)
    BY <1>0, <2>1 DEF fieldsPlaced
  <2>3. carried(rule[j], decision) # Absent
    BY <2>2 DEF isPlacedBy
  <2>4. PICK t \in DOMAIN carried(rule[j], decision) : q = rule[j].path \o t
    BY <2>2 DEF isPlacedBy
  <2>5. t \in Path /\ rule[j].path \in Path
    BY <1>0, <2>3, <2>4, CarriedIs DEF isDocument, Path
  <2>6. IsPrefix(rule[j].path, q)
    BY <2>4, <2>5, PrefixConcat
  <2>7. CASE j = i
    <3>1. q = sink \o t /\ t \in DOMAIN doc
      BY <1>1, <1>2, <2>4, <2>7
    <3>2. relative(q, sink) = t
      BY <2>5, <3>1, PrefixConcat
    <3> QED BY <2>1, <3>1, <3>2
  <2>8. CASE j \in 1..(i - 1)
    <3>1. ~IsPrefix(rule[i].path, q)
      BY <1>0, <1>2, <2>1, <2>2, <2>8 DEF fieldsPlaced
    <3> QED BY <1>1, <2>1, <3>1
  <2>9. CASE i \in 1..(j - 1)
    <3>1. ~IsPrefix(rule[j].path, sink \o s0)
      BY <1>0, <1>3, <1>4, <2>3, <2>9 DEF fieldsPlaced
    <3>2. IsPrefix(rule[j].path, sink)
      <4>1. IsPrefix(sink, rule[j].path) \/ IsPrefix(rule[j].path, sink)
        BY <2>1, <2>5, <2>6, PrefixOrder
      <4>2. IsPrefix(sink, rule[j].path) => sink = rule[j].path
        BY DEF IsStrictPrefix
      <4>3. IsPrefix(sink, sink)
        BY PrefixOrder
      <4> QED BY <4>1, <4>2, <4>3
    <3>3. IsPrefix(sink, sink \o s0) /\ sink \o s0 \in Path
      BY <1>3, <1>4, PrefixConcat
    <3>4. IsPrefix(rule[j].path, sink \o s0)
      BY <2>5, <3>2, <3>3, PrefixOrder
    <3> QED BY <3>1, <3>4
  <2> QED BY <1>0, <2>7, <2>8, <2>9
<1>7. DOMAIN r = DOMAIN doc /\ \A s \in DOMAIN doc : r[s] = doc[s]
  BY <1>3, <1>5, <1>6
<1>8. r = [s \in DOMAIN r |-> r[s]] /\ doc = [s \in DOMAIN doc |-> doc[s]]
  BY <1>5 DEF isDocument
<1>9. r = doc
  BY <1>7, <1>8
<1>10. Present(output, sink)
  BY <1>3, <1>4, PrefixConcat DEF Present
<1> QED BY <1>9, <1>10 DEF r

\* So it does an output that takes the place of the tool's own.
LEMMA SinkHoldsOutput ==
  ASSUME NEW rule, wellRuled(rule), NEW decision, isDecision(decision), NEW output,
         fieldsPlaced(output, rule, decision, Len(rule)),
         NEW sink \in Path, declaresSinkFrom(rule, sink, "applied_output"),
         \A i \in DOMAIN rule : ~IsStrictPrefix(sink, rule[i].path),
         NEW doc, doc = decision.applied_output, doc # Absent, isDocument(doc), isPlainObject(doc), DOMAIN doc # {}
  PROVE  Present(output, sink) /\ resolve(output, sink) = doc
<1>1. PICK field \in Renderable : field = "applied_output"
  BY DEF Renderable
<1>2. declaresSinkFrom(rule, sink, field) /\ doc = decision[field]
  BY <1>1
<1> QED BY <1>2, SinkHoldsField

\* What a refusal is rendered as at the request gate, the host refuses.
LEMMA RefusalIsRefused ==
  ASSUME Deployed, NEW decision, isDecision(decision), decision.decision \in Refusals,
         NEW location, location = Absent \/ locates(location), NEW payload
  PROVE  acts(renderDecision(hooks[hookAt(host, "request")].decisions, withResultOutput(decision, location)),
              "request", payload) = refused
<1> DEFINE h == hookAt(host, "request")
           rules == hooks[h].decisions
           given == withResultOutput(decision, location)
           output == renderDecision(rules, given)
           name == decision.decision
           rule == rules[name]
<1>1. given = Throws \/ (isDecision(given) /\ given.decision = name)
  BY WithOutputIs
<1>2. h \in DOMAIN hooks /\ host \in Hosts
  BY DeployedRules DEF Gates
<1>3. \A n \in DOMAIN rules : wellRuled(rules[n])
  BY <1>2, DeployedRules
<1> HIDE DEF given, rules
<1>4. output = Throws \/ (name \in DOMAIN rules /\ fieldsPlaced(output, rule, given, Len(rule)))
  <2>1. CASE given = Throws
    BY <2>1 DEF renderDecision
  <2>2. CASE given # Throws
    <3>1. carriesDocuments(given) /\ given.decision = name
      BY <1>1, <2>2 DEF isDecision
    <3> QED BY <1>3, <3>1, Rendered
  <2> QED BY <2>1, <2>2
<1> HIDE DEF output
<1>5. CASE output = Throws
  BY <1>5 DEF acts, output, rules, given
<1>6. CASE output # Throws
  <2>1. /\ name \in DOMAIN rules /\ wellRuled(rule) /\ carriesDocuments(given)
        /\ fieldsPlaced(output, rule, given, Len(rule)) /\ isDocument(output)
    <3>1. given # Throws
      BY <1>6 DEF renderDecision, output
    <3> QED BY <1>1, <1>3, <1>4, <1>6, <3>1 DEF isDecision, fieldsPlaced
  <2>2. PICK d \in Hookmaps : accepts(d) /\ host = d.host /\ hooks = d.hooks
    BY DEF Deployed
  <2>3. ASSUME NEW i \in DOMAIN rule, rule[i].value # Absent
        PROVE  /\ rule[i].path \in Path /\ rule[i].path # <<>> /\ DOMAIN rule[i].value # {} /\ isDocument(rule[i].value)
               /\ \A s \in DOMAIN rule[i].value : /\ rule[i].path \o s \in DOMAIN output
                                                  /\ output[rule[i].path \o s] = rule[i].value[s]
    <3>1. i \in 1..Len(rule)
      BY <2>1 DEF wellRuled
    <3>2. carried(rule[i], given) = rule[i].value
      BY <2>1, <2>3, <3>1, CarriedIs
    <3>3. /\ rule[i].path \in Path /\ rule[i].path # <<>> /\ DOMAIN rule[i].value # {} /\ isDocument(rule[i].value)
      BY <2>1, <2>3 DEF wellRuled
    <3> QED BY <2>1, <2>3, <3>1, <3>2, <3>3 DEF fieldsPlaced
  <2>4. CASE host = "opencode"
    <3>1. h = "tool.execute.before"
      BY <2>4 DEF hookAt
    <3>2. assertOpenCodeAccepts(hooks)
      BY <2>2, <2>4 DEF accepts
    <3>3. gateOf["tool.execute.before"].carries = requestCarries
      BY DEF gateOf
    <3>4. requestCarries[name] = Absent /\ name # "allow"
      BY DEF requestCarries, Refusals
    <3>5. declaresUnconditionalRefusal(rule)
      <4>1. assertDecisionsCanAct(rules, requestCarries, gateOf[h].sink)
        BY <1>2, <3>1, <3>2, <3>3 DEF assertOpenCodeAccepts, rules
      <4> QED BY <2>1, <3>4, <4>1 DEF assertDecisionsCanAct
    <3>6. Present(output, <<"refuse">>)
      BY <2>1, <3>5, RefuseIsPresent
    <3>7. acts(output, "request", payload) = refused
      BY <1>6, <2>4, <3>6 DEF acts, applyOpenCodeOutput
    <3> QED BY <3>7 DEF output, rules, given
  <2>5. CASE host # "opencode"
    <3>1. h = "PreToolUse" /\ host = "claude-code"
      BY <1>2, <2>5 DEF hookAt, Hosts
    <3>2. assertClaudeCodeAccepts(hooks)
      BY <2>2, <2>5 DEF accepts
    <3>3. assertPermissionDecisions(rules)
      BY <1>2, <3>1, <3>2 DEF assertClaudeCodeAccepts, rules
    <3>4. /\ declaredAt(rule, PermissionDecision) # {}
          /\ declaredAt(rule, PermissionDecision) \subseteq AcceptedPermissions
      BY <2>1, <3>3 DEF assertPermissionDecisions
    <3>5. Str("allow") \notin declaredAt(rule, PermissionDecision)
      <4>1. d \in {e \in Hookmaps : accepts(e)}
        BY <2>2
      <4> QED BY <2>1, <2>2, <3>1, <4>1, DeploymentAssumption DEF rules
    <3>6. PICK i \in DOMAIN rule : rule[i].path = PermissionDecision /\ rule[i].value \in {Str("deny"), Str("ask")}
      BY <3>4, <3>5 DEF declaredAt, AcceptedPermissions
    <3> DEFINE v == rule[i].value
    <3>7. v # Absent
      BY <3>6, DeploymentAssumption DEF AcceptedPermissions
    <3>8. DOMAIN v = {<<>>} /\ isDocument(v)
      BY <3>6, StrIsDocument
    <3>9. PermissionDecision \in Path /\ PermissionDecision \o <<>> = PermissionDecision
      <4>1. PermissionDecision \in Path
        BY NameAssumption, TwoNames DEF PermissionDecision
      <4> QED BY <4>1, ConcatEmptySeq DEF Path
    <3>10. PermissionDecision \in DOMAIN output /\ output[PermissionDecision] = v[<<>>]
      BY <2>3, <3>6, <3>7, <3>8, <3>9
    <3> HIDE DEF v
    <3>11. resolve(output, PermissionDecision) = v
      <4> DEFINE r == resolve(output, PermissionDecision)
      <4>1. /\ isDocument(r)
            /\ \A s : s \in DOMAIN r <=> s \in Path /\ PermissionDecision \o s \in DOMAIN output
            /\ \A s \in DOMAIN r : r[s] = output[PermissionDecision \o s]
        BY <2>1, <3>9, ResolveIs
      <4> HIDE DEF r
      <4>2. <<>> \in Path
        BY DEF Path
      <4>3. <<>> \in DOMAIN r
        BY <3>9, <3>10, <4>1, <4>2
      <4>4. \A s \in DOMAIN r : s = <<>>
        <5>1. \A s \in DOMAIN r : IsPrefix(<<>>, s)
          BY <4>1, <4>2, PrefixPoints
        <5> QED BY <4>1, <4>3, <5>1 DEF isDocument
      <4>5. DOMAIN r = {<<>>} /\ r[<<>>] = v[<<>>]
        BY <3>9, <3>10, <4>1, <4>3, <4>4
      <4>6. r = [s \in DOMAIN r |-> r[s]] /\ v = [s \in DOMAIN v |-> v[s]]
        BY <3>8, <4>1 DEF isDocument
      <4>7. r = v
        BY <3>8, <4>5, <4>6
      <4> QED BY <4>7 DEF r
    <3>12. resolve(output, PermissionDecision) \in {Str("deny"), Str("ask")}
      BY <3>6, <3>11 DEF v
    <3>13. claudeCodeReads(output, "request", payload) = refused
      BY <3>12 DEF claudeCodeReads
    <3>14. acts(output, "request", payload) = refused
      BY <1>6, <2>5, <3>13 DEF acts
    <3> QED BY <3>14 DEF output, rules, given
  <2> QED BY <2>4, <2>5
<1> QED BY <1>5, <1>6

\* A document merged into one with the same fields takes its place.
LEMMA MergeReplaces ==
  ASSUME NEW target, NEW source, isDocument(source), DOMAIN target = DOMAIN source
  PROVE  mergeInPlace(target, source) = source
<1> DEFINE kept == {q \in DOMAIN target : \A s \in DOMAIN source : ~Overlap(q, s)}
<1>1. \A q \in DOMAIN source : Overlap(q, q)
  BY PrefixOrder DEF isDocument, Overlap, Path
<1>2. kept = {}
  BY <1>1
<1>3. mergeInPlace(target, source) = [q \in DOMAIN source |-> source[q]]
  BY <1>2 DEF mergeInPlace
<1> QED BY <1>3 DEF isDocument

\* What a refusal is rendered as at the result gate, the host refuses, or it
\* delivers the output withheld.
LEMMA RefusalWithholds ==
  ASSUME Deployed, NEW decision, isDecision(decision), decision.decision \in Refusals,
         NEW location, locates(location), location # Absent, replacingOutput(location, Withheld) # Absent,
         location.outputs = hooks[hookAt(host, "result")].outputs
  PROVE  LET effect == acts(renderDecision(hooks[hookAt(host, "result")].decisions, withResultOutput(decision, location)),
                            "result", location.payload)
         IN  effect = refused \/ masks(location.outputs, location.payload, effect.doc)
<1> DEFINE h == hookAt(host, "result")
           rules == hooks[h].decisions
           given == withResultOutput(decision, location)
           output == renderDecision(rules, given)
           name == decision.decision
           rule == rules[name]
           doc == replacingOutput(location, Withheld)
           effect == acts(output, "result", location.payload)
           original == resolve(location.payload, location.outputs.within)
<1>1. given = Throws \/ (isDecision(given) /\ given.decision = name)
  BY WithOutputIs
<1>2. h \in DOMAIN hooks /\ host \in Hosts
  BY DeployedRules DEF Gates
<1>3. \A n \in DOMAIN rules : wellRuled(rules[n])
  BY <1>2, DeployedRules
<1>4. given # Throws => doc # Throws /\ given = [decision EXCEPT !["applied_output"] = doc]
  <2>1. withholdsAtResultGate(decision.decision)
    BY DEF withholdsAtResultGate, Refusals
  <2> QED BY <2>1 DEF withResultOutput
<1> HIDE DEF given, rules, doc
<1>5. output = Throws \/ (name \in DOMAIN rules /\ fieldsPlaced(output, rule, given, Len(rule)))
  <2>1. CASE given = Throws
    BY <2>1 DEF renderDecision
  <2>2. CASE given # Throws
    <3>1. carriesDocuments(given) /\ given.decision = name
      BY <1>1, <2>2 DEF isDecision
    <3> QED BY <1>3, <3>1, Rendered
  <2> QED BY <2>1, <2>2
<1> HIDE DEF output
<1>6. CASE output = Throws
  <2>1. effect = refused
    BY <1>6 DEF acts
  <2> QED BY <2>1 DEF output, rules, given
<1>7. CASE output # Throws
  <2>1. /\ name \in DOMAIN rules /\ wellRuled(rule) /\ isDecision(given) /\ doc # Throws
        /\ fieldsPlaced(output, rule, given, Len(rule)) /\ carriesDocuments(given)
    <3>1. given # Throws
      BY <1>7 DEF renderDecision, output
    <3> QED BY <1>1, <1>3, <1>4, <1>5, <1>7, <3>1 DEF isDecision
  <2>2. given.applied_output = doc /\ doc # Absent
    <3>1. given = [decision EXCEPT !["applied_output"] = doc] /\ "applied_output" \in DOMAIN decision
      <4>1. given # Throws
        BY <1>7 DEF renderDecision, output
      <4> QED BY <1>4, <4>1, DecisionFields DEF isDecision
    <3> QED BY <3>1 DEF doc
  <2>3. /\ masks(location.outputs, location.payload, doc) /\ isDocument(doc) /\ isPlainObject(doc) /\ DOMAIN doc # {}
        /\ DOMAIN doc = DOMAIN original /\ \A q \in DOMAIN doc : doc[q].type = original[q].type
    BY <2>1, OutputIsMasked DEF doc, masks
  <2>3a. isDocument(doc) /\ isPlainObject(doc) /\ DOMAIN doc # {}
    BY <2>3
  <2>4. PICK d \in Hookmaps : accepts(d) /\ host = d.host /\ hooks = d.hooks
    BY DEF Deployed
  <2>5. d \in {e \in Hookmaps : accepts(e)} /\ name \in Refusals \cap DOMAIN rules
    BY <2>1, <2>4
  <2> HIDE DEF original
  <2>6. CASE host = "opencode"
    <3> DEFINE sink == <<"result">>
    <3>1. h = "tool.execute.after"
      BY <2>6 DEF hookAt
    <3>2. assertOpenCodeAccepts(hooks)
      BY <2>4, <2>6 DEF accepts
    <3>3. location.outputs.within = sink
      BY <1>2, <3>1, <3>2 DEF assertOpenCodeAccepts, assertEntryMatchesGate
    <3>4. satisfiesGate(rule, sink, "applied_output")
      <4>1. gateOf["tool.execute.after"].carries = resultCarries /\ gateOf["tool.execute.after"].sink = sink
        BY DEF gateOf
      <4>2. resultCarries[name] = "applied_output" /\ name # "allow"
        BY DEF resultCarries, Refusals
      <4>3. assertDecisionsCanAct(rules, resultCarries, sink)
        BY <1>2, <3>1, <3>2, <4>1 DEF assertOpenCodeAccepts, rules
      <4>4. resultCarries[name] # Absent \/ declaresUnconditionalRefusal(rule)
        BY <2>1, <4>2, <4>3 DEF assertDecisionsCanAct
      <4> QED BY <2>1, <4>2, <4>3, <4>4 DEF assertDecisionsCanAct, satisfiesGate
    <3>5. CASE declaresUnconditionalRefusal(rule)
      <4>1. Present(output, <<"refuse">>)
        BY <2>1, <3>5, RefuseIsPresent
      <4>2. effect = refused
        BY <1>7, <2>6, <4>1 DEF acts, applyOpenCodeOutput
      <4> QED BY <4>2 DEF output, rules, given
    <3>6. CASE declaresSinkFrom(rule, sink, "applied_output")
      <4>1. sink \in Path
        BY NameAssumption, OneName
      <4>2. \A i \in DOMAIN rule : ~IsStrictPrefix(sink, rule[i].path)
        BY <2>4, <2>5, <2>6, WithholdingAssumption DEF rules, sinkAt
      <4> HIDE DEF sink, rule
      <4>3. Present(output, sink) /\ resolve(output, sink) = doc
        BY <2>1, <2>2, <2>3a, <3>6, <4>1, <4>2, SinkHoldsOutput
      <4>4. effect = refused \/ effect = ran(mergeInPlace(resolve(location.payload, sink), resolve(output, sink)))
        BY <1>7, <2>6 DEF acts, applyOpenCodeOutput, sink
      <4>5. resolve(location.payload, sink) = original
        BY <3>3 DEF original
      <4>6. mergeInPlace(original, doc) = doc
        BY <2>3, MergeReplaces
      <4>7. effect = refused \/ effect.doc = doc
        BY <4>3, <4>4, <4>5, <4>6 DEF ran
      <4> QED BY <2>3, <4>7 DEF output, rules, given
    <3> QED BY <3>4, <3>5, <3>6 DEF satisfiesGate
  <2>7. CASE host # "opencode"
    <3> DEFINE sink == UpdatedToolOutput
    <3>1. host = "claude-code"
      BY <1>2, <2>7 DEF Hosts
    <3>2. location.outputs.within = <<"tool_response">>
      BY <2>4, <2>5, <3>1, WithholdingAssumption
    <3>3. sink \in Path
      BY NameAssumption, TwoNames DEF UpdatedToolOutput
    <3>4. /\ \A i \in DOMAIN rule : ~IsStrictPrefix(sink, rule[i].path)
          /\ declaresSinkFrom(rule, sink, "applied_output")
      BY <2>4, <2>5, <3>1, WithholdingAssumption DEF rules, sinkAt
    <3> HIDE DEF sink, rule
    <3>5. Present(output, sink) /\ resolve(output, sink) = doc
      BY <2>1, <2>2, <2>3a, <3>3, <3>4, SinkHoldsOutput
    <3>6. claudeCodeReads(output, "result", location.payload) = ran(doc)
      <4>1. resolve(location.payload, <<"tool_response">>) = original
        BY <3>2 DEF original
      <4> QED BY <2>3, <3>5, <4>1 DEF claudeCodeReads, sink
    <3>7. effect = refused \/ effect = ran(doc)
      BY <1>7, <2>7, <3>6 DEF acts
    <3>8. effect = refused \/ effect.doc = doc
      BY <3>7 DEF ran
    <3> QED BY <2>3, <3>8 DEF output, rules, given
  <2> QED BY <2>6, <2>7
<1> QED BY <1>6, <1>7


\* A host's payloads are documents.
LEMMA PayloadsAreDocuments ==
  ASSUME Deployed, NEW c \in Calls, NEW gate \in Gates, NEW payload \in payloadsAt(host, gate, c)
  PROVE  isDocument(payload) /\ \A leaf \in Range(payload) : leaf = [type |-> leaf.type, text |-> leaf.text]
<1>1. PICK d \in Hookmaps : accepts(d) /\ host = d.host
  BY DEF Deployed
<1>2. d \in {e \in Hookmaps : accepts(e)} /\ payload \in payloadsAt(d.host, gate, c)
  BY <1>1
<1> QED BY <1>2, PayloadAssumption

\* What a decision comes to at the gate a call is at.
settled(c, decision, payload, effect) ==
  decision # Absent /\ decision.decision \in Refusals =>
    effect = refused \/ (gateAt(c) = "result" /\ masks(entryAt(c).outputs, payload, effect.doc))

LEMMA RefusalSettles ==
  ASSUME Deployed, NEW c \in Calls, NEW decision, isDecision(decision), decision.decision \in Refusals,
         NEW payload \in payloadsAt(host, gateAt(c), c)
  PROVE  settled(c, decision, payload, acts(render(c, decision, payload), gateAt(c), payload))
<1>1. PICK d \in Hookmaps : accepts(d) /\ host = d.host /\ hooks = d.hooks
  BY DEF Deployed
<1>2. gateAt(c) \in Gates
  BY DEF gateAt, Gates
<1>3. d \in {e \in Hookmaps : accepts(e)} /\ hookAt(host, gateAt(c)) \in DOMAIN hooks
  BY <1>1, <1>2, DeployedRules
<1>4. isDocument(payload)
  BY <1>2, PayloadsAreDocuments
<1>5. PICK location : location = locationAt(c, payload)
  OBVIOUS
<1>6. entryAt(c) = hooks[hookAt(host, gateAt(c))]
  BY DEF entryAt, hookOf
<1> DEFINE entry == hooks[hookAt(host, gateAt(c))]
           effect == acts(renderDecision(entry.decisions, withResultOutput(decision, location)), gateAt(c), payload)
<1>7. entry.outputs = Absent \/ /\ entry.outputs.from \in Path /\ entry.outputs.within \in Path
                                /\ entry.outputs.mirrors \in Seq(Path)
  <2>1. entry.outputs = Absent \/ /\ entry.outputs.from \in Seq(STRING) /\ entry.outputs.within \in Seq(STRING)
                                  /\ entry.outputs.mirrors \in Seq(Seq(STRING))
    BY <1>1, <1>3, DeploymentAssumption
  <2> QED BY <2>1 DEF Path
<1> HIDE DEF entry
<1>8. location = IF entry.outputs = Absent THEN Absent ELSE [payload |-> payload, outputs |-> entry.outputs]
  BY <1>5, <1>6 DEF locationAt, entry
<1>9. location = Absent \/ locates(location)
  BY <1>4, <1>7, <1>8 DEF locates
<1>10. effect = acts(render(c, decision, payload), gateAt(c), payload)
  BY <1>5, <1>6 DEF render, entry
<1>11. CASE gateAt(c) = "request"
  <2>1. effect = refused
    BY <1>9, <1>11, RefusalIsRefused DEF entry
  <2> QED BY <1>10, <2>1 DEF settled
<1>12. CASE gateAt(c) = "result"
  <2>1. entry = d.hooks[hookAt(d.host, "result")] /\ payload \in Ends[d.host][c]
    BY <1>1, <1>12 DEF entry, payloadsAt
  <2>2. entry.outputs # Absent
    <3>1. CASE host = "opencode"
      <4>1. hookAt(host, "result") = "tool.execute.after"
        BY <3>1 DEF hookAt
      <4>2. assertOpenCodeAccepts(hooks)
        BY <1>1, <3>1 DEF accepts
      <4>3. assertEntryMatchesGate(hooks["tool.execute.after"], "tool.execute.after")
        BY <1>3, <1>12, <4>1, <4>2 DEF assertOpenCodeAccepts
      <4> QED BY <1>1, <2>1, <4>1, <4>3 DEF assertEntryMatchesGate
    <3>2. CASE host # "opencode"
      <4>1. d.host = "claude-code"
        BY <1>1, <3>2, DeployedRules DEF Hosts
      <4> QED BY <1>3, <2>1, <4>1, WithholdingAssumption
    <3> QED BY <3>1, <3>2
  <2>3. location = [payload |-> payload, outputs |-> entry.outputs]
    BY <1>8, <2>2
  <2>4. location # Absent /\ replacingOutput(location, Withheld) # Absent
    BY <1>3, <2>1, <2>3, WithholdingAssumption
  <2>5. location.payload = payload /\ location.outputs = entry.outputs
    BY <2>3
  <2>6. effect = refused \/ masks(location.outputs, location.payload, effect.doc)
    BY <1>9, <1>12, <2>4, <2>5, RefusalWithholds DEF entry
  <2> QED BY <1>6, <1>10, <1>12, <2>5, <2>6 DEF settled, entry
<1> QED BY <1>2, <1>11, <1>12 DEF Gates

LEMMA ByPostureSettles ==
  ASSUME Deployed, NEW c \in Calls, NEW posture \in postures, NEW stage, NEW asked,
         live'[c] \in payloadsAt(host, gateAt(c), c), byPosture(c, posture, stage, asked)
  PROVE  \E effect : /\ effect.kind \in kinds /\ ended(c, posture, stage, effect, asked)
                     /\ settled(c, posture, live'[c], effect)
<1>1. PICK payload, effect : payload = live'[c] /\ effect = acts(render(c, posture, payload), gateAt(c), payload)
  OBVIOUS
<1>2. ended(c, posture, stage, effect, asked)
  BY <1>1 DEF byPosture
<1>3. effect.kind \in kinds
  BY <1>1, ActsKind DEF kinds
<1>4. settled(c, posture, payload, effect)
  <2>1. payload \in payloadsAt(host, gateAt(c), c) /\ isDecision(posture)
    BY <1>1, PostureIsDecision
  <2>2. posture.decision \in Refusals => settled(c, posture, payload, effect)
    BY <1>1, <2>1, RefusalSettles
  <2> QED BY <2>2 DEF settled
<1> QED BY <1>1, <1>2, <1>3, <1>4

LEMMA ByDecisionSettles ==
  ASSUME Deployed, NEW c \in Calls, NEW decision, decision.decision \in Refusals => isDecision(decision),
         NEW posture \in postures, NEW asked, live'[c] \in payloadsAt(host, gateAt(c), c),
         byDecision(c, decision, posture, asked)
  PROVE  \E d, stage, effect :
           /\ stage # "undecided" /\ effect.kind \in kinds /\ ended(c, d, stage, effect, asked)
           /\ settled(c, d, live'[c], effect)
<1>1. PICK payload, output : payload = live'[c] /\ output = render(c, decision, payload)
  OBVIOUS
<1>2. CASE output = Throws
  <2>1. byPosture(c, posture, "render", asked)
    BY <1>1, <1>2 DEF byDecision
  <2>2. PICK effect : /\ effect.kind \in kinds /\ ended(c, posture, "render", effect, asked)
                      /\ settled(c, posture, live'[c], effect)
    <3>1. PICK stage : stage = "render"
      OBVIOUS
    <3> QED BY <2>1, <3>1, ByPostureSettles
  <2> QED BY <2>2
<1>3. CASE output # Throws
  <2>1. PICK effect : effect = acts(output, gateAt(c), payload)
    OBVIOUS
  <2>2. ended(c, decision, "honoured", effect, asked)
    BY <1>1, <1>3, <2>1 DEF byDecision
  <2>3. effect.kind \in kinds
    BY <2>1, ActsKind DEF kinds
  <2>4. settled(c, decision, payload, effect)
    <3>1. payload \in payloadsAt(host, gateAt(c), c)
      BY <1>1
    <3>2. decision.decision \in Refusals => settled(c, decision, payload, acts(render(c, decision, payload), gateAt(c), payload))
      BY <3>1, RefusalSettles
    <3> QED BY <1>1, <2>1, <3>2 DEF settled
  <2> QED BY <1>1, <2>2, <2>3, <2>4
<1> QED BY <1>2, <1>3

\* A step that a hook hands to the host without asking about it.
LEMMA FireSettles ==
  ASSUME Deployed, NEW c \in Calls, NEW payload \in payloadsAt(host, gateAt(c), c), live'[c] = payload,
         NEW posture \in postures, Fire(c, payload, posture)
  PROVE  \/ UNCHANGED outcome
         \/ \E decision, stage, effect :
              /\ stage \notin {"undecided", "honoured"} /\ effect.kind \in kinds
              /\ ended(c, decision, stage, effect, Absent) /\ settled(c, decision, live'[c], effect)
<1> DEFINE un == ~usable(payload) \/ (host # "opencode" /\ entryAt(c).tools # Absent)
           gov == governsTool(entryAt(c), payload)
           e == buildEnvelope(entryAt(c), payload, TRUE)
           unrep == locationAt(c, payload) # Absent /\ ~assertOutputIsReplaceable(locationAt(c, payload))
           passed == [kind |-> "ungoverned", doc |-> Absent]
<1>1. \/ ended(c, Absent, "unusable", refused, Absent)
      \/ ended(c, Absent, "ungoverned", passed, Absent)
      \/ byPosture(c, posture, "request", Absent)
      \/ ended(c, Absent, "unreplaceable", refused, Absent)
      \/ UNCHANGED outcome
  <2>1. IF un THEN ended(c, Absent, "unusable", refused, Absent)
        ELSE IF ~gov THEN ended(c, Absent, "ungoverned", passed, Absent)
        ELSE IF e = Throws THEN byPosture(c, posture, "request", Absent)
        ELSE IF unrep THEN ended(c, Absent, "unreplaceable", refused, Absent)
        ELSE UNCHANGED outcome
    BY DEF Fire
  <2> HIDE DEF un, gov, e, unrep, passed
  <2> QED BY <2>1
<1>2. \A effect : settled(c, Absent, live'[c], effect)
  BY DEF settled
<1>3. passed.kind \in kinds /\ refused.kind \in kinds
  BY DEF kinds, refused
<1> HIDE DEF passed
<1>4. CASE ended(c, Absent, "unusable", refused, Absent)
  BY <1>2, <1>3, <1>4
<1>5. CASE ended(c, Absent, "ungoverned", passed, Absent)
  BY <1>2, <1>3, <1>5
<1>6. CASE ended(c, Absent, "unreplaceable", refused, Absent)
  BY <1>2, <1>3, <1>6
<1>7. CASE byPosture(c, posture, "request", Absent)
  <2>1. PICK stage, asked : stage = "request" /\ asked = Absent
    OBVIOUS
  <2>2. PICK effect : /\ effect.kind \in kinds /\ ended(c, posture, stage, effect, asked)
                      /\ settled(c, posture, live'[c], effect)
    BY <1>7, <2>1, ByPostureSettles
  <2>3. stage \notin {"undecided", "honoured"}
    BY <2>1
  <2> QED BY <2>1, <2>2, <2>3
<1> QED BY <1>1, <1>4, <1>5, <1>6, <1>7

\* The refusals that steps ended with.
RecordedRefusals ==
  \A c \in Calls : at_(outcome[c].request, Refusals) => outcome[c].request.effect = refused

\* A step that is over keeps every refusal one, and every output withheld.
LEMMA OverKeepsSettled ==
  ASSUME TypeInv, RecordedRefusals, WithheldIsGone, UNCHANGED <<host, hooks>>,
         NEW c \in Calls, at[c] # "done", NEW decision, NEW stage, NEW effect, NEW asked,
         stage # "undecided", effect.kind \in kinds, ended(c, decision, stage, effect, asked),
         settled(c, decision, live'[c], effect)
  PROVE  RecordedRefusals' /\ WithheldIsGone'
<1>1. gateAt(c) = "result" => outcome[c].request.effect.kind \in {"ran", "ungoverned"}
  BY DEF TypeInv, ResultsFollowRuns, CallTypeOK, gateAt
<1>2. /\ \A b \in Calls \ {c} : outcome'[b] = outcome[b]
      /\ outcome'[c][gateAt(c)].decision = decision /\ outcome'[c][gateAt(c)].effect = effect
      /\ outcome'[c][gateAt(c)].payload = live'[c]
      /\ \A gate \in Gates \ {gateAt(c)} : outcome'[c][gate] = outcome[c][gate]
  BY <1>1, EndedLeaves
<1>3. gateAt(c) \in Gates /\ Gates = {"request", "result"}
  BY DEF gateAt, Gates
<1>4. ASSUME NEW b \in Calls, at_(outcome'[b].request, Refusals)
      PROVE  outcome'[b].request.effect = refused
  <2>1. CASE b = c /\ gateAt(c) = "request"
    BY <1>2, <1>4, <2>1 DEF settled, at_
  <2>2. CASE b # c \/ gateAt(c) # "request"
    <3>1. outcome'[b].request = outcome[b].request
      BY <1>2, <1>3, <2>2
    <3> QED BY <1>4, <3>1 DEF RecordedRefusals
  <2> QED BY <2>1, <2>2
<1>5. hooks'[hookOf("result")'] = hooks[hookOf("result")]
  BY DEF hookOf
<1>6. ASSUME NEW b \in Calls, at_(outcome'[b].result, Refusals), outcome'[b].result.effect # refused
      PROVE  masks(hooks[hookOf("result")].outputs, outcome'[b].result.payload, outcome'[b].result.effect.doc)
  <2>1. CASE b = c /\ gateAt(c) = "result"
    <3>1. masks(entryAt(c).outputs, live'[c], effect.doc)
      BY <1>2, <1>6, <2>1 DEF settled, at_
    <3> QED BY <1>2, <2>1, <3>1 DEF entryAt
  <2>2. CASE b # c \/ gateAt(c) # "result"
    <3>1. outcome'[b].result = outcome[b].result
      BY <1>2, <1>3, <2>2
    <3> QED BY <1>6, <3>1 DEF WithheldIsGone
  <2> QED BY <2>1, <2>2
<1>7. RecordedRefusals'
  BY <1>4 DEF RecordedRefusals
<1>8. WithheldIsGone'
  BY <1>5, <1>6 DEF WithheldIsGone
<1> QED BY <1>7, <1>8

SettledInv == IdsInv /\ RecordedRefusals /\ WithheldIsGone

LEMMA SettledInit == Init => SettledInv
<1> SUFFICES ASSUME Init PROVE SettledInv
  OBVIOUS
<1>1. \A c \in Calls : outcome[c].request = undecided /\ outcome[c].result = undecided
  BY DEF Init, Gates
<1>2. ~at_(undecided, Refusals)
  BY DEF at_, undecided
<1>3. RecordedRefusals /\ WithheldIsGone
  BY <1>1, <1>2 DEF RecordedRefusals, WithheldIsGone
<1> QED BY <1>3, IdsInit DEF SettledInv

LEMMA SettledNext == SettledInv /\ [Next]_vars => SettledInv'
<1> SUFFICES ASSUME SettledInv, [Next]_vars PROVE RecordedRefusals' /\ WithheldIsGone'
  BY IdsNext DEF SettledInv
<1>0. TypeInv /\ CallTypeOK /\ Shapes /\ Deployed /\ Rebuildable /\ RecordedRefusals /\ WithheldIsGone
  BY DEF SettledInv, IdsInv, TypeInv
<1>a. ASSUME UNCHANGED <<host, hooks, outcome>> PROVE RecordedRefusals' /\ WithheldIsGone'
  BY <1>0, <1>a DEF RecordedRefusals, WithheldIsGone, hookOf
<1>b. ASSUME UNCHANGED <<host, hooks>>, NEW c \in Calls, at[c] # "done", NEW asked,
             \E decision, stage, effect :
               /\ stage # "undecided" /\ effect.kind \in kinds /\ ended(c, decision, stage, effect, asked)
               /\ settled(c, decision, live'[c], effect)
      PROVE  RecordedRefusals' /\ WithheldIsGone'
  BY <1>0, <1>b, OverKeepsSettled
<1>c. ASSUME NEW c \in Calls, waiting(c)
      PROVE  live'[c] \in payloadsAt(host, gateAt(c), c) /\ at[c] # "done" /\ UNCHANGED <<host, hooks>>
  <2>1. at[c] \in {"asking", "judging"} /\ live'[c] = live[c] /\ UNCHANGED <<host, hooks>>
    BY <1>c DEF waiting
  <2> QED BY <1>0, <2>1 DEF Rebuildable
<1>1. ASSUME NEW c \in Calls, NEW posture \in postures,
             NEW payload \in (IF at[c] = "new" THEN Starts[host][c] ELSE Ends[host][c]), Fire(c, payload, posture)
      PROVE  RecordedRefusals' /\ WithheldIsGone'
  <2>1. at[c] \in {"new", "ran"} /\ live'[c] = payload /\ UNCHANGED <<host, hooks>>
    <3>1. at[c] \in {"new", "ran"} /\ live'[c] = payload
      BY <1>0, <1>1, FireIsOverOrAsks
    <3>2. UNCHANGED <<host, hooks, seen>>
      BY <1>1 DEF Fire
    <3> QED BY <3>1, <3>2
  <2>2. payload \in payloadsAt(host, gateAt(c), c)
    BY <1>1, <2>1 DEF payloadsAt, gateAt
  <2>4. \/ UNCHANGED outcome
        \/ \E decision, stage, effect :
             /\ stage # "undecided" /\ effect.kind \in kinds /\ ended(c, decision, stage, effect, Absent)
             /\ settled(c, decision, live'[c], effect)
    BY <1>0, <1>1, <2>1, <2>2, FireSettles
  <2> QED BY <1>a, <1>b, <2>1, <2>4
<1>2. ASSUME NEW c \in Calls, AskAgain(c) PROVE RecordedRefusals' /\ WithheldIsGone'
  BY <1>2, <1>a DEF AskAgain, waiting
<1>3. ASSUME NEW c \in Calls, Repeat(c) PROVE RecordedRefusals' /\ WithheldIsGone'
  <2>1. outcome' = [outcome EXCEPT ![c].request = undecided]
    BY <1>3 DEF Repeat
  <2>2. /\ outcome'[c].request = undecided /\ outcome'[c].result = outcome[c].result
        /\ \A b \in Calls \ {c} : outcome'[b] = outcome[b]
    BY <1>0, <2>1 DEF Shapes, Gates
  <2>3. ~at_(undecided, Refusals)
    BY DEF at_, undecided
  <2>4. hooks'[hookOf("result")'] = hooks[hookOf("result")]
    BY <1>3 DEF Repeat, hookOf
  <2>5. RecordedRefusals'
    BY <1>0, <2>2, <2>3 DEF RecordedRefusals
  <2>6. \A b \in Calls : outcome'[b].result = outcome[b].result
    BY <2>2
  <2>7. WithheldIsGone'
    BY <1>0, <2>4, <2>6 DEF WithheldIsGone
  <2> QED BY <2>5, <2>7
<1>4. ASSUME NEW c \in Calls, NEW decision \in Decisions[gateAt(c)], NEW late, NEW posture \in postures,
             Answered(c, decision, late, posture)
      PROVE  RecordedRefusals' /\ WithheldIsGone'
  <2> DEFINE document == modificationDocumentOf(envelope[c].payload, envelope[c].tool)
             location == locationAt(c, live[c])
             resolution == CASE decision.decision = "modify" -> resolveModify(decision, document, location)
                             [] decision.decision \in {"ask", "defer"} /\ late -> deny("expired")
                             [] OTHER -> decision
  <2>1. waiting(c) /\ byDecision(c, resolution, posture, envelope[c])
    BY <1>4, Zenon DEF Answered
  <2>2. PICK doc, loc, resolved : doc = document /\ loc = location /\ resolved = resolution
    OBVIOUS
  <2>3. gateAt(c) \in Gates
    BY DEF gateAt, Gates
  <2>4. isDecision(decision)
    <3>1. PICK gate \in Gates : gate = gateAt(c) /\ decision \in Decisions[gate]
      BY <2>3
    <3> QED BY <3>1, ResolvedIsDecision
  <2>5. resolved.decision \in Refusals => isDecision(resolved)
    <3>1. CASE decision.decision = "modify"
      <4>1. resolved = resolveModify(decision, doc, loc)
        BY <2>2, <3>1
      <4>2. resolved = deny("modifications_invalid") \/ resolved.decision = decision.decision
        <5>1. PICK gate \in Gates : gate = gateAt(c) /\ decision \in Decisions[gate]
          BY <2>3
        <5> QED BY <4>1, <5>1, ResolvedIsDecision
      <4> QED BY <3>1, <4>2, DenyIsDecision DEF Refusals
    <3>2. CASE decision.decision \in {"ask", "defer"} /\ late
      <4>1. resolved = deny("expired")
        BY <2>2, <3>2
      <4> QED BY <4>1, DenyIsDecision
    <3>3. CASE decision.decision # "modify" /\ ~(decision.decision \in {"ask", "defer"} /\ late)
      <4>1. resolved = decision
        BY <2>2, <3>3
      <4> QED BY <2>4, <4>1
    <3> QED BY <3>1, <3>2, <3>3
  <2>6. PICK asked : asked = envelope[c] /\ byDecision(c, resolved, posture, asked)
    BY <2>1, <2>2
  <2>7. live'[c] \in payloadsAt(host, gateAt(c), c) /\ at[c] # "done" /\ UNCHANGED <<host, hooks>>
    BY <1>c, <2>1
  <2>8. \E d, stage, effect :
          /\ stage # "undecided" /\ effect.kind \in kinds /\ ended(c, d, stage, effect, asked)
          /\ settled(c, d, live'[c], effect)
    BY <1>0, <2>5, <2>6, <2>7, ByDecisionSettles
  <2> QED BY <1>b, <2>7, <2>8
<1>5. ASSUME NEW c \in Calls, NEW recorded, NEW posture \in postures, Unanswered(c, recorded, posture)
      PROVE  RecordedRefusals' /\ WithheldIsGone'
  <2>1. PICK stage, asked : stage = "delivery" /\ asked = envelope[c]
    OBVIOUS
  <2>2. waiting(c) /\ byPosture(c, posture, stage, asked) /\ stage # "undecided"
    BY <1>5, <2>1 DEF Unanswered
  <2>3. live'[c] \in payloadsAt(host, gateAt(c), c) /\ at[c] # "done" /\ UNCHANGED <<host, hooks>>
    BY <1>c, <2>2
  <2>4. PICK effect : /\ effect.kind \in kinds /\ ended(c, posture, stage, effect, asked)
                      /\ settled(c, posture, live'[c], effect)
    BY <1>0, <2>2, <2>3, ByPostureSettles
  <2> QED BY <1>b, <2>2, <2>3, <2>4
<1>6. CASE UNCHANGED vars
  BY <1>6, <1>a DEF vars
<1> QED BY <1>1, <1>2, <1>3, <1>4, <1>5, <1>6 DEF Next, Host, Guardian

(* An output withheld at the result gate is gone from the leaf that was     *)
(* asked about, from its mirrors and, where mirrors are declared, from every *)
(* other field, and nothing else of it is changed: under every hookmap the   *)
(* host's gate lets load that WithholdingAssumption describes, for every     *)
(* output that can be patched, and whichever of the decision and the posture *)
(* withholds it (result-output.ts, render-decision.ts, mergeInPlace).        *)
THEOREM WithheldIsGoneHolds == Spec => []WithheldIsGone
<1>1. SettledInv => WithheldIsGone
  BY DEF SettledInv
<1> QED BY <1>1, SettledInit, SettledNext, PTL DEF Spec

------------------------------------------------------------------------------
(* What an allow leaves alone. *)

\* A rule that writes nowhere near a path leaves nothing there.
LEMMA SinkIsEmpty ==
  ASSUME NEW rule, wellRuled(rule), NEW decision, carriesDocuments(decision), NEW output,
         fieldsPlaced(output, rule, decision, Len(rule)),
         NEW sink \in Path, \A i \in DOMAIN rule : ~Overlap(sink, rule[i].path)
  PROVE  ~Present(output, sink) /\ DOMAIN resolve(output, sink) = {}
<1>1. /\ isDocument(output) /\ DOMAIN output \subseteq Path /\ DOMAIN rule = 1..Len(rule)
      /\ \A i \in DOMAIN rule : rule[i].path \in Path
  BY DEF fieldsPlaced, isDocument, wellRuled, Path
<1>2. ASSUME NEW q \in DOMAIN output, IsPrefix(sink, q) PROVE FALSE
  <2>1. PICK j \in DOMAIN rule : isPlacedBy(rule[j], decision, q)
    BY <1>1 DEF fieldsPlaced
  <2>2. PICK t \in DOMAIN carried(rule[j], decision) : q = rule[j].path \o t
    BY <2>1 DEF isPlacedBy
  <2>3. t \in Path /\ rule[j].path \in Path
    BY <1>1, <2>1, <2>2, CarriedIs DEF isPlacedBy, isDocument, Path
  <2>4. IsPrefix(rule[j].path, q)
    BY <2>2, <2>3, PrefixConcat
  <2>5. Overlap(sink, rule[j].path)
    BY <1>1, <1>2, <2>3, <2>4, PrefixOrder DEF Overlap
  <2> QED BY <2>5
<1>3. DOMAIN resolve(output, sink) = {}
  <2>1. {r \in DOMAIN output : IsPrefix(sink, r)} = {}
    BY <1>2
  <2> QED BY <2>1 DEF resolve
<1> QED BY <1>2, <1>3 DEF Present

LEMMA MergeNothing ==
  ASSUME NEW target, isDocument(target), NEW source, DOMAIN source = {}
  PROVE  mergeInPlace(target, source) = target
<1>1. mergeInPlace(target, source) = [q \in DOMAIN target |-> target[q]]
  <2>1. {q \in DOMAIN target : \A s \in DOMAIN source : ~Overlap(q, s)} = DOMAIN target
    OBVIOUS
  <2> QED BY <2>1 DEF mergeInPlace
<1> QED BY <1>1 DEF isDocument

\* What is found inside a part of a document is found in the document.
LEMMA ResolveTwice ==
  ASSUME NEW doc, isDocument(doc), NEW from \in Path, NEW within \in Path, IsPrefix(within, from)
  PROVE  resolve(resolve(doc, within), relative(from, within)) = resolve(doc, from)
<1>1. PICK leaf \in Path : leaf = relative(from, within) /\ within \o leaf = from
  BY PrefixSplits
<1>2. PICK inner : inner = resolve(doc, within)
  OBVIOUS
<1>3. /\ isDocument(inner) /\ \A s : s \in DOMAIN inner <=> s \in Path /\ within \o s \in DOMAIN doc
      /\ \A s \in DOMAIN inner : inner[s] = doc[within \o s]
  BY <1>2, ResolveIs
<1>4. PICK x, y : x = resolve(inner, leaf) /\ y = resolve(doc, from)
  OBVIOUS
<1>5. /\ isDocument(x) /\ \A s : s \in DOMAIN x <=> s \in Path /\ leaf \o s \in DOMAIN inner
      /\ \A s \in DOMAIN x : x[s] = inner[leaf \o s]
  BY <1>3, <1>4, ResolveIs
<1>6. /\ isDocument(y) /\ \A s : s \in DOMAIN y <=> s \in Path /\ from \o s \in DOMAIN doc
      /\ \A s \in DOMAIN y : y[s] = doc[from \o s]
  BY <1>4, ResolveIs
<1>7. \A s \in Path : leaf \o s \in Path /\ within \o (leaf \o s) = from \o s
  <2> TAKE s \in Path
  <2>1. leaf \o s \in Path
    BY PrefixConcat
  <2>2. (within \o leaf) \o s = within \o (leaf \o s)
    BY ConcatAssociative DEF Path
  <2> QED BY <1>1, <2>1, <2>2
<1>8. \A s : s \in DOMAIN x <=> s \in DOMAIN y
  BY <1>3, <1>5, <1>6, <1>7
<1>9. \A s \in DOMAIN x : x[s] = y[s]
  <2> TAKE s \in DOMAIN x
  <2>1. s \in Path /\ leaf \o s \in DOMAIN inner /\ x[s] = inner[leaf \o s]
    BY <1>5
  <2>2. inner[leaf \o s] = doc[within \o (leaf \o s)]
    BY <1>3, <2>1
  <2>3. y[s] = doc[from \o s]
    BY <1>6, <1>8
  <2> QED BY <1>7, <2>1, <2>2, <2>3
<1>10. x = y
  <2>1. x = [s \in DOMAIN x |-> x[s]] /\ y = [s \in DOMAIN y |-> y[s]]
    BY <1>5, <1>6 DEF isDocument
  <2>2. DOMAIN x = DOMAIN y
    BY <1>8
  <2> QED BY <1>9, <2>1, <2>2
<1> QED BY <1>1, <1>2, <1>4, <1>10

\* What an envelope says of the step it asks about.
shows(entry, payload, e) ==
  LET acs == buildPayload(entry, payload)
  IN  /\ acs # Throws /\ e.payload.arguments = acs.arguments /\ e.payload.value = acs.value
      /\ resolve(payload, entry.tool_name) = Str(e.tool)

LEMMA EnvelopeShows ==
  ASSUME NEW entry, NEW payload, isDocument(payload),
         \A leaf \in Range(payload) : leaf = [type |-> leaf.type, text |-> leaf.text],
         entry.tool_name \in Path, NEW pair, buildable(entry, payload)
  PROVE  shows(entry, payload, buildEnvelope(entry, payload, pair))
<1> DEFINE acs == buildPayload(entry, payload)
           tool == resolve(payload, entry.tool_name)
           e == buildEnvelope(entry, payload, pair)
<1>1. acs # Throws /\ typeOf(tool) = "string"
  BY DEF buildable
<1>2. "value" \in DOMAIN acs /\ "request_id_ref" \in DOMAIN acs /\ "arguments" \in DOMAIN acs
  BY <1>1 DEF buildPayload, requestPayload, resultPayload
<1>3. \E ref : e.payload = [acs EXCEPT !.request_id_ref = ref] /\ e.tool = tool[<<>>].text
  <2> HIDE DEF acs, tool
  <2>1. \E method, session, id, rpc, ref :
          e = [method |-> method, session |-> session, tool |-> tool[<<>>].text, request_id |-> id,
               id |-> rpc, payload |-> [acs EXCEPT !.request_id_ref = ref]]
    BY DEF buildEnvelope, buildable, acs, tool
  <2>2. PICK method, session, id, rpc, ref :
          e = [method |-> method, session |-> session, tool |-> tool[<<>>].text, request_id |-> id,
               id |-> rpc, payload |-> [acs EXCEPT !.request_id_ref = ref]]
    BY <2>1
  <2>3. e.payload = [acs EXCEPT !.request_id_ref = ref] /\ e.tool = tool[<<>>].text
    <3> HIDE DEF e
    <3> QED BY <2>2
  <2> QED BY <2>3
<1> HIDE DEF acs, e
<1>4. e.payload.arguments = acs.arguments /\ e.payload.value = acs.value /\ e.tool = tool[<<>>].text
  BY <1>2, <1>3
<1>5. /\ isDocument(tool) /\ <<>> \in DOMAIN tool /\ tool[<<>>].type = "string"
      /\ tool[<<>>] = [type |-> tool[<<>>].type, text |-> tool[<<>>].text]
  <2>1. /\ isDocument(tool) /\ \A s \in DOMAIN tool : s \in Path /\ entry.tool_name \o s \in DOMAIN payload
        /\ \A s \in DOMAIN tool : tool[s] = payload[entry.tool_name \o s]
    BY ResolveIs
  <2> HIDE DEF tool
  <2>2. <<>> \in DOMAIN tool /\ tool[<<>>].type = "string"
    BY <1>1 DEF typeOf, isPlainObject
  <2>3. tool[<<>>] \in Range(payload)
    BY <2>1, <2>2 DEF Range
  <2> QED BY <2>1, <2>2, <2>3
<1> HIDE DEF tool
<1>6. tool = Str(tool[<<>>].text)
  <2>1. DOMAIN tool = {<<>>} /\ tool = [s \in DOMAIN tool |-> tool[s]]
    <3>1. \A s \in DOMAIN tool : s \in Path /\ IsPrefix(<<>>, s)
      <4> TAKE s \in DOMAIN tool
      <4>1. <<>> \in Path /\ Len(<<>>) = 0 /\ s \in Path /\ Len(s) \in Nat
        BY <1>5 DEF isDocument, Path
      <4> QED BY <4>1, PrefixPoints
    <3>2. \A r, s \in DOMAIN tool : IsPrefix(r, s) => r = s
      BY <1>5 DEF isDocument
    <3>3. DOMAIN tool = {<<>>}
      BY <1>5, <3>1, <3>2
    <3> QED BY <1>5, <3>3 DEF isDocument
  <2> QED BY <1>5, <2>1 DEF Str, Leaf
<1> QED BY <1>1, <1>4, <1>6 DEF shows, acs, tool, e

\* Where the hookmap of a deployment shows a step from.
LEMMA DeployedShows ==
  ASSUME Deployed, NEW gate \in Gates
  PROVE  LET entry == hooks[hookAt(host, gate)]
         IN  /\ entry.tool_name = IF host = "opencode" THEN <<"tool">> ELSE <<"tool_name">>
             /\ entry.tool_name \in Path /\ sinkAt(host, gate) \in Path
             /\ \A i \in DOMAIN entry.decisions["allow"] :
                  ~Overlap(sinkAt(host, gate), entry.decisions["allow"][i].path)
             /\ "allow" \in DOMAIN entry.decisions /\ wellRuled(entry.decisions["allow"])
             /\ gate = "request" => /\ entry.outputs = Absent
                                    /\ entry.arguments = IF host = "opencode" THEN <<"args">> ELSE <<"tool_input">>
             /\ gate = "result" =>
                  /\ entry.outputs # Absent /\ entry.outputs.from \in Path /\ entry.outputs.within \in Path
                  /\ entry.outputs.within = IF host = "opencode" THEN <<"result">> ELSE <<"tool_response">>
<1>1. PICK d \in Hookmaps : accepts(d) /\ host = d.host /\ hooks = d.hooks
  BY DEF Deployed
<1>2. d \in {e \in Hookmaps : accepts(e)} /\ hookAt(host, gate) \in DOMAIN hooks /\ host \in Hosts
  BY <1>1, DeployedRules
<1> DEFINE entry == hooks[hookAt(host, gate)]
<1>3. "allow" \in DOMAIN entry.decisions /\ wellRuled(entry.decisions["allow"])
  <2>1. assertRenderableDecisions(hooks)
    BY <1>1 DEF accepts, loadHookmap
  <2>2. "allow" \in DOMAIN entry.decisions
    BY <1>2, <2>1 DEF assertRenderableDecisions
  <2> QED BY <1>2, <2>2, DeployedRules
<1>4. sinkAt(host, gate) \in Path
  <2>1. <<"args">> \in Path /\ <<"result">> \in Path
    BY NameAssumption, OneName
  <2>2. UpdatedInput \in Path /\ UpdatedToolOutput \in Path
    BY NameAssumption, TwoNames DEF UpdatedInput, UpdatedToolOutput
  <2> QED BY <2>1, <2>2 DEF sinkAt
<1>5. <<"tool">> \in Path /\ <<"tool_name">> \in Path
  BY NameAssumption, OneName
<1>6. \A i \in DOMAIN entry.decisions["allow"] : ~Overlap(sinkAt(host, gate), entry.decisions["allow"][i].path)
  BY <1>1, <1>2, ShowingAssumption
<1>7. /\ entry.tool_name = IF host = "opencode" THEN <<"tool">> ELSE <<"tool_name">>
      /\ gate = "request" => /\ entry.outputs = Absent
                             /\ entry.arguments = IF host = "opencode" THEN <<"args">> ELSE <<"tool_input">>
      /\ gate = "result" =>
           /\ entry.outputs # Absent
           /\ entry.outputs.within = IF host = "opencode" THEN <<"result">> ELSE <<"tool_response">>
  <2>1. CASE host = "opencode"
    <3>1. hookAt(host, gate) = IF gate = "request" THEN "tool.execute.before" ELSE "tool.execute.after"
      BY <2>1 DEF hookAt
    <3>2. assertOpenCodeAccepts(hooks)
      BY <1>1, <2>1 DEF accepts
    <3>3. assertEntryMatchesGate(entry, hookAt(host, gate))
      BY <1>2, <3>2 DEF assertOpenCodeAccepts
    <3> HIDE DEF entry
    <3> QED BY <2>1, <3>1, <3>3 DEF assertEntryMatchesGate
  <2>2. CASE host # "opencode"
    <3>1. host = "claude-code"
      BY <1>2, <2>2 DEF Hosts
    <3>2. /\ entry.tool_name = <<"tool_name">>
          /\ gate = "request" => entry.arguments = <<"tool_input">> /\ entry.outputs = Absent
      BY <1>1, <1>2, <3>1, ShowingAssumption
    <3>3. gate = "result" => entry.outputs # Absent /\ entry.outputs.within = <<"tool_response">>
      BY <1>1, <1>2, <3>1, WithholdingAssumption
    <3> HIDE DEF entry
    <3> QED BY <2>2, <3>2, <3>3
  <2> QED BY <2>1, <2>2
<1>8. entry.outputs = Absent \/ (entry.outputs.from \in Path /\ entry.outputs.within \in Path)
  BY <1>1, <1>2, DeploymentAssumption DEF Path
<1> HIDE DEF entry
<1> QED BY <1>3, <1>4, <1>5, <1>6, <1>7, <1>8 DEF entry

------------------------------------------------------------------------------
(* What becomes of a refusal that came. *)

\* How a step ended at the request gate whose Guardian sent a decision.
answers(came, stage, decision, effect) ==
  came # Absent /\ came.decision \in Refusals /\ effect # refused =>
    /\ renderDecision(hooks[hookOf("request")].decisions, came) = Throws
    /\ stage = "render" /\ decision.decision = "allow"

\* Nothing has come for a step that is not over, or that got no decision.
ArrivedRefusals ==
  /\ DOMAIN arrived = Calls /\ \A c \in Calls : DOMAIN arrived[c] = Gates
  /\ \A c \in Calls :
       LET o == outcome[c].request
       IN  /\ o.stage \in {"undecided", "delivery"} => arrived[c].request = Absent
           /\ answers(arrived[c].request, o.stage, o.decision, o.effect)

\* At the request gate a decision is rendered as it came.
LEMMA RequestRenders ==
  ASSUME Deployed, NEW c \in Calls, gateAt(c) = "request", NEW decision, NEW payload
  PROVE  render(c, decision, payload) = renderDecision(hooks[hookOf("request")].decisions, decision)
<1>1. entryAt(c) = hooks[hookOf("request")] /\ hookOf("request") = hookAt(host, "request")
  BY DEF entryAt, hookOf
<1>2. "request" \in Gates
  BY DEF Gates
<1>3. entryAt(c).outputs = Absent
  BY <1>1, <1>2, DeployedShows
<1>4. withResultOutput(decision, locationAt(c, payload)) = decision
  BY <1>3 DEF locationAt, withResultOutput
<1> QED BY <1>1, <1>4 DEF render

\* At the request gate a refusal refuses, rendered or not.
LEMMA RequestRefuses ==
  ASSUME Deployed, NEW c \in Calls, gateAt(c) = "request", NEW decision, isDecision(decision),
         decision.decision \in Refusals, NEW payload
  PROVE  acts(render(c, decision, payload), gateAt(c), payload) = refused
<1>1. "request" \in Gates /\ hookOf("request") = hookAt(host, "request")
  BY DEF Gates, hookOf
<1>2. PICK location : location = Absent
  OBVIOUS
<1>3. withResultOutput(decision, location) = decision
  BY <1>2 DEF withResultOutput
<1>4. acts(renderDecision(hooks[hookAt(host, "request")].decisions, withResultOutput(decision, location)),
           "request", payload) = refused
  BY <1>1, <1>2, RefusalIsRefused
<1> QED BY <1>1, <1>3, <1>4, RequestRenders

\* By its decision, a step ends as that decision was rendered, or by a posture.
LEMMA ByDecisionAnswers ==
  ASSUME Deployed, NEW c \in Calls, gateAt(c) = "request",
         NEW decision, decision.decision \in Refusals => isDecision(decision),
         NEW posture \in postures, NEW asked, byDecision(c, decision, posture, asked)
  PROVE  \E d, stage, effect :
           /\ stage # "undecided" /\ effect.kind \in kinds /\ ended(c, d, stage, effect, asked)
           /\ answers(decision, stage, d, effect) /\ stage # "delivery"
<1>1. PICK payload, output : payload = live'[c] /\ output = render(c, decision, payload)
  OBVIOUS
<1>2. output = renderDecision(hooks[hookOf("request")].decisions, decision)
  BY <1>1, RequestRenders
<1>3. CASE output = Throws
  <2>1. PICK stage : stage = "render"
    OBVIOUS
  <2>2. byPosture(c, posture, stage, asked)
    BY <1>1, <1>3, <2>1 DEF byDecision
  <2>3. PICK effect : /\ effect = acts(render(c, posture, payload), gateAt(c), payload)
                      /\ effect.kind \in kinds /\ ended(c, posture, stage, effect, asked)
    <3>1. PICK effect : effect = acts(render(c, posture, payload), gateAt(c), payload)
      OBVIOUS
    <3>2. ended(c, posture, stage, effect, asked)
      BY <1>1, <2>2, <3>1 DEF byPosture
    <3>3. effect.kind \in kinds
      BY <3>1, ActsKind DEF kinds
    <3> QED BY <3>1, <3>2, <3>3
  <2>4. posture.decision \in {"allow", "deny"} /\ isDecision(posture)
    BY PostureIsDecision
  <2>5. effect # refused => posture.decision = "allow"
    BY <2>3, <2>4, RequestRefuses DEF Refusals
  <2>6. answers(decision, stage, posture, effect)
    BY <1>2, <1>3, <2>1, <2>5 DEF answers
  <2> QED BY <2>1, <2>3, <2>6
<1>4. CASE output # Throws
  <2>1. PICK stage, effect : stage = "honoured" /\ effect = acts(output, gateAt(c), payload)
    OBVIOUS
  <2>2. ended(c, decision, stage, effect, asked)
    BY <1>1, <1>4, <2>1 DEF byDecision
  <2>3. effect.kind \in kinds
    BY <2>1, ActsKind DEF kinds
  <2>4. decision.decision \in Refusals => effect = refused
    BY <1>1, <2>1, RequestRefuses
  <2>5. answers(decision, stage, decision, effect)
    BY <2>4 DEF answers
  <2> QED BY <2>1, <2>2, <2>3, <2>5
<1> QED BY <1>3, <1>4

\* What has come is what had come, but for one step.
becomes(c, came) ==
  /\ DOMAIN arrived' = Calls /\ \A b \in Calls : DOMAIN arrived'[b] = Gates
  /\ \A b \in Calls \ {c} : arrived'[b] = arrived[b]
  /\ arrived'[c][gateAt(c)] = came /\ \A gate \in Gates \ {gateAt(c)} : arrived'[c][gate] = arrived[c][gate]

\* A step that is over keeps every refusal that came what it was.
LEMMA OverKeepsArrived ==
  ASSUME TypeInv, ArrivedRefusals, UNCHANGED <<host, hooks>>, NEW c \in Calls, at[c] # "done",
         NEW decision, NEW stage, NEW effect, NEW asked,
         stage # "undecided", effect.kind \in kinds, ended(c, decision, stage, effect, asked),
         NEW came, becomes(c, came),
         gateAt(c) = "request" => answers(came, stage, decision, effect) /\ (stage = "delivery" => came = Absent)
  PROVE  ArrivedRefusals'
<1>1. gateAt(c) = "result" => outcome[c].request.effect.kind \in {"ran", "ungoverned"}
  BY DEF TypeInv, ResultsFollowRuns, CallTypeOK, gateAt
<1>2. /\ \A b \in Calls \ {c} : outcome'[b] = outcome[b]
      /\ outcome'[c][gateAt(c)].decision = decision /\ outcome'[c][gateAt(c)].effect = effect
      /\ outcome'[c][gateAt(c)].stage = stage /\ outcome'[c][gateAt(c)] # undecided
      /\ \A gate \in Gates \ {gateAt(c)} : outcome'[c][gate] = outcome[c][gate]
  BY <1>1, EndedLeaves
<1>3. gateAt(c) \in Gates /\ Gates = {"request", "result"}
  BY DEF gateAt, Gates
<1>4. PICK g : g = gateAt(c)
  OBVIOUS
<1>6. /\ DOMAIN arrived' = Calls /\ \A b \in Calls : DOMAIN arrived'[b] = Gates
      /\ \A b \in Calls \ {c} : arrived'[b] = arrived[b]
      /\ arrived'[c][g] = came /\ \A gate \in Gates \ {g} : arrived'[c][gate] = arrived[c][gate]
  BY <1>4 DEF becomes
<1>7. hooks' = hooks /\ hookOf("request")' = hookOf("request")
  BY DEF hookOf
<1>8. ASSUME NEW b \in Calls
      PROVE  /\ outcome'[b].request.stage \in {"undecided", "delivery"} => arrived'[b].request = Absent
             /\ answers(arrived[b].request, outcome[b].request.stage, outcome[b].request.decision,
                        outcome[b].request.effect)'
  <2>1. CASE b = c /\ g = "request"
    <3>1. /\ arrived'[b].request = came
          /\ outcome'[b].request.stage = stage /\ outcome'[b].request.decision = decision
          /\ outcome'[b].request.effect = effect
      BY <1>2, <1>4, <1>6, <2>1
    <3>2. answers(came, stage, decision, effect) /\ (stage = "delivery" => came = Absent)
      BY <1>4, <2>1
    <3> QED BY <1>7, <3>1, <3>2 DEF answers, refused
  <2>2. CASE b # c \/ g # "request"
    <3>1. outcome'[b].request = outcome[b].request /\ arrived'[b].request = arrived[b].request
      BY <1>2, <1>3, <1>4, <1>6, <2>2
    <3> QED BY <1>7, <3>1 DEF ArrivedRefusals, answers, refused
  <2> QED BY <2>1, <2>2
<1> QED BY <1>6, <1>8 DEF ArrivedRefusals

ArrivedInv == SettledInv /\ ArrivedRefusals

LEMMA ArrivedInit == Init => ArrivedInv
<1> SUFFICES ASSUME Init PROVE ArrivedRefusals
  BY SettledInit DEF ArrivedInv
<1>1. /\ DOMAIN arrived = Calls /\ \A c \in Calls : DOMAIN arrived[c] = Gates
      /\ \A c \in Calls : arrived[c].request = Absent
  BY DEF Init, Gates
<1> QED BY <1>1 DEF ArrivedRefusals, answers

LEMMA ArrivedNext == ArrivedInv /\ [Next]_vars => ArrivedInv'
<1> SUFFICES ASSUME ArrivedInv, [Next]_vars PROVE ArrivedRefusals'
  BY SettledNext DEF ArrivedInv
<1>0. TypeInv /\ CallTypeOK /\ Shapes /\ Deployed /\ Rebuildable /\ ArrivedRefusals
  BY DEF ArrivedInv, SettledInv, IdsInv, TypeInv
<1>a. ASSUME UNCHANGED <<host, hooks, outcome, arrived>> PROVE ArrivedRefusals'
  BY <1>0, <1>a DEF ArrivedRefusals, answers, hookOf, refused
<1>b. ASSUME UNCHANGED <<host, hooks, arrived>>, NEW c \in Calls, at[c] # "done", NEW asked,
             \E decision, stage, effect :
               stage # "undecided" /\ effect.kind \in kinds /\ ended(c, decision, stage, effect, asked)
      PROVE  ArrivedRefusals'
  <2>1. PICK came : came = arrived[c][gateAt(c)]
    OBVIOUS
  <2>2. becomes(c, came)
    BY <1>0, <1>b, <2>1 DEF ArrivedRefusals, becomes
  <2>3. gateAt(c) = "request" => came = Absent
    <3>1. gateAt(c) = "request" => outcome[c].request = undecided
      BY <1>0, <1>b DEF CallTypeOK, gateAt
    <3>2. undecided.stage = "undecided"
      BY DEF undecided
    <3> QED BY <1>0, <2>1, <3>1, <3>2 DEF ArrivedRefusals
  <2>4. \A decision, stage, effect : gateAt(c) = "request" => answers(came, stage, decision, effect)
    BY <2>3 DEF answers
  <2> QED BY <1>0, <1>b, <2>2, <2>3, <2>4, OverKeepsArrived
<1>c. ASSUME NEW c \in Calls, waiting(c)
      PROVE  at[c] # "done" /\ UNCHANGED <<host, hooks>>
  BY <1>c DEF waiting
<1>1. ASSUME NEW c \in Calls, NEW payload, NEW posture, Fire(c, payload, posture)
      PROVE  ArrivedRefusals'
  <2>1. at[c] \in {"new", "ran"} /\ UNCHANGED <<host, hooks>>
    BY <1>0, <1>1, FireIsOverOrAsks
  <2>2. UNCHANGED arrived
    BY <1>1 DEF Fire
  <2>3. \/ UNCHANGED outcome
        \/ \E decision, stage, effect :
             stage # "undecided" /\ effect.kind \in kinds /\ ended(c, decision, stage, effect, Absent)
    BY <1>0, <1>1, FireIsOverOrAsks
  <2> QED BY <1>a, <1>b, <2>1, <2>2, <2>3
<1>2. ASSUME NEW c \in Calls, AskAgain(c) PROVE ArrivedRefusals'
  BY <1>2, <1>a DEF AskAgain, waiting
<1>3. ASSUME NEW c \in Calls, Repeat(c) PROVE ArrivedRefusals'
  <2>1. /\ outcome[c].request.stage = "delivery" /\ outcome' = [outcome EXCEPT ![c].request = undecided]
        /\ UNCHANGED <<host, hooks, arrived>>
    BY <1>3 DEF Repeat
  <2>2. /\ outcome'[c].request = undecided /\ \A b \in Calls \ {c} : outcome'[b] = outcome[b]
    BY <1>0, <2>1 DEF Shapes, Gates
  <2>3. arrived[c].request = Absent
    BY <1>0, <2>1 DEF ArrivedRefusals
  <2>4. hooks'[hookOf("request")'] = hooks[hookOf("request")]
    BY <2>1 DEF hookOf
  <2>5. ASSUME NEW b \in Calls
        PROVE  /\ outcome'[b].request.stage \in {"undecided", "delivery"} => arrived'[b].request = Absent
               /\ answers(arrived[b].request, outcome[b].request.stage, outcome[b].request.decision,
                          outcome[b].request.effect)'
    <3>1. CASE b = c
      BY <2>1, <2>3, <3>1 DEF answers
    <3>2. CASE b # c
      BY <1>0, <2>1, <2>2, <2>4, <3>2 DEF ArrivedRefusals, answers, refused
    <3> QED BY <3>1, <3>2
  <2> QED BY <1>0, <2>1, <2>5 DEF ArrivedRefusals
<1>4. ASSUME NEW c \in Calls, NEW decision \in Decisions[gateAt(c)], NEW late, NEW posture \in postures,
             Answered(c, decision, late, posture)
      PROVE  ArrivedRefusals'
  <2> DEFINE document == modificationDocumentOf(envelope[c].payload, envelope[c].tool)
             location == locationAt(c, live[c])
             resolution == CASE decision.decision = "modify" -> resolveModify(decision, document, location)
                             [] decision.decision \in {"ask", "defer"} /\ late -> deny("expired")
                             [] OTHER -> decision
  <2>1. waiting(c) /\ byDecision(c, resolution, posture, envelope[c])
    BY <1>4, Zenon DEF Answered
  <2>2. PICK doc, loc, resolved : doc = document /\ loc = location /\ resolved = resolution
    OBVIOUS
  <2>3. gateAt(c) \in Gates
    BY DEF gateAt, Gates
  <2>4. isDecision(decision)
    <3>1. PICK gate \in Gates : gate = gateAt(c) /\ decision \in Decisions[gate]
      BY <2>3
    <3> QED BY <3>1, ResolvedIsDecision
  <2>5. resolved.decision \in Refusals => isDecision(resolved)
    <3>1. CASE decision.decision = "modify"
      <4>1. resolved = resolveModify(decision, doc, loc)
        BY <2>2, <3>1
      <4>2. resolved = deny("modifications_invalid") \/ resolved.decision = decision.decision
        <5>1. PICK gate \in Gates : gate = gateAt(c) /\ decision \in Decisions[gate]
          BY <2>3
        <5> QED BY <4>1, <5>1, ResolvedIsDecision
      <4> QED BY <3>1, <4>2, DenyIsDecision DEF Refusals
    <3>2. CASE decision.decision \in {"ask", "defer"} /\ late
      <4>1. resolved = deny("expired")
        BY <2>2, <3>2
      <4> QED BY <4>1, DenyIsDecision
    <3>3. CASE decision.decision # "modify" /\ ~(decision.decision \in {"ask", "defer"} /\ late)
      <4>1. resolved = decision
        BY <2>2, <3>3
      <4> QED BY <2>4, <4>1
    <3> QED BY <3>1, <3>2, <3>3
  <2>6. PICK asked : asked = envelope[c] /\ byDecision(c, resolved, posture, asked)
    BY <2>1, <2>2
  <2>7. at[c] # "done" /\ UNCHANGED <<host, hooks>>
    BY <1>c, <2>1
  <2>8. arrived' = [arrived EXCEPT ![c][gateAt(c)] = resolved]
    BY <1>4, <2>2, Zenon DEF Answered
  <2>9. becomes(c, resolved)
    <3>1. DOMAIN arrived = Calls /\ \A b \in Calls : DOMAIN arrived[b] = Gates
      BY <1>0 DEF ArrivedRefusals
    <3> QED BY <2>3, <2>8, <3>1 DEF becomes
  <2>10. CASE gateAt(c) = "request"
    <3>1. PICK d, stage, effect :
            /\ stage # "undecided" /\ effect.kind \in kinds /\ ended(c, d, stage, effect, asked)
            /\ answers(resolved, stage, d, effect) /\ stage # "delivery"
      BY <1>0, <2>5, <2>6, <2>10, ByDecisionAnswers
    <3> QED BY <1>0, <2>7, <2>9, <3>1, OverKeepsArrived
  <2>11. CASE gateAt(c) # "request"
    <3>1. PICK d, stage, effect :
            stage # "undecided" /\ effect.kind \in kinds /\ ended(c, d, stage, effect, asked)
      BY <2>6, ByDecisionEnds
    <3> QED BY <1>0, <2>7, <2>9, <2>11, <3>1, OverKeepsArrived
  <2> QED BY <2>10, <2>11
<1>5. ASSUME NEW c \in Calls, NEW recorded, NEW posture, Unanswered(c, recorded, posture)
      PROVE  ArrivedRefusals'
  <2>1. PICK stage, asked : stage = "delivery" /\ asked = envelope[c]
    OBVIOUS
  <2>2. waiting(c) /\ byPosture(c, posture, stage, asked) /\ stage # "undecided" /\ UNCHANGED arrived
    BY <1>5, <2>1 DEF Unanswered
  <2>3. \E effect : effect.kind \in kinds /\ ended(c, posture, stage, effect, asked)
    BY <2>2, ByPostureEnds
  <2> QED BY <1>b, <1>c, <2>2, <2>3
<1>6. CASE UNCHANGED vars
  BY <1>6, <1>a DEF vars
<1> QED BY <1>1, <1>2, <1>3, <1>4, <1>5, <1>6 DEF Next, Host, Guardian

(* A tool whose step ends in a deny, an ask or a defer does not run, be it  *)
(* the Guardian's or the posture's, and neither does one whose Guardian     *)
(* sent one, unless no output can be made of it and the posture proceeds:   *)
(* under every hookmap the host's gate lets load that DeploymentAssumption  *)
(* and ShowingAssumption describe, whatever the decision carries            *)
(* (acs-plugin.ts, acs-hook.ts, render-decision.ts, governStep).            *)
THEOREM RefusedStepsDoNotRunHolds == Spec => []RefusedStepsDoNotRun
<1>1. ArrivedInv => RefusedStepsDoNotRun
  BY DEF ArrivedInv, SettledInv, RecordedRefusals, ArrivedRefusals, answers, RefusedStepsDoNotRun
<1> QED BY <1>1, ArrivedInit, ArrivedNext, PTL DEF Spec

------------------------------------------------------------------------------
(* What an allow leaves alone, once it is rendered. *)

\* An allowed step has the host's own arguments, or leaves its own output.
LEMMA AllowLeavesAlone ==
  ASSUME Deployed, NEW gate \in Gates, NEW payload, isDocument(payload), NEW decision, isDecision(decision),
         decision.decision = "allow", NEW output,
         output = renderDecision(hooks[hookAt(host, gate)].decisions, decision)
  PROVE  LET own == IF host = "opencode" THEN (IF gate = "request" THEN <<"args">> ELSE <<"result">>)
                    ELSE (IF gate = "request" THEN <<"tool_input">> ELSE <<"tool_response">>)
             effect == acts(output, gate, payload)
         IN  effect = refused \/ effect = ran(resolve(payload, own))
<1> DEFINE rules == hooks[hookAt(host, gate)].decisions
           rule == rules["allow"]
           sink == sinkAt(host, gate)
           effect == acts(output, gate, payload)
<1>1. hookAt(host, gate) \in DOMAIN hooks /\ \A n \in DOMAIN rules : wellRuled(rules[n])
  BY DeployedRules
<1>2. wellRuled(rule) /\ sink \in Path /\ \A i \in DOMAIN rule : ~Overlap(sink, rule[i].path)
  BY DeployedShows
<1>3. carriesDocuments(decision)
  BY DEF isDecision
<1>4. output = Throws \/ fieldsPlaced(output, rule, decision, Len(rule))
  <2> HIDE DEF rules
  <2> QED BY <1>1, <1>3, Rendered DEF rules
<1>5. CASE output = Throws
  BY <1>5 DEF acts
<1>6. CASE output # Throws
  <2> HIDE DEF rules, rule
  <2>1. ~Present(output, sink) /\ DOMAIN resolve(output, sink) = {}
    <3> HIDE DEF sink
    <3> QED BY <1>2, <1>3, <1>4, <1>6, SinkIsEmpty
  <2>2. CASE host = "opencode"
    <3> DEFINE place_ == IF gate = "request" THEN <<"args">> ELSE <<"result">>
               target == resolve(payload, place_)
    <3>1. sink = place_
      BY <2>2 DEF sinkAt
    <3>2. effect = refused \/ effect = ran(mergeInPlace(target, resolve(output, place_)))
      BY <1>6, <2>2 DEF acts, applyOpenCodeOutput
    <3>3. isDocument(target)
      <4> HIDE DEF sink, place_
      <4> QED BY <1>2, <3>1, ResolveIs
    <3>4. mergeInPlace(target, resolve(output, place_)) = target
      <4> HIDE DEF sink, place_, target
      <4> QED BY <2>1, <3>1, <3>3, MergeNothing
    <3> QED BY <2>2, <3>2, <3>4
  <2>3. CASE host # "opencode"
    <3> DEFINE bag == IF gate = "request" THEN <<"tool_input">> ELSE <<"tool_response">>
    <3>1. sink = IF gate = "request" THEN UpdatedInput ELSE UpdatedToolOutput
      BY <2>3 DEF sinkAt
    <3>2. claudeCodeReads(output, gate, payload) \in {refused, ran(resolve(payload, bag))}
      BY <2>1, <3>1 DEF claudeCodeReads
    <3>3. effect \in {refused, claudeCodeReads(output, gate, payload)}
      BY <1>6, <2>3 DEF acts
    <3> QED BY <2>3, <3>2, <3>3
  <2> QED BY <2>2, <2>3
<1> QED BY <1>5, <1>6

\* What an allow that is honoured amounts to at a gate.
allows(gate, decision, stage, effect, payload, asked) ==
  LET outputs == hooks[hookOf("result")].outputs
  IN  decision # Absent /\ decision.decision \in {"allow"} /\ stage = "honoured" /\ effect # refused =>
        /\ toolOf(payload) = Str(asked.tool)
        /\ IF gate = "request" THEN effect.doc = asked.payload.arguments
           ELSE resolve(effect.doc, relative(outputs.from, outputs.within)) = asked.payload.value

LEMMA AllowDelivers ==
  ASSUME Deployed, NEW c \in Calls, NEW payload \in payloadsAt(host, gateAt(c), c), NEW asked,
         shows(entryAt(c), payload, asked), NEW decision, isDecision(decision), decision.decision = "allow"
  PROVE  allows(gateAt(c), decision, "honoured", acts(render(c, decision, payload), gateAt(c), payload), payload, asked)
<1>0. PICK gate \in Gates : gate = gateAt(c)
  BY DEF gateAt, Gates
<1> DEFINE entry == hooks[hookAt(host, gate)]
           output == renderDecision(entry.decisions, decision)
           effect == acts(output, gate, payload)
           own == IF host = "opencode" THEN (IF gate = "request" THEN <<"args">> ELSE <<"result">>)
                  ELSE (IF gate = "request" THEN <<"tool_input">> ELSE <<"tool_response">>)
           acs == buildPayload(entry, payload)
<1>1. isDocument(payload)
  BY <1>0, PayloadsAreDocuments
<1>2. entryAt(c) = entry
  BY <1>0 DEF entryAt, hookOf
<1>3. render(c, decision, payload) = output
  <2>1. withResultOutput(decision, locationAt(c, payload)) = decision
    BY DEF withResultOutput, withholdsAtResultGate
  <2> QED BY <1>2, <2>1 DEF render
<1>4. effect = refused \/ effect = ran(resolve(payload, own))
  BY <1>1, AllowLeavesAlone
<1>5. /\ entry.tool_name = IF host = "opencode" THEN <<"tool">> ELSE <<"tool_name">>
      /\ gate = "request" => /\ entry.outputs = Absent
                             /\ entry.arguments = IF host = "opencode" THEN <<"args">> ELSE <<"tool_input">>
      /\ gate = "result" =>
           /\ entry.outputs # Absent /\ entry.outputs.from \in Path /\ entry.outputs.within \in Path
           /\ entry.outputs.within = IF host = "opencode" THEN <<"result">> ELSE <<"tool_response">>
  BY DeployedShows
<1>6. /\ acs # Throws /\ asked.payload.arguments = acs.arguments /\ asked.payload.value = acs.value
      /\ resolve(payload, entry.tool_name) = Str(asked.tool)
  BY <1>2 DEF shows
<1>7. toolOf(payload) = Str(asked.tool)
  <2> HIDE DEF entry
  <2> QED BY <1>5, <1>6 DEF toolOf
<1>8. CASE gate = "request"
  <2>1. entry.arguments = own /\ acs = requestPayload(entry, payload)
    <3>1. entry.outputs = Absent
      BY <1>5, <1>8
    <3>2. acs = requestPayload(entry, payload)
      <4> HIDE DEF entry
      <4> QED BY <1>6, <3>1 DEF buildPayload
    <3> QED BY <1>5, <1>8, <3>2
  <2>2. isPlainObject(resolve(payload, own))
    BY <1>0, <1>8, ArgumentsAssumption, DeployedRules DEF payloadsAt
  <2>3. acs.arguments = resolve(payload, own)
    <3> HIDE DEF entry, own
    <3> QED BY <1>6, <2>1, <2>2 DEF requestPayload
  <2>4. effect # refused => effect.doc = acs.arguments
    <3> HIDE DEF effect, acs, own
    <3> QED BY <1>4, <2>3 DEF ran
  <2> QED BY <1>0, <1>3, <1>6, <1>7, <1>8, <2>4 DEF allows
<1>9. CASE gate = "result"
  <2>1. entry.outputs # Absent /\ entry.outputs.within = own
    BY <1>5, <1>9
  <2>2. acs = resultPayload(entry, payload)
    <3> HIDE DEF entry
    <3> QED BY <1>6, <2>1 DEF buildPayload
  <2>3. acs.value = resolve(payload, entry.outputs.from) /\ Inside(entry.outputs.from, entry.outputs.within)
    <3> HIDE DEF entry
    <3> QED BY <1>6, <2>2 DEF resultPayload
  <2>4. IsPrefix(entry.outputs.within, entry.outputs.from)
    BY <2>3 DEF Inside, IsStrictPrefix
  <2>5. resolve(resolve(payload, own), relative(entry.outputs.from, entry.outputs.within)) = acs.value
    <3> HIDE DEF entry, own, acs
    <3> QED BY <1>1, <1>5, <1>9, <2>1, <2>3, <2>4, ResolveTwice
  <2>6. effect # refused => resolve(effect.doc, relative(entry.outputs.from, entry.outputs.within)) = acs.value
    <3> HIDE DEF effect, acs, own
    <3> QED BY <1>4, <2>5 DEF ran
  <2>7. entry = hooks[hookOf("result")]
    BY <1>9 DEF hookOf
  <2> QED BY <1>0, <1>3, <1>6, <1>7, <1>9, <2>6, <2>7 DEF allows
<1> QED BY <1>8, <1>9 DEF Gates

LEMMA ByPostureAllows ==
  ASSUME NEW c \in Calls, NEW posture, NEW stage, stage # "honoured", NEW asked, byPosture(c, posture, stage, asked)
  PROVE  \E effect : /\ effect.kind \in kinds /\ ended(c, posture, stage, effect, asked)
                     /\ allows(gateAt(c), posture, stage, effect, live'[c], asked)
<1>1. PICK effect : effect.kind \in kinds /\ ended(c, posture, stage, effect, asked)
  BY ByPostureEnds
<1>2. allows(gateAt(c), posture, stage, effect, live'[c], asked)
  BY DEF allows
<1> QED BY <1>1, <1>2

LEMMA ByDecisionAllows ==
  ASSUME Deployed, NEW c \in Calls, NEW decision, decision.decision = "allow" => isDecision(decision),
         NEW posture, NEW asked, live'[c] \in payloadsAt(host, gateAt(c), c), shows(entryAt(c), live'[c], asked),
         byDecision(c, decision, posture, asked)
  PROVE  \E d, stage, effect :
           /\ stage # "undecided" /\ effect.kind \in kinds /\ ended(c, d, stage, effect, asked)
           /\ allows(gateAt(c), d, stage, effect, live'[c], asked)
<1>1. PICK payload, output : payload = live'[c] /\ output = render(c, decision, payload)
  OBVIOUS
<1>2. CASE output = Throws
  <2>1. PICK stage : stage = "render"
    OBVIOUS
  <2>2. byPosture(c, posture, stage, asked) /\ stage \notin {"undecided", "honoured"}
    BY <1>1, <1>2, <2>1 DEF byDecision
  <2> QED BY <2>2, ByPostureAllows
<1>3. CASE output # Throws
  <2>1. PICK stage, effect : stage = "honoured" /\ effect = acts(output, gateAt(c), payload)
    OBVIOUS
  <2>2. ended(c, decision, stage, effect, asked)
    BY <1>1, <1>3, <2>1 DEF byDecision
  <2>3. effect.kind \in kinds
    BY <2>1, ActsKind DEF kinds
  <2>4. allows(gateAt(c), decision, stage, effect, payload, asked)
    <3>1. payload \in payloadsAt(host, gateAt(c), c) /\ shows(entryAt(c), payload, asked)
      BY <1>1
    <3>2. CASE decision.decision = "allow"
      BY <1>1, <2>1, <3>1, <3>2, AllowDelivers
    <3>3. CASE decision.decision # "allow"
      BY <3>3 DEF allows
    <3> QED BY <3>2, <3>3
  <2> QED BY <1>1, <2>1, <2>2, <2>3, <2>4
<1> QED BY <1>2, <1>3

\* A hook that waits has asked about the step it was handed.
Shown == \A c \in Calls : at[c] \in {"asking", "judging"} => shows(entryAt(c), live[c], envelope[c])

ShownInv == IdsInv /\ Shown /\ AllowedIsWhatWasShown

\* A step that is over keeps what was allowed, and what the others ask about.
LEMMA OverKeepsShown ==
  ASSUME TypeInv, Shown, AllowedIsWhatWasShown, UNCHANGED <<host, hooks, envelope>>,
         NEW c \in Calls, at[c] # "done", NEW decision, NEW stage, NEW effect, NEW asked,
         stage # "undecided", effect.kind \in kinds, ended(c, decision, stage, effect, asked),
         allows(gateAt(c), decision, stage, effect, live'[c], asked),
         \A b \in Calls \ {c} : live'[b] = live[b]
  PROVE  Shown' /\ AllowedIsWhatWasShown'
<1>1. gateAt(c) = "result" => outcome[c].request.effect.kind \in {"ran", "ungoverned"}
  BY DEF TypeInv, ResultsFollowRuns, CallTypeOK, gateAt
<1>2. /\ \A b \in Calls \ {c} : at'[b] = at[b] /\ outcome'[b] = outcome[b]
      /\ at'[c] \in {"ran", "done"}
      /\ outcome'[c][gateAt(c)].decision = decision /\ outcome'[c][gateAt(c)].effect = effect
      /\ outcome'[c][gateAt(c)].stage = stage /\ outcome'[c][gateAt(c)].asked = asked
      /\ outcome'[c][gateAt(c)].payload = live'[c]
      /\ \A gate \in Gates \ {gateAt(c)} : outcome'[c][gate] = outcome[c][gate]
  BY <1>1, EndedLeaves
<1>3. Shown'
  <2> SUFFICES ASSUME NEW b \in Calls, at'[b] \in {"asking", "judging"}
               PROVE  shows(entryAt(b), live[b], envelope[b])'
    BY DEF Shown
  <2>1. b # c /\ at'[b] = at[b] /\ live'[b] = live[b] /\ envelope'[b] = envelope[b]
    BY <1>2
  <2>2. shows(entryAt(b), live[b], envelope[b])
    BY <2>1 DEF Shown
  <2>3. entryAt(b)' = entryAt(b)
    BY <2>1 DEF entryAt, hookOf, gateAt
  <2> QED BY <2>1, <2>2, <2>3
<1>4. ASSUME NEW b \in Calls, NEW gate \in Gates
      PROVE  LET o == outcome'[b][gate] IN allows(gate, o.decision, o.stage, o.effect, o.payload, o.asked)
  <2>1. CASE b = c /\ gate = gateAt(c)
    BY <1>2, <2>1
  <2>2. CASE b # c \/ gate # gateAt(c)
    <3>1. PICK o : o = outcome[b][gate] /\ o = outcome'[b][gate]
      BY <1>2, <2>2
    <3>2. allows(gate, o.decision, o.stage, o.effect, o.payload, o.asked)
      BY <3>1 DEF AllowedIsWhatWasShown, allows, at_
    <3> QED BY <3>1, <3>2
  <2> QED BY <2>1, <2>2
<1>5. AllowedIsWhatWasShown'
  BY <1>4 DEF AllowedIsWhatWasShown, allows, at_, hookOf, toolOf
<1> QED BY <1>3, <1>5

\* So does a step that asks, once it is known what was asked.
LEMMA AskingKeepsShown ==
  ASSUME Shapes, Shown, AllowedIsWhatWasShown, UNCHANGED <<host, hooks, outcome>>, NEW c \in Calls, NEW e,
         envelope' = [envelope EXCEPT ![c] = e], shows(entryAt(c), live'[c], e), gateAt(c)' = gateAt(c),
         \A b \in Calls \ {c} : at'[b] = at[b] /\ live'[b] = live[b]
  PROVE  Shown' /\ AllowedIsWhatWasShown'
<1>1. envelope'[c] = e /\ \A b \in Calls \ {c} : envelope'[b] = envelope[b]
  BY DEF Shapes
<1>2. Shown'
  <2> SUFFICES ASSUME NEW b \in Calls, at'[b] \in {"asking", "judging"}
               PROVE  shows(entryAt(b), live[b], envelope[b])'
    BY DEF Shown
  <2>1. gateAt(b)' = gateAt(b)
    BY DEF gateAt
  <2>2. entryAt(b)' = entryAt(b)
    BY <2>1 DEF entryAt, hookOf
  <2>3. CASE b = c
    BY <1>1, <2>2, <2>3
  <2>4. CASE b # c
    <3>1. shows(entryAt(b), live[b], envelope[b])
      BY <2>4 DEF Shown
    <3> QED BY <1>1, <2>2, <2>4, <3>1
  <2> QED BY <2>3, <2>4
<1>3. AllowedIsWhatWasShown'
  BY DEF AllowedIsWhatWasShown, hookOf, toolOf
<1> QED BY <1>2, <1>3

\* What an envelope that can be built at a call's hook shows.
LEMMA BuiltShows ==
  ASSUME Deployed, NEW c \in Calls, NEW payload \in payloadsAt(host, gateAt(c), c), NEW pair,
         buildable(entryAt(c), payload)
  PROVE  shows(entryAt(c), payload, buildEnvelope(entryAt(c), payload, pair))
<1>1. PICK gate \in Gates : gate = gateAt(c)
  BY DEF gateAt, Gates
<1>2. isDocument(payload) /\ \A leaf \in Range(payload) : leaf = [type |-> leaf.type, text |-> leaf.text]
  BY <1>1, PayloadsAreDocuments
<1>3. PICK entry : entry = entryAt(c)
  OBVIOUS
<1>4. entry.tool_name \in Path
  BY <1>1, <1>3, DeployedShows DEF entryAt, hookOf
<1>5. buildable(entry, payload)
  BY <1>3
<1>6. shows(entry, payload, buildEnvelope(entry, payload, pair))
  BY <1>2, <1>4, <1>5, EnvelopeShows
<1> QED BY <1>3, <1>6

LEMMA ShownInit == Init => ShownInv
<1> SUFFICES ASSUME Init PROVE ShownInv
  OBVIOUS
<1>1. Shown
  BY DEF Init, Shown
<1>2. \A c \in Calls, gate \in Gates : outcome[c][gate] = undecided
  BY DEF Init
<1>3. ~at_(undecided, {"allow"})
  BY DEF at_, undecided
<1>4. AllowedIsWhatWasShown
  BY <1>2, <1>3 DEF AllowedIsWhatWasShown
<1> QED BY <1>1, <1>4, IdsInit DEF ShownInv

LEMMA ShownNext == ShownInv /\ [Next]_vars => ShownInv'
<1> SUFFICES ASSUME ShownInv, [Next]_vars PROVE Shown' /\ AllowedIsWhatWasShown'
  BY IdsNext DEF ShownInv
<1>0. TypeInv /\ CallTypeOK /\ Shapes /\ Deployed /\ Rebuildable /\ Shown /\ AllowedIsWhatWasShown
  BY DEF ShownInv, IdsInv, TypeInv
<1>a. ASSUME UNCHANGED <<host, hooks, envelope>>, NEW c \in Calls, at[c] # "done", NEW asked,
             \A b \in Calls \ {c} : live'[b] = live[b],
             \E decision, stage, effect :
               /\ stage # "undecided" /\ effect.kind \in kinds /\ ended(c, decision, stage, effect, asked)
               /\ allows(gateAt(c), decision, stage, effect, live'[c], asked)
      PROVE  Shown' /\ AllowedIsWhatWasShown'
  BY <1>0, <1>a, OverKeepsShown
<1>b. ASSUME NEW c \in Calls, waiting(c)
      PROVE  /\ live'[c] \in payloadsAt(host, gateAt(c), c) /\ shows(entryAt(c), live'[c], envelope[c])
             /\ at[c] # "done" /\ UNCHANGED <<host, hooks, live>>
  <2>1. at[c] \in {"asking", "judging"} /\ UNCHANGED <<host, hooks, live>>
    BY <1>b DEF waiting
  <2> QED BY <1>0, <2>1 DEF Rebuildable, Shown
<1>1. ASSUME NEW c \in Calls, NEW posture \in postures,
             NEW payload \in (IF at[c] = "new" THEN Starts[host][c] ELSE Ends[host][c]), Fire(c, payload, posture)
      PROVE  Shown' /\ AllowedIsWhatWasShown'
  <2>1. /\ at[c] \in {"new", "ran"} /\ live'[c] = payload /\ UNCHANGED <<host, hooks, seen>>
        /\ \A b \in Calls \ {c} : live'[b] = live[b]
    BY <1>0, <1>1, FireIsOverOrAsks
  <2>2. payload \in payloadsAt(host, gateAt(c), c)
    BY <1>1, <2>1 DEF payloadsAt, gateAt
  <2>3. CASE UNCHANGED envelope /\ ~UNCHANGED outcome
    <3>1. \E decision, stage, effect :
            /\ stage \notin {"undecided", "honoured"} /\ effect.kind \in kinds
            /\ ended(c, decision, stage, effect, Absent) /\ settled(c, decision, live'[c], effect)
      BY <1>0, <1>1, <2>1, <2>2, <2>3, FireSettles
    <3>2. PICK decision, stage, effect : /\ stage \notin {"undecided", "honoured"} /\ effect.kind \in kinds
                                         /\ ended(c, decision, stage, effect, Absent)
      BY <3>1
    <3>3. allows(gateAt(c), decision, stage, effect, live'[c], Absent)
      BY <3>2 DEF allows
    <3> QED BY <1>a, <2>1, <2>3, <3>2, <3>3
  <2>4. CASE ~UNCHANGED envelope \/ UNCHANGED outcome
    <3>0. PICK e : e = buildEnvelope(entryAt(c), payload, TRUE)
      OBVIOUS
    <3>1. /\ e # Throws /\ at' = [at EXCEPT ![c] = IF at[c] = "new" THEN "asking" ELSE "judging"]
          /\ envelope' = [envelope EXCEPT ![c] = e] /\ UNCHANGED outcome
      <4>1. \/ /\ \E decision, stage, effect :
                    stage # "undecided" /\ effect.kind \in kinds /\ ended(c, decision, stage, effect, Absent)
               /\ UNCHANGED <<envelope, wire, fresh>>
            \/ /\ e # Throws /\ at' = [at EXCEPT ![c] = IF at[c] = "new" THEN "asking" ELSE "judging"]
               /\ envelope' = [envelope EXCEPT ![c] = e] /\ UNCHANGED outcome
        BY <1>0, <1>1, <3>0, FireIsOverOrAsks
      <4>2. ASSUME NEW decision, NEW stage, NEW effect, stage # "undecided", effect.kind \in kinds,
                   ended(c, decision, stage, effect, Absent)
            PROVE  ~UNCHANGED outcome
        <5>1. outcome[c][gateAt(c)] = undecided
          BY <1>0, <2>1 DEF CallTypeOK, gateAt
        <5>2. gateAt(c) = "result" => outcome[c].request.effect.kind \in {"ran", "ungoverned"}
          BY <1>0, <2>1 DEF gateAt, TypeInv, ResultsFollowRuns
        <5>3. outcome'[c][gateAt(c)] # undecided
          BY <1>0, <2>1, <4>2, <5>2, EndedLeaves
        <5> QED BY <5>1, <5>3
      <4> QED BY <2>4, <4>1, <4>2
    <3>2. buildable(entryAt(c), payload)
      BY <3>0, <3>1, BuiltOnlyWhenBuildable
    <3>3. shows(entryAt(c), live'[c], e)
      BY <1>0, <2>1, <2>2, <3>0, <3>2, BuiltShows
    <3>4. at'[c] = (IF at[c] = "new" THEN "asking" ELSE "judging") /\ \A b \in Calls \ {c} : at'[b] = at[b]
      BY <1>0, <3>1 DEF Shapes
    <3>5. gateAt(c)' = gateAt(c)
      BY <2>1, <3>4 DEF gateAt
    <3> QED BY <1>0, <2>1, <3>1, <3>3, <3>4, <3>5, AskingKeepsShown
  <2> QED BY <2>3, <2>4
<1>2. ASSUME NEW c \in Calls, AskAgain(c) PROVE Shown' /\ AllowedIsWhatWasShown'
  <2>0. PICK e : e = buildEnvelope(entryAt(c), live[c], FALSE)
    OBVIOUS
  <2>1. waiting(c) /\ envelope' = [envelope EXCEPT ![c] = e] /\ UNCHANGED <<host, hooks, live, at, outcome>>
    BY <1>2, <2>0 DEF AskAgain, waiting
  <2>2. live[c] \in payloadsAt(host, gateAt(c), c) /\ buildable(entryAt(c), live[c])
    BY <1>0, <2>1 DEF Rebuildable, waiting
  <2>3. shows(entryAt(c), live'[c], e)
    <3>1. PICK payload : payload = live[c] /\ payload = live'[c]
      BY <2>1
    <3> QED BY <1>0, <2>0, <2>2, <3>1, BuiltShows
  <2>4. gateAt(c)' = gateAt(c)
    BY <2>1 DEF gateAt
  <2> QED BY <1>0, <2>1, <2>3, <2>4, AskingKeepsShown
<1>3. ASSUME NEW c \in Calls, Repeat(c) PROVE Shown' /\ AllowedIsWhatWasShown'
  <2>1. /\ at' = [at EXCEPT ![c] = "new"] /\ outcome' = [outcome EXCEPT ![c].request = undecided]
        /\ UNCHANGED <<host, hooks, live, envelope, seen, wire, fresh>>
    BY <1>3 DEF Repeat
  <2>2. /\ at'[c] = "new" /\ outcome'[c].request = undecided /\ outcome'[c].result = outcome[c].result
        /\ \A b \in Calls \ {c} : at'[b] = at[b] /\ outcome'[b] = outcome[b]
    BY <1>0, <2>1 DEF Shapes, Gates
  <2>3. Shown'
    <3> SUFFICES ASSUME NEW b \in Calls, at'[b] \in {"asking", "judging"}
                 PROVE  shows(entryAt(b), live[b], envelope[b])'
      BY DEF Shown
    <3>1. b # c /\ at'[b] = at[b]
      BY <2>2
    <3>2. shows(entryAt(b), live[b], envelope[b])
      BY <1>0, <3>1 DEF Shown
    <3>3. entryAt(b)' = entryAt(b)
      BY <2>1, <3>1 DEF entryAt, hookOf, gateAt
    <3> QED BY <2>1, <3>2, <3>3
  <2>4. ~at_(undecided, {"allow"})
    BY DEF at_, undecided
  <2>5. \A b \in Calls, gate \in Gates : outcome'[b][gate] \in {undecided, outcome[b][gate]}
    BY <2>2 DEF Gates
  <2>6. AllowedIsWhatWasShown'
    BY <1>0, <2>1, <2>4, <2>5 DEF AllowedIsWhatWasShown, hookOf, toolOf
  <2> QED BY <2>3, <2>6
<1>4. ASSUME NEW c \in Calls, NEW decision \in Decisions[gateAt(c)], NEW late, NEW posture \in postures,
             Answered(c, decision, late, posture)
      PROVE  Shown' /\ AllowedIsWhatWasShown'
  <2> DEFINE document == modificationDocumentOf(envelope[c].payload, envelope[c].tool)
             location == locationAt(c, live[c])
             resolution == CASE decision.decision = "modify" -> resolveModify(decision, document, location)
                             [] decision.decision \in {"ask", "defer"} /\ late -> deny("expired")
                             [] OTHER -> decision
  <2>1. waiting(c) /\ byDecision(c, resolution, posture, envelope[c]) /\ UNCHANGED envelope
    BY <1>4, Zenon DEF Answered
  <2>2. PICK doc, loc, resolved : doc = document /\ loc = location /\ resolved = resolution
    OBVIOUS
  <2>3. PICK gate \in Gates : gate = gateAt(c) /\ decision \in Decisions[gate]
    BY DEF gateAt, Gates
  <2>4. resolved.decision = "allow" => isDecision(resolved)
    <3>1. CASE decision.decision = "modify"
      <4>1. resolved = resolveModify(decision, doc, loc)
        BY <2>2, <3>1
      <4>2. resolved.decision \in {"deny", "modify"}
        BY <2>3, <3>1, <4>1, ResolvedIsDecision, DenyIsDecision
      <4> QED BY <4>2
    <3>2. CASE decision.decision \in {"ask", "defer"} /\ late
      <4>1. resolved = deny("expired")
        BY <2>2, <3>2
      <4> QED BY <4>1, DenyIsDecision
    <3>3. CASE decision.decision # "modify" /\ ~(decision.decision \in {"ask", "defer"} /\ late)
      <4>1. resolved = decision
        BY <2>2, <3>3
      <4> QED BY <2>3, <4>1, ResolvedIsDecision
    <3> QED BY <3>1, <3>2, <3>3
  <2>5. PICK asked : asked = envelope[c] /\ byDecision(c, resolved, posture, asked)
    BY <2>1, <2>2
  <2>6. /\ live'[c] \in payloadsAt(host, gateAt(c), c) /\ shows(entryAt(c), live'[c], asked)
        /\ at[c] # "done" /\ UNCHANGED <<host, hooks, live>>
    BY <1>b, <2>1, <2>5
  <2>7. \E d, stage, effect :
          /\ stage # "undecided" /\ effect.kind \in kinds /\ ended(c, d, stage, effect, asked)
          /\ allows(gateAt(c), d, stage, effect, live'[c], asked)
    BY <1>0, <2>4, <2>5, <2>6, ByDecisionAllows
  <2> QED BY <1>a, <2>1, <2>6, <2>7
<1>5. ASSUME NEW c \in Calls, NEW recorded, NEW posture \in postures, Unanswered(c, recorded, posture)
      PROVE  Shown' /\ AllowedIsWhatWasShown'
  <2>1. PICK stage, asked : stage = "delivery" /\ asked = envelope[c]
    OBVIOUS
  <2>2. waiting(c) /\ byPosture(c, posture, stage, asked) /\ stage \notin {"undecided", "honoured"} /\ UNCHANGED envelope
    BY <1>5, <2>1 DEF Unanswered
  <2>3. at[c] # "done" /\ UNCHANGED <<host, hooks, live>>
    BY <1>b, <2>2
  <2>4. PICK effect : /\ effect.kind \in kinds /\ ended(c, posture, stage, effect, asked)
                      /\ allows(gateAt(c), posture, stage, effect, live'[c], asked)
    BY <2>2, ByPostureAllows
  <2> QED BY <1>a, <2>2, <2>3, <2>4
<1>6. CASE UNCHANGED vars
  <2>1. UNCHANGED <<host, hooks, at, live, envelope, outcome>>
    BY <1>6 DEF vars
  <2>2. Shown'
    <3> SUFFICES ASSUME NEW b \in Calls, at'[b] \in {"asking", "judging"}
                 PROVE  shows(entryAt(b), live[b], envelope[b])'
      BY DEF Shown
    <3>1. entryAt(b)' = entryAt(b)
      BY <2>1 DEF entryAt, hookOf, gateAt
    <3>2. shows(entryAt(b), live[b], envelope[b])
      BY <1>0, <2>1 DEF Shown
    <3> QED BY <2>1, <3>1, <3>2
  <2>3. AllowedIsWhatWasShown'
    BY <1>0, <2>1 DEF AllowedIsWhatWasShown, hookOf, toolOf
  <2> QED BY <2>2, <2>3
<1> QED BY <1>1, <1>2, <1>3, <1>4, <1>5, <1>6 DEF Next, Host, Guardian

(* What the Guardian allowed is what happens: the question named the tool   *)
(* that was called, showed the arguments it then ran with, and showed the   *)
(* output the model then got, whether it was asked once or again, under     *)
(* every hookmap the host's gate lets load that the assumptions above        *)
(* describe (assertEntryMatchesGate, buildPayload, buildEnvelope,            *)
(* renderDecision, mergeInPlace).                                           *)
THEOREM AllowedIsWhatWasShownHolds == Spec => []AllowedIsWhatWasShown
<1>1. ShownInv => AllowedIsWhatWasShown
  BY DEF ShownInv
<1> QED BY <1>1, ShownInit, ShownNext, PTL DEF Spec

------------------------------------------------------------------------------
(* What a modify lands. *)

\* The keys of the overrides are edited one after another, none of them twice.
LEMMA KeysAre ==
  ASSUME NEW S, IsFiniteSet(S)
  PROVE  LET keys == SetToSeq(S)
         IN  /\ Cardinality(S) \in Nat /\ keys \in [1..Cardinality(S) -> S]
             /\ \A i, j \in 1..Cardinality(S) : keys[i] = keys[j] => i = j
<1> DEFINE n == Cardinality(S)
<1>1. n \in Nat /\ ExistsBijection(1..n, S)
  BY FS_CardinalityType
<1>3. \E g \in [1..n -> S] : IsInjective(g)
  BY <1>1 DEF ExistsBijection, Bijection, Injection
<1>4. SetToSeq(S) \in [1..n -> S] /\ IsInjective(SetToSeq(S))
  BY <1>3 DEF SetToSeq
<1> QED BY <1>1, <1>4 DEF IsInjective

\* Edits that do not overlap.
editsApart(edits) ==
  /\ editsOK(edits)
  /\ \A i \in DOMAIN edits : edits[i].path # <<>> /\ DOMAIN edits[i].value # {}
  /\ \A i, j \in DOMAIN edits : i # j => ~Overlap(edits[i].path, edits[j].path)

LEMMA EditsAre ==
  ASSUME NEW mods, wellFormed(mods), disjoint(mods), isJson(mods)
  PROVE  LET edits == editsOf(mods)
         IN  /\ editsApart(edits) /\ Len(edits) > 0
             /\ \A i \in DOMAIN edits :
                  \/ \E j \in DOMAIN mods.redactions : edits[i].path = mods.redactions[j].path
                  \/ \E key \in DOMAIN mods.parameter_overrides : edits[i].path = <<key>>
<1> DEFINE overrides == mods.parameter_overrides
           redactions == mods.redactions
           S == DOMAIN overrides
           keys == SetToSeq(S)
           n == Cardinality(S)
           m == Len(redactions)
           value(r) == IF r.replacement = Absent THEN Redacted ELSE r.replacement
           name(key) == <<key>>
           first == [i \in DOMAIN keys |-> [path |-> name(keys[i]), value |-> overrides[keys[i]]]]
           second == [i \in DOMAIN redactions |-> [path |-> redactions[i].path, value |-> value(redactions[i])]]
           edits == first \o second
<1>1. editsOf(mods) = edits
  BY DEF editsOf
<1>2. /\ m \in Nat /\ DOMAIN redactions = 1..m
      /\ \A i \in 1..m : /\ redactions[i].path \in Path
                         /\ redactions[i].replacement = Absent
                            \/ (isDocument(redactions[i].replacement) /\ DOMAIN redactions[i].replacement # {})
      /\ IsFiniteSet(S) /\ S \subseteq STRING
      /\ \A key \in S : isDocument(overrides[key]) /\ DOMAIN overrides[key] # {}
  BY DEF isJson, Path
<1>3. /\ \A i \in 1..m : redactions[i].path # <<>>
      /\ redactions # <<>> \/ S # {}
  BY <1>2 DEF wellFormed
<1>4. /\ \A i \in 1..m, key \in S : ~Overlap(redactions[i].path, name(key))
      /\ \A i, j \in 1..m : i # j => ~Overlap(redactions[i].path, redactions[j].path)
  <2> DEFINE targets == redactionTargets(mods)
  <2>1. DOMAIN targets = 1..m /\ \A i \in 1..m : targets[i] = redactions[i].path
    BY <1>2 DEF redactionTargets
  <2>2. /\ \A i \in DOMAIN targets : \A key \in S : ~Overlap(targets[i], <<key>>)
        /\ \A i, j \in DOMAIN targets : i # j => ~Overlap(targets[i], targets[j])
    BY DEF disjoint
  <2> HIDE DEF targets
  <2> QED BY <2>1, <2>2
<1>5. n \in Nat /\ keys \in [1..n -> S] /\ \A i, j \in 1..n : keys[i] = keys[j] => i = j
  BY <1>2, KeysAre
<1>6. \A i \in 1..m : isDocument(value(redactions[i])) /\ DOMAIN value(redactions[i]) # {}
  <2>1. isDocument(Redacted) /\ DOMAIN Redacted # {}
    BY StrIsDocument DEF Redacted
  <2> QED BY <1>2, <2>1
<1>11. \A key \in S : name(key) \in Path /\ name(key) # <<>> /\ Len(name(key)) = 1 /\ name(key)[1] = key
  <2>1. \A key : name(key) # <<>>
    OBVIOUS
  <2>2. \A key \in STRING : name(key) \in Path /\ Len(name(key)) = 1 /\ name(key)[1] = key
    BY OneName, Zenon
  <2> HIDE DEF name
  <2> QED BY <1>2, <2>1, <2>2
<1> HIDE DEF overrides, redactions, S, keys, n, m, value, name
<1>7. /\ DOMAIN first = 1..n
      /\ \A i \in 1..n : first[i].path = name(keys[i]) /\ first[i].value = overrides[keys[i]] /\ keys[i] \in S
  BY <1>5
<1>8. /\ DOMAIN second = 1..m
      /\ \A i \in 1..m : second[i].path = redactions[i].path /\ second[i].value = value(redactions[i])
  BY <1>2
<1>9. /\ DOMAIN edits = 1..(n + m) /\ Len(edits) = n + m
      /\ \A i \in 1..n : edits[i] = first[i]
      /\ \A i \in 1..m : edits[n + i] = second[i]
  <2>1. first \in Seq(Range(first)) /\ Len(first) = n
    <3>1. \A i \in 1..n : first[i] \in Range(first)
      BY <1>7 DEF Range
    <3>2. first \in [1..n -> Range(first)]
      <4>1. first = [i \in DOMAIN first |-> first[i]]
        OBVIOUS
      <4> HIDE DEF first
      <4> QED BY <1>7, <3>1, <4>1
    <3> HIDE DEF first
    <3> QED BY <1>5, <3>2
  <2>2. second \in Seq(Range(second)) /\ Len(second) = m
    <3>1. \A i \in 1..m : second[i] \in Range(second)
      BY <1>8 DEF Range
    <3>2. second \in [1..m -> Range(second)]
      <4>1. second = [i \in DOMAIN second |-> second[i]]
        OBVIOUS
      <4> HIDE DEF second
      <4> QED BY <1>8, <3>1, <4>1
    <3> HIDE DEF second
    <3> QED BY <1>2, <3>2
  <2> HIDE DEF first, second
  <2>3. PICK T : T = Range(first) \cup Range(second)
    OBVIOUS
  <2>4. first \in Seq(T) /\ second \in Seq(T)
    BY <2>1, <2>2, <2>3
  <2>5. /\ edits \in Seq(T) /\ Len(edits) = n + m
        /\ \A i \in 1..(n + m) : edits[i] = IF i <= n THEN first[i] ELSE second[i - n]
    BY <2>1, <2>2, <2>4, ConcatProperties
  <2> HIDE DEF edits
  <2>6. DOMAIN edits = 1..(n + m)
    BY <2>5
  <2>7. \A i \in 1..n : edits[i] = first[i]
    BY <1>2, <1>5, <2>5
  <2>8. ASSUME NEW i \in 1..m PROVE edits[n + i] = second[i]
    <3>1. n + i \in 1..(n + m) /\ ~(n + i <= n) /\ (n + i) - n = i
      BY <1>2, <1>5
    <3> QED BY <2>5, <3>1
  <2> QED BY <2>5, <2>6, <2>7, <2>8
<1> HIDE DEF first, second, edits
<1>10. \A i \in 1..(n + m) : i \in 1..n \/ (i - n \in 1..m /\ edits[i] = second[i - n])
  <2> TAKE i \in 1..(n + m)
  <2>1. CASE i <= n
    BY <1>2, <1>5, <2>1
  <2>2. CASE ~(i <= n)
    <3>1. i - n \in 1..m /\ n + (i - n) = i
      BY <1>2, <1>5, <2>2
    <3> QED BY <1>9, <3>1
  <2> QED BY <2>1, <2>2
<1>12. ASSUME NEW i \in 1..(n + m)
       PROVE  /\ edits[i].path \in Path /\ edits[i].path # <<>>
              /\ isDocument(edits[i].value) /\ DOMAIN edits[i].value # {}
  <2>1. CASE i \in 1..n
    <3>1. edits[i].path = name(keys[i]) /\ edits[i].value = overrides[keys[i]] /\ keys[i] \in S
      BY <1>7, <1>9, <2>1
    <3> QED BY <1>2, <1>11, <3>1
  <2>2. CASE i - n \in 1..m /\ edits[i] = second[i - n]
    BY <1>2, <1>3, <1>6, <1>8, <2>2
  <2> QED BY <1>10, <2>1, <2>2
<1>13. \A k, l \in S : k # l => ~Overlap(name(k), name(l))
  BY <1>11, PrefixPoints DEF Overlap
<1>14. ASSUME NEW i \in 1..(n + m), NEW j \in 1..(n + m), i # j PROVE ~Overlap(edits[i].path, edits[j].path)
  <2>1. CASE i \in 1..n /\ j \in 1..n
    <3>1. keys[i] # keys[j]
      BY <1>5, <1>14, <2>1
    <3> QED BY <1>7, <1>9, <1>13, <2>1, <3>1
  <2>2. CASE i \in 1..n /\ j - n \in 1..m /\ edits[j] = second[j - n]
    <3>1. ~Overlap(redactions[j - n].path, name(keys[i]))
      BY <1>4, <1>7, <2>2
    <3> QED BY <1>7, <1>8, <1>9, <2>2, <3>1 DEF Overlap
  <2>3. CASE j \in 1..n /\ i - n \in 1..m /\ edits[i] = second[i - n]
    <3>1. ~Overlap(redactions[i - n].path, name(keys[j]))
      BY <1>4, <1>7, <2>3
    <3> QED BY <1>7, <1>8, <1>9, <2>3, <3>1 DEF Overlap
  <2>4. CASE /\ i - n \in 1..m /\ edits[i] = second[i - n]
             /\ j - n \in 1..m /\ edits[j] = second[j - n]
    <3>1. i - n # j - n
      BY <1>5, <1>14
    <3> QED BY <1>4, <1>8, <2>4, <3>1
  <2> QED BY <1>10, <2>1, <2>2, <2>3, <2>4
<1>15. n + m > 0 /\ n + m \in Nat
  <2>1. CASE redactions # <<>>
    <3>1. m # 0
      BY <1>2, <2>1 DEF m
    <3> QED BY <1>2, <1>5, <3>1
  <2>2. CASE S # {}
    <3>1. n # 0
      BY <1>2, <2>2, FS_EmptySet DEF n
    <3> QED BY <1>2, <1>5, <3>1
  <2> QED BY <1>3, <2>1, <2>2
<1>16. editsApart(edits) /\ Len(edits) > 0
  BY <1>9, <1>12, <1>14, <1>15 DEF editsApart, editsOK
<1>17. \A i \in 1..(n + m) :
         (\E j \in DOMAIN redactions : edits[i].path = redactions[j].path) \/ \E key \in S : edits[i].path = name(key)
  <2> TAKE i \in 1..(n + m)
  <2>1. CASE i \in 1..n
    BY <1>7, <1>9, <2>1
  <2>2. CASE i - n \in 1..m /\ edits[i] = second[i - n]
    BY <1>2, <1>8, <2>2
  <2> QED BY <1>10, <2>1, <2>2
<1>18. PICK all : all = edits
  OBVIOUS
<1>19. editsOf(mods) = all /\ DOMAIN all = 1..(n + m)
  BY <1>1, <1>9, <1>18
<1> QED BY <1>16, <1>17, <1>18, <1>19 DEF name, S, overrides, redactions

\* What is found at a path is not touched by what is put apart from it.
LEMMA ResolveApart ==
  ASSUME NEW doc, isDocument(doc), NEW v, isDocument(v), NEW p \in Path, NEW r \in Path, ~Overlap(p, r)
  PROVE  resolve(setAtPath(doc, p, v), r) = resolve(doc, r)
<1>1. PICK new, x, y : new = setAtPath(doc, p, v) /\ x = resolve(new, r) /\ y = resolve(doc, r)
  OBVIOUS
<1>2. puts(doc, p, v, new)
  BY <1>1, SetAtPathIs
<1>3. /\ isDocument(new)
      /\ \A q \in DOMAIN doc : ~Overlap(p, q) => q \in DOMAIN new /\ new[q] = doc[q]
      /\ \A q \in DOMAIN new : (q \in DOMAIN doc /\ ~Overlap(p, q)) \/ \E s \in DOMAIN v : q = p \o s
  BY <1>2 DEF puts
<1>4. /\ isDocument(x) /\ \A s : s \in DOMAIN x <=> s \in Path /\ r \o s \in DOMAIN new
      /\ \A s \in DOMAIN x : x[s] = new[r \o s]
  BY <1>1, <1>3, ResolveIs
<1>5. /\ isDocument(y) /\ \A s : s \in DOMAIN y <=> s \in Path /\ r \o s \in DOMAIN doc
      /\ \A s \in DOMAIN y : y[s] = doc[r \o s]
  BY <1>1, ResolveIs
<1>6. ASSUME NEW s \in Path PROVE ~Overlap(p, r \o s) /\ ~\E t \in DOMAIN v : r \o s = p \o t
  <2>1. PICK q \in Path : q = r \o s /\ IsPrefix(r, q)
    BY PrefixConcat
  <2>2. ~IsPrefix(p, q)
    BY <2>1, PrefixOrder DEF Overlap
  <2>3. ~IsPrefix(q, p)
    BY <2>1, PrefixOrder DEF Overlap
  <2>4. \A t \in DOMAIN v : IsPrefix(p, p \o t)
    BY PrefixConcat DEF isDocument, Path
  <2> QED BY <2>1, <2>2, <2>3, <2>4 DEF Overlap
<1>7. \A s \in Path : (r \o s \in DOMAIN new <=> r \o s \in DOMAIN doc) /\ (r \o s \in DOMAIN doc => new[r \o s] = doc[r \o s])
  BY <1>3, <1>6
<1>8. DOMAIN x = DOMAIN y /\ \A s \in DOMAIN x : x[s] = y[s]
  <2>1. \A s : s \in DOMAIN x <=> s \in DOMAIN y
    BY <1>4, <1>5, <1>7
  <2> QED BY <1>4, <1>5, <1>7, <2>1
<1>9. x = [s \in DOMAIN x |-> x[s]] /\ y = [s \in DOMAIN y |-> y[s]]
  BY <1>4, <1>5 DEF isDocument
<1> QED BY <1>1, <1>8, <1>9

\* What the first k edits of a document have come to.
edited(after, doc, edits, k) ==
  /\ isDocument(after)
  /\ \A i \in 1..k : resolve(after, edits[i].path) = edits[i].value
  /\ \A q \in DOMAIN doc : (\A i \in 1..k : ~Overlap(edits[i].path, q)) => q \in DOMAIN after /\ after[q] = doc[q]
  /\ \A q \in DOMAIN after : (q \in DOMAIN doc /\ after[q] = doc[q]) \/ \E i \in 1..k : IsPrefix(edits[i].path, q)

LEMMA SetAllEdits ==
  ASSUME NEW doc, isDocument(doc), NEW edits, editsApart(edits)
  PROVE  edited(setAll(doc, edits), doc, edits, Len(edits))
<1>1. PICK n \in Nat : n = Len(edits) /\ DOMAIN edits = 1..n
  BY DEF editsApart, editsOK
<1>2. /\ \A i \in 1..n : edits[i].path \in Path /\ isDocument(edits[i].value)
      /\ \A i, j \in 1..n : i # j => ~Overlap(edits[i].path, edits[j].path)
  BY <1>1 DEF editsApart, editsOK
<1>3. PICK run : setsTo(run, n, doc, edits)
  BY <1>1, SetAllRuns
<1>4. /\ run[0] = doc /\ run[n] = setAll(doc, edits)
      /\ \A k \in 1..n : run[k] = setAtPath(run[k - 1], edits[k].path, edits[k].value)
  BY <1>3 DEF setsTo
<1> DEFINE bad == {k \in 0..n : ~edited(run[k], doc, edits, k)}
<1>5. edited(run[0], doc, edits, 0)
  BY <1>4 DEF edited
<1>6. ASSUME NEW k \in 1..n, edited(run[k - 1], doc, edits, k - 1) PROVE edited(run[k], doc, edits, k)
  <2>1. PICK old, new, p, v : old = run[k - 1] /\ new = run[k] /\ p = edits[k].path /\ v = edits[k].value
    OBVIOUS
  <2>2. p \in Path /\ isDocument(v) /\ new = setAtPath(old, p, v)
    BY <1>2, <1>4, <2>1
  <2>3. /\ isDocument(old)
        /\ \A i \in 1..(k - 1) : resolve(old, edits[i].path) = edits[i].value
        /\ \A q \in DOMAIN doc : (\A i \in 1..(k - 1) : ~Overlap(edits[i].path, q)) => q \in DOMAIN old /\ old[q] = doc[q]
        /\ \A q \in DOMAIN old : (q \in DOMAIN doc /\ old[q] = doc[q]) \/ \E i \in 1..(k - 1) : IsPrefix(edits[i].path, q)
    BY <1>6, <2>1 DEF edited
  <2>4. /\ isDocument(new) /\ resolve(new, p) = v
        /\ \A q \in DOMAIN old : ~Overlap(p, q) => q \in DOMAIN new /\ new[q] = old[q]
        /\ \A s \in DOMAIN v : s \in Path
        /\ \A q \in DOMAIN new : (q \in DOMAIN old /\ ~Overlap(p, q)) \/ \E s \in DOMAIN v : q = p \o s
    <3>1. puts(old, p, v, new)
      BY <2>2, <2>3, SetAtPathIs
    <3> QED BY <3>1 DEF puts
  <2>5. k \in 1..k /\ \A i : i \in 1..k <=> i \in 1..(k - 1) \/ i = k
    BY <1>1
  <2>6. ASSUME NEW i \in 1..k PROVE resolve(new, edits[i].path) = edits[i].value
    <3>1. CASE i = k
      BY <2>1, <2>4, <3>1
    <3>2. CASE i \in 1..(k - 1)
      <4>1. PICK r \in Path : r = edits[i].path /\ ~Overlap(p, r)
        BY <1>1, <1>2, <2>1, <3>2
      <4>2. resolve(new, r) = resolve(old, r)
        BY <2>2, <2>3, <4>1, ResolveApart
      <4> QED BY <2>3, <3>2, <4>1, <4>2
    <3> QED BY <2>5, <3>1, <3>2
  <2>7. ASSUME NEW q \in DOMAIN doc, \A i \in 1..k : ~Overlap(edits[i].path, q)
        PROVE  q \in DOMAIN new /\ new[q] = doc[q]
    <3>1. q \in DOMAIN old /\ old[q] = doc[q] /\ ~Overlap(p, q)
      BY <2>1, <2>3, <2>5, <2>7
    <3> QED BY <2>4, <3>1
  <2>8. ASSUME NEW q \in DOMAIN new
        PROVE  (q \in DOMAIN doc /\ new[q] = doc[q]) \/ \E i \in 1..k : IsPrefix(edits[i].path, q)
    <3>1. CASE q \in DOMAIN old /\ ~Overlap(p, q)
      <4>1. new[q] = old[q]
        BY <2>4, <3>1
      <4> QED BY <2>3, <2>5, <3>1, <4>1
    <3>2. CASE \E s \in DOMAIN v : q = p \o s
      <4>1. IsPrefix(p, q)
        BY <2>2, <2>4, <3>2, PrefixConcat
      <4> QED BY <2>1, <2>5, <4>1
    <3> QED BY <2>4, <3>1, <3>2
  <2> QED BY <2>1, <2>4, <2>6, <2>7, <2>8 DEF edited
<1>7. bad = {}
  <2> SUFFICES ASSUME bad # {} PROVE FALSE
    OBVIOUS
  <2>1. PICK k \in bad : \A m \in bad : k <= m
    <3>1. bad \in SUBSET Nat
      BY <1>1
    <3> HIDE DEF bad
    <3> QED BY <3>1, LeastOf
  <2>2. k \in 0..n /\ ~edited(run[k], doc, edits, k) /\ k # 0
    BY <1>5
  <2>3. k \in 1..n /\ k - 1 \in 0..n /\ k - 1 \notin bad
    BY <1>1, <2>1, <2>2
  <2> QED BY <1>6, <2>2, <2>3
<1>8. edited(run[n], doc, edits, n)
  BY <1>1, <1>7
<1> QED BY <1>1, <1>4, <1>8

\* What modifications that are applied come to.
LEMMA AppliedIs ==
  ASSUME NEW doc, isDocument(doc), NEW mods, wellFormed(mods) => isJson(mods),
         NEW applied, applied = applyModifications(doc, mods), applied # Throws
  PROVE  /\ isDocument(applied) /\ DOMAIN applied # {} /\ (isPlainObject(doc) => isPlainObject(applied))
         /\ rewritten(mods, doc, applied)
         /\ \A q \in DOMAIN doc : q \in DOMAIN applied \/ \E e \in Range(editsOf(mods)) : IsPrefix(e.path, q)
         /\ \A e \in Range(editsOf(mods)) : \A s \in DOMAIN e.value : e.path \o s \in DOMAIN applied
<1>1. assertValidModifications(mods, doc) /\ applied = setAll(doc, editsOf(mods))
  BY DEF applyModifications
<1>2. wellFormed(mods) /\ disjoint(mods) /\ isJson(mods)
  BY <1>1 DEF assertValidModifications
<1>3. PICK edits : edits = editsOf(mods)
  OBVIOUS
<1>4. PICK n \in Nat : n = Len(edits) /\ n > 0 /\ DOMAIN edits = 1..n
  BY <1>2, <1>3, EditsAre DEF editsApart, editsOK
<1>5. editsApart(edits) /\ edited(applied, doc, edits, n)
  BY <1>1, <1>2, <1>3, <1>4, EditsAre, SetAllEdits
<1>6. /\ isDocument(applied)
      /\ \A i \in 1..n : resolve(applied, edits[i].path) = edits[i].value
      /\ \A q \in DOMAIN doc : (\A i \in 1..n : ~Overlap(edits[i].path, q)) => q \in DOMAIN applied /\ applied[q] = doc[q]
      /\ \A q \in DOMAIN applied : (q \in DOMAIN doc /\ applied[q] = doc[q]) \/ \E i \in 1..n : IsPrefix(edits[i].path, q)
  BY <1>5 DEF edited
<1>7. \A i \in 1..n : edits[i].path \in Path /\ edits[i].path # <<>> /\ DOMAIN edits[i].value # {}
  BY <1>4, <1>5 DEF editsApart, editsOK
<1>8. \A i \in 1..n : Present(doc, edits[i].path)
  <2>1. \A i \in 1..n : (\E j \in DOMAIN mods.redactions : edits[i].path = mods.redactions[j].path)
                         \/ \E key \in DOMAIN mods.parameter_overrides : edits[i].path = <<key>>
    BY <1>2, <1>3, <1>4, EditsAre
  <2>2. \A j \in DOMAIN mods.redactions : Present(doc, mods.redactions[j].path)
    <3>1. \A j \in DOMAIN mods.redactions : mods.redactions[j].path \in Range(redactionTargets(mods))
      BY DEF redactionTargets, Range
    <3> QED BY <1>1, <3>1 DEF assertValidModifications
  <2>3. \A key \in DOMAIN mods.parameter_overrides : Present(doc, <<key>>)
    BY <1>1 DEF assertValidModifications
  <2> QED BY <2>1, <2>2, <2>3
<1>9. DOMAIN doc \subseteq Path /\ \A p, q \in DOMAIN doc : IsPrefix(p, q) => p = q
  BY DEF isDocument, Path
<1>10. \A e : e \in Range(edits) <=> \E i \in 1..n : e = edits[i]
  BY <1>4 DEF Range
<1>11. ASSUME NEW q \in DOMAIN doc, NEW i \in 1..n, IsPrefix(q, edits[i].path) PROVE IsPrefix(edits[i].path, q)
  <2>1. PICK r \in DOMAIN doc : IsPrefix(edits[i].path, r)
    BY <1>8 DEF Present
  <2>2. IsPrefix(q, r)
    BY <1>7, <1>9, <1>11, <2>1, PrefixOrder
  <2> QED BY <1>9, <2>1, <2>2
<1>12. ASSUME NEW q \in DOMAIN doc, \A i \in 1..n : ~IsPrefix(edits[i].path, q)
       PROVE  q \in DOMAIN applied /\ applied[q] = doc[q]
  BY <1>6, <1>11, <1>12 DEF Overlap
<1>13. rewritten(mods, doc, applied)
  <2>1. \A e \in Range(edits) : resolve(applied, e.path) = e.value
    BY <1>6, <1>10
  <2>2. ASSUME NEW q \in DOMAIN doc \cup DOMAIN applied, \A e \in Range(edits) : ~IsPrefix(e.path, q)
        PROVE  q \in DOMAIN doc /\ q \in DOMAIN applied /\ doc[q] = applied[q]
    <3>1. \A i \in 1..n : ~IsPrefix(edits[i].path, q)
      BY <1>10, <2>2
    <3> QED BY <1>6, <1>12, <3>1
  <2> QED BY <1>3, <2>1, <2>2 DEF rewritten
<1>14. ASSUME NEW e \in Range(edits), NEW s \in DOMAIN e.value PROVE e.path \o s \in DOMAIN applied
  <2>1. PICK i \in 1..n : e = edits[i]
    BY <1>10
  <2>2. resolve(applied, edits[i].path) = edits[i].value
    BY <1>6
  <2>3. PICK p \in Path : p = edits[i].path
    BY <1>7
  <2>4. s \in DOMAIN resolve(applied, p)
    BY <1>14, <2>1, <2>2, <2>3
  <2>5. p \o s \in DOMAIN applied
    BY <1>6, <2>4, ResolveIs
  <2> QED BY <2>1, <2>3, <2>5
<1>15. DOMAIN applied # {}
  <2>1. edits[1] \in Range(edits) /\ DOMAIN edits[1].value # {}
    BY <1>4, <1>7, <1>10
  <2> QED BY <1>14, <2>1
<1>16. ASSUME isPlainObject(doc) PROVE isPlainObject(applied)
  <2> SUFFICES ASSUME <<>> \in DOMAIN applied PROVE FALSE
    BY DEF isPlainObject
  <2>1. PICK i \in 1..n : IsPrefix(edits[i].path, <<>>)
    BY <1>6, <1>16 DEF isPlainObject
  <2>0. <<>> \in Path /\ Len(<<>>) = 0
    BY DEF Path
  <2>2. PICK e \in Path : e = <<>> /\ Len(e) = 0
    BY <2>0
  <2>3. PICK p \in Path : p = edits[i].path /\ p # <<>>
    BY <1>7
  <2>4. Len(p) <= 0
    BY <2>1, <2>2, <2>3, PrefixPoints
  <2>5. Len(p) \in Nat /\ Len(p) # 0
    BY <2>3 DEF Path
  <2> QED BY <2>4, <2>5
<1>17. \A q \in DOMAIN doc : q \in DOMAIN applied \/ \E e \in Range(edits) : IsPrefix(e.path, q)
  BY <1>10, <1>12
<1> QED BY <1>3, <1>6, <1>13, <1>14, <1>15, <1>16, <1>17

\* Modified arguments leave nothing of the old ones behind when they are merged.
LEMMA MergesAll ==
  ASSUME NEW arguments, isDocument(arguments), NEW applied, isDocument(applied), NEW edits,
         \A e \in edits : \A s \in DOMAIN e.value : e.path \o s \in DOMAIN applied,
         \A q \in DOMAIN arguments : q \in DOMAIN applied \/ \E e \in edits : IsPrefix(e.path, q),
         \A e \in edits, q \in DOMAIN arguments : IsPrefix(e.path, q) => \E s \in DOMAIN e.value : Overlap(q, e.path \o s)
  PROVE  mergeInPlace(arguments, applied) = applied
<1> DEFINE kept == {q \in DOMAIN arguments : \A s \in DOMAIN applied : ~Overlap(q, s)}
<1>1. \A q \in DOMAIN applied : Overlap(q, q)
  BY PrefixOrder DEF isDocument, Overlap, Path
<1>2. kept = {}
  BY <1>1
<1>3. mergeInPlace(arguments, applied) = [q \in DOMAIN applied |-> applied[q]]
  BY <1>2 DEF mergeInPlace
<1> QED BY <1>3 DEF isDocument

\* What is found at a leaf is that leaf.
LEMMA LeafIsFound ==
  ASSUME NEW doc, isDocument(doc), NEW p \in DOMAIN doc, NEW v, isDocument(v), DOMAIN v = {<<>>}, doc[p] = v[<<>>]
  PROVE  resolve(doc, p) = v
<1>1. p \in Path /\ <<>> \in Path /\ p \o <<>> = p
  BY ConcatEmptySeq DEF isDocument, Path
<1>2. PICK x : x = resolve(doc, p)
  OBVIOUS
<1>3. /\ isDocument(x) /\ \A s : s \in DOMAIN x <=> s \in Path /\ p \o s \in DOMAIN doc
      /\ \A s \in DOMAIN x : x[s] = doc[p \o s]
  BY <1>1, <1>2, ResolveIs
<1>4. <<>> \in DOMAIN x /\ x[<<>>] = v[<<>>]
  BY <1>1, <1>3
<1>5. \A s \in DOMAIN x : s = <<>>
  <2>1. \A s \in DOMAIN x : s \in Path /\ p \o s \in DOMAIN doc /\ IsPrefix(p, p \o s)
    BY <1>1, <1>3, PrefixConcat
  <2>2. \A s \in DOMAIN x : p \o s = p
    BY <2>1 DEF isDocument
  <2>3. \A s \in DOMAIN x : relative(p \o s, p) = s /\ relative(p \o <<>>, p) = <<>>
    BY <1>1, <2>1, PrefixConcat
  <2> QED BY <1>1, <2>2, <2>3
<1>6. x = [s \in DOMAIN x |-> x[s]] /\ v = [s \in DOMAIN v |-> v[s]]
  BY <1>3 DEF isDocument
<1>7. DOMAIN x = DOMAIN v
  BY <1>4, <1>5
<1> QED BY <1>2, <1>4, <1>6, <1>7

\* A value that is a string is a leaf.
LEMMA StringIsLeaf ==
  ASSUME NEW v, isDocument(v), typeOf(v) = "string"
  PROVE  DOMAIN v = {<<>>} /\ v[<<>>].type = "string"
<1>1. <<>> \in DOMAIN v /\ v[<<>>].type = "string"
  BY DEF typeOf, isPlainObject
<1>2. \A s \in DOMAIN v : IsPrefix(<<>>, s)
  <2> TAKE s \in DOMAIN v
  <2>1. <<>> \in Path /\ Len(<<>>) = 0 /\ s \in Path /\ Len(s) \in Nat
    BY DEF isDocument, Path
  <2> QED BY <2>1, PrefixPoints
<1> QED BY <1>1, <1>2 DEF isDocument

LEMMA OutputLeafIs == OutputLeaf \in Path
<1>1. ASSUME NEW S, NEW t \in S, NEW u \in S, NEW w \in S PROVE <<t, u, w>> \in Seq(S)
  OBVIOUS
<1> QED BY <1>1, NameAssumption DEF OutputLeaf, Path

\* A document in which nothing but the projected leaf has changed is the
\* document with that leaf put in its place.
LEMMA ProjectedIs ==
  ASSUME NEW document, isDocument(document), NEW applied, isDocument(applied), Present(applied, OutputLeaf),
         withoutProjectedLeaf(applied) = withoutProjectedLeaf(document)
  PROVE  setAtPath(document, OutputLeaf, resolve(applied, OutputLeaf)) = applied
<1>0. PICK p \in Path : p = OutputLeaf
  BY OutputLeafIs
<1>1. PICK v, new : p = OutputLeaf /\ v = resolve(applied, p) /\ new = setAtPath(document, p, v)
  BY <1>0
<1>2. /\ isDocument(v) /\ \A s : s \in DOMAIN v <=> s \in Path /\ p \o s \in DOMAIN applied
      /\ \A s \in DOMAIN v : v[s] = applied[p \o s]
  BY <1>1, ResolveIs
<1>3. puts(document, p, v, new)
  BY <1>1, <1>2, SetAtPathIs
<1>4. /\ isDocument(new)
      /\ \A q \in DOMAIN document : ~Overlap(p, q) => q \in DOMAIN new /\ new[q] = document[q]
      /\ \A s \in DOMAIN v : s \in Path /\ p \o s \in DOMAIN new /\ new[p \o s] = v[s]
      /\ \A q \in DOMAIN new : (q \in DOMAIN document /\ ~Overlap(p, q)) \/ \E s \in DOMAIN v : q = p \o s
  BY <1>3 DEF puts
<1>5. PICK x, y : x = withoutProjectedLeaf(applied) /\ y = withoutProjectedLeaf(document) /\ x = y
  OBVIOUS
<1>6. /\ DOMAIN x = {q \in DOMAIN applied : ~IsPrefix(p, q)} /\ \A q \in DOMAIN x : x[q] = applied[q]
      /\ DOMAIN y = {q \in DOMAIN document : ~IsPrefix(p, q)} /\ \A q \in DOMAIN y : y[q] = document[q]
  BY <1>1, <1>5 DEF withoutProjectedLeaf
<1>7. /\ \A q : q \in DOMAIN applied /\ ~IsPrefix(p, q) <=> q \in DOMAIN document /\ ~IsPrefix(p, q)
      /\ \A q \in DOMAIN applied : ~IsPrefix(p, q) => applied[q] = document[q]
  BY <1>5, <1>6
<1>8. DOMAIN applied \subseteq Path /\ \A q, r \in DOMAIN applied : IsPrefix(q, r) => q = r
  BY DEF isDocument, Path
<1>9. \A q \in DOMAIN applied : ~IsPrefix(p, q) => ~Overlap(p, q)
  <2>1. PICK r \in DOMAIN applied : IsPrefix(p, r)
    BY <1>1 DEF Present
  <2> SUFFICES ASSUME NEW q \in DOMAIN applied, ~IsPrefix(p, q), IsPrefix(q, p) PROVE FALSE
    BY DEF Overlap
  <2>2. IsPrefix(q, r)
    BY <1>8, <2>1, PrefixOrder
  <2> QED BY <1>8, <2>1, <2>2
<1>10. ASSUME NEW q \in DOMAIN applied PROVE q \in DOMAIN new /\ new[q] = applied[q]
  <2>1. CASE IsPrefix(p, q)
    <3>1. PICK s \in Path : p \o s = q
      BY <1>8, <2>1, PrefixSplits
    <3> QED BY <1>2, <1>4, <3>1
  <2>2. CASE ~IsPrefix(p, q)
    BY <1>4, <1>7, <1>9, <2>2
  <2> QED BY <2>1, <2>2
<1>11. ASSUME NEW q \in DOMAIN new PROVE q \in DOMAIN applied
  <2>1. CASE q \in DOMAIN document /\ ~Overlap(p, q)
    BY <1>7, <2>1 DEF Overlap
  <2>2. CASE \E s \in DOMAIN v : q = p \o s
    BY <1>2, <2>2
  <2> QED BY <1>4, <2>1, <2>2
<1>12. new = [q \in DOMAIN new |-> new[q]] /\ applied = [q \in DOMAIN applied |-> applied[q]]
  BY <1>4 DEF isDocument
<1>13. DOMAIN new = DOMAIN applied
  BY <1>10, <1>11
<1>14. new = applied
  BY <1>10, <1>12, <1>13
<1> QED BY <1>1, <1>14

\* What the pointers of a result's modifications name is a document.
LEMMA DocumentIs ==
  ASSUME NEW acs, acs.arguments = Absent, isDocument(acs.value), NEW tool
  PROVE  isDocument(modificationDocumentOf(acs, tool))
<1> DEFINE texts == [tool |-> tool, exit_status |-> acs.exit_status, request_id_ref |-> "a request id"]
           named == {f \in DOMAIN texts : f # "request_id_ref" \/ acs.request_id_ref # Absent}
           name(f) == <<f>>
           whole == [p \in {name(f) : f \in named} |-> [type |-> "string", text |-> texts[p[1]]]]
<1>1. modificationDocumentOf(acs, tool) = setAtPath(whole, OutputLeaf, acs.value)
  BY DEF modificationDocumentOf
<1>2. named \subseteq {"tool", "exit_status", "request_id_ref"}
  OBVIOUS
<1>3. DOMAIN whole = {name(f) : f \in named} /\ whole = [q \in DOMAIN whole |-> whole[q]]
  OBVIOUS
<1> HIDE DEF whole, named, texts
<1>4. {"tool", "exit_status", "request_id_ref"} \subseteq STRING
  BY NameAssumption
<1>5. \A f \in STRING : name(f) \in Path /\ Len(name(f)) = 1 /\ name(f)[1] = f
  BY OneName, Zenon
<1> HIDE DEF name
<1>6. DOMAIN whole \subseteq {name(f) : f \in STRING}
  BY <1>2, <1>3, <1>4
<1>7. \A p, q \in DOMAIN whole : IsPrefix(p, q) => p = q
  <2> SUFFICES ASSUME NEW f \in STRING, NEW g \in STRING, IsPrefix(name(f), name(g)) PROVE name(f) = name(g)
    BY <1>6
  <2>1. name(f)[1] = name(g)[1]
    BY <1>5, PrefixPoints
  <2> QED BY <1>5, <2>1
<1>8. isDocument(whole)
  <2>1. DOMAIN whole \subseteq Path
    BY <1>5, <1>6
  <2> QED BY <1>3, <1>7, <2>1 DEF isDocument, Path
<1>9. puts(whole, OutputLeaf, acs.value, setAtPath(whole, OutputLeaf, acs.value))
  BY <1>8, OutputLeafIs, SetAtPathIs
<1> QED BY <1>1, <1>9 DEF puts

\* What a modify puts in the step's own place is what the host finds there, or
\* OpenCode finds a refusal.
LEMMA ModifyReaches ==
  ASSUME Deployed, NEW gate \in Gates, NEW decision, isDecision(decision), decision.decision = "modify",
         NEW output, output = renderDecision(hooks[hookAt(host, gate)].decisions, decision), output # Throws,
         NEW doc, doc = decision[carriedAt(gate)], doc # Absent, isDocument(doc), isPlainObject(doc), DOMAIN doc # {}
  PROVE  LET sink == sinkAt(host, gate)
         IN  \/ host = "opencode" /\ Present(output, <<"refuse">>)
             \/ Present(output, sink) /\ resolve(output, sink) = doc
<1> DEFINE h == hookAt(host, gate)
           rules == hooks[h].decisions
           rule == rules["modify"]
<1>1. PICK d \in Hookmaps : accepts(d) /\ host = d.host /\ hooks = d.hooks
  BY DEF Deployed
<1>2. d \in {e \in Hookmaps : accepts(e)} /\ h \in DOMAIN hooks /\ \A n \in DOMAIN rules : wellRuled(rules[n])
  BY <1>1, DeployedRules
<1>3. carriesDocuments(decision)
  BY DEF isDecision
<1>4. "modify" \in DOMAIN rules /\ wellRuled(rule) /\ fieldsPlaced(output, rule, decision, Len(rule))
  <2> HIDE DEF rules
  <2>1. "modify" \in DOMAIN rules /\ fieldsPlaced(output, rule, decision, Len(rule))
    BY <1>2, <1>3, Rendered DEF rules
  <2> QED BY <1>2, <2>1
<1>5. PICK sink \in Path : sink = sinkAt(host, gate)
  BY DeployedShows
<1>6. /\ \A i \in DOMAIN rule : ~IsStrictPrefix(sink, rule[i].path)
      /\ host = "claude-code" => declaresSinkFrom(rule, sink, carriedAt(gate))
  <2> DEFINE RewritesAt(dep, g) ==
        LET decisions == dep.hooks[hookAt(dep.host, g)].decisions
            place_ == sinkAt(dep.host, g)
        IN  "modify" \in DOMAIN decisions =>
              /\ \A i \in DOMAIN decisions["modify"] : ~IsStrictPrefix(place_, decisions["modify"][i].path)
              /\ dep.host = "claude-code" => declaresSinkFrom(decisions["modify"], place_, carriedAt(g))
  <2>1. RewritesAt(d, gate)
    BY <1>2, RewritingAssumption
  <2> QED BY <1>1, <1>4, <1>5, <2>1
<1>7. ASSUME declaresSinkFrom(rule, sink, carriedAt(gate)) PROVE Present(output, sink) /\ resolve(output, sink) = doc
  <2> HIDE DEF rules, rule
  <2>1. PICK field \in Renderable : field = carriedAt(gate)
    BY DEF carriedAt, Renderable
  <2>2. declaresSinkFrom(rule, sink, field) /\ doc = decision[field]
    BY <1>7, <2>1
  <2> QED BY <1>4, <1>6, <2>2, SinkHoldsField
<1>8. CASE host = "opencode"
  <2>1. /\ h = IF gate = "request" THEN "tool.execute.before" ELSE "tool.execute.after"
        /\ sink = IF gate = "request" THEN <<"args">> ELSE <<"result">>
    BY <1>5, <1>8 DEF hookAt, sinkAt
  <2>2. assertOpenCodeAccepts(hooks)
    BY <1>1, <1>8 DEF accepts
  <2>3. assertDecisionsCanAct(rules, gateOf[h].carries, gateOf[h].sink)
    BY <1>2, <2>2 DEF assertOpenCodeAccepts
  <2>4. gateOf[h].sink = sink /\ gateOf[h].carries["modify"] = carriedAt(gate)
    <3>1. CASE gate = "request"
      BY <2>1, <3>1 DEF gateOf, requestCarries, carriedAt
    <3>2. CASE gate # "request"
      BY <2>1, <3>2 DEF gateOf, resultCarries, carriedAt
    <3> QED BY <3>1, <3>2
  <2> HIDE DEF rules, rule
  <2>5. declaresUnconditionalRefusal(rule) \/ declaresSinkFrom(rule, sink, carriedAt(gate))
    BY <1>4, <2>3, <2>4 DEF assertDecisionsCanAct, satisfiesGate, rule
  <2>6. CASE declaresUnconditionalRefusal(rule)
    BY <1>3, <1>4, <1>8, <2>6, RefuseIsPresent
  <2> QED BY <1>5, <1>7, <2>5, <2>6
<1>9. CASE host # "opencode"
  <2>1. host = "claude-code"
    BY <1>9, DeployedRules DEF Hosts
  <2> QED BY <1>5, <1>6, <1>7, <2>1
<1> QED BY <1>8, <1>9

\* What it comes to there.
LEMMA ModifyActs ==
  ASSUME Deployed, NEW gate \in Gates, NEW payload, NEW output, output # Throws, NEW doc,
         \/ host = "opencode" /\ Present(output, <<"refuse">>)
         \/ Present(output, sinkAt(host, gate)) /\ resolve(output, sinkAt(host, gate)) = doc
  PROVE  LET bag == IF gate = "request" THEN <<"tool_input">> ELSE <<"tool_response">>
             original == resolve(payload, IF host = "opencode" THEN sinkAt(host, gate) ELSE bag)
             effect == acts(output, gate, payload)
         IN  \/ effect = refused
             \/ host = "opencode" /\ effect = ran(mergeInPlace(original, doc))
             \/ /\ host # "opencode"
                /\ \/ effect = ran(doc)
                   \/ /\ effect = ran(original) /\ gate # "request"
                      /\ ~(DOMAIN doc = DOMAIN original /\ \A q \in DOMAIN original : doc[q].type = original[q].type)
<1> DEFINE effect == acts(output, gate, payload)
           sink == sinkAt(host, gate)
<1>1. CASE host = "opencode"
  <2>1. sink = IF gate = "request" THEN <<"args">> ELSE <<"result">>
    BY <1>1 DEF sinkAt
  <2>2. CASE Present(output, <<"refuse">>)
    BY <1>1, <2>2 DEF acts, applyOpenCodeOutput
  <2>3. CASE Present(output, sink) /\ resolve(output, sink) = doc
    <3> DEFINE own == IF gate = "request" THEN <<"args">> ELSE <<"result">>
    <3>1. effect = refused \/ effect = ran(mergeInPlace(resolve(payload, own), resolve(output, own)))
      BY <1>1 DEF acts, applyOpenCodeOutput
    <3> QED BY <1>1, <2>1, <2>3, <3>1
  <2> QED BY <2>2, <2>3
<1>2. CASE host # "opencode"
  <2>1. sink = IF gate = "request" THEN UpdatedInput ELSE UpdatedToolOutput
    BY <1>2 DEF sinkAt
  <2>2. Present(output, sink) /\ resolve(output, sink) = doc
    BY <1>2
  <2>3. effect = refused \/ effect = claudeCodeReads(output, gate, payload)
    BY <1>2 DEF acts
  <2> DEFINE original == resolve(payload, IF gate = "request" THEN <<"tool_input">> ELSE <<"tool_response">>)
             sameShape == DOMAIN doc = DOMAIN original /\ \A q \in DOMAIN original : doc[q].type = original[q].type
  <2>4. \/ claudeCodeReads(output, gate, payload) = refused
        \/ claudeCodeReads(output, gate, payload) = ran(IF gate = "request" \/ sameShape THEN doc ELSE original)
    BY <2>1, <2>2 DEF claudeCodeReads
  <2> HIDE DEF effect, original
  <2> QED BY <1>2, <2>3, <2>4 DEF effect, original
<1> QED BY <1>1, <1>2

\* A step whose arguments can be merged whole, or are not merged.
Whole == host = "claude-code" \/ MergesWhole

\* A tool that runs after a modify runs with what was asked for.
LEMMA ModifyRuns ==
  ASSUME Deployed, Whole, NEW c \in Calls, gateAt(c) = "request", NEW payload \in payloadsAt(host, "request", c),
         NEW asked, shows(entryAt(c), payload, asked), NEW decision \in Decisions["request"],
         decision.decision = "modify", NEW resolved,
         resolved = resolveModify(decision, modificationDocumentOf(asked.payload, asked.tool), locationAt(c, payload)),
         resolved.decision = "modify", NEW output, output = render(c, resolved, payload), output # Throws
  PROVE  LET effect == acts(output, "request", payload)
         IN  effect = refused \/ rewritten(resolved.modifications, asked.payload.arguments, effect.doc)
<1> DEFINE own == IF host = "opencode" THEN <<"args">> ELSE <<"tool_input">>
           mods == decision.modifications
<1>1. PICK gate \in Gates : gate = "request"
  BY DEF Gates
<1>2. PICK entry : entry = entryAt(c) /\ entry = hooks[hookAt(host, gate)]
  BY <1>1 DEF entryAt, hookOf
<1>3. entry.outputs = Absent /\ entry.arguments = own /\ host \in Hosts
  BY <1>1, <1>2, DeployedShows, DeployedRules
<1>4. isDocument(payload)
  BY <1>1, PayloadsAreDocuments
<1>5. PICK arguments : arguments = resolve(payload, own)
  OBVIOUS
<1>6. isPlainObject(arguments) /\ arguments # Absent /\ applyModifications(arguments, mods) # Absent
  BY <1>3, <1>5, ArgumentsAssumption DEF payloadsAt
<1>7. asked.payload.arguments = arguments
  <2>1. PICK acs : acs = buildPayload(entry, payload) /\ acs # Throws /\ asked.payload.arguments = acs.arguments
    BY <1>2 DEF shows
  <2>2. acs = requestPayload(entry, payload)
    BY <1>3, <2>1 DEF buildPayload
  <2> HIDE DEF own
  <2> QED BY <1>3, <1>5, <1>6, <2>1, <2>2 DEF requestPayload
<1>8. own \in Path
  <2>1. <<"args">> \in Path /\ <<"tool_input">> \in Path
    BY NameAssumption, OneName
  <2> QED BY <2>1
<1>9. isDocument(arguments)
  <2> HIDE DEF own
  <2> QED BY <1>4, <1>5, <1>8, ResolveIs
<1>10. modificationDocumentOf(asked.payload, asked.tool) = arguments /\ locationAt(c, payload) = Absent
  BY <1>2, <1>3, <1>6, <1>7 DEF modificationDocumentOf, locationAt
<1>11. PICK applied : applied = applyModifications(arguments, mods)
  OBVIOUS
<1>12. applied # Throws /\ resolved = [decision EXCEPT !["applied_input"] = applied]
  <2>1. resolved = IF applied = Throws THEN deny("modifications_invalid") ELSE [decision EXCEPT !.applied_input = applied]
    BY <1>10, <1>11 DEF resolveModify
  <2>2. deny("modifications_invalid").decision # "modify"
    BY DenyIsDecision
  <2> QED BY <2>1, <2>2
<1>13. wellFormed(mods) => isJson(mods)
  BY <1>1, DecisionAssumption
<1>14. /\ isDocument(applied) /\ DOMAIN applied # {} /\ isPlainObject(applied)
       /\ rewritten(mods, arguments, applied)
       /\ \A q \in DOMAIN arguments : q \in DOMAIN applied \/ \E e \in Range(editsOf(mods)) : IsPrefix(e.path, q)
       /\ \A e \in Range(editsOf(mods)) : \A s \in DOMAIN e.value : e.path \o s \in DOMAIN applied
  <2> HIDE DEF mods
  <2> QED BY <1>6, <1>9, <1>11, <1>12, <1>13, AppliedIs
<1>15. /\ isDecision(resolved) /\ resolved.applied_input = applied /\ resolved.modifications = mods
       /\ applied # Absent
  <2>1. isDecision(decision) /\ "applied_input" \in Renderable
    BY <1>1, DecisionAssumption DEF isDecision, carriesDocuments, Renderable
  <2>2. DOMAIN decision = DOMAIN decisionOf("allow")
    BY <2>1 DEF isDecision
  <2>3. {"applied_input", "modifications"} \subseteq DOMAIN decision
    BY <2>2 DEF decisionOf
  <2>4. isDecision(resolved)
    <3>1. PICK field \in Renderable : field = "applied_input"
      BY <2>1
    <3>2. isDocument(applied)
      BY <1>14
    <3>3. isDecision([decision EXCEPT ![field] = applied])
      BY <2>1, <3>2, DecisionWith
    <3> QED BY <1>12, <3>1, <3>3
  <2> QED BY <1>6, <1>11, <1>12, <2>3, <2>4
<1>16. output = renderDecision(hooks[hookAt(host, gate)].decisions, resolved)
  <2>1. withResultOutput(resolved, Absent) = resolved
    BY DEF withResultOutput
  <2> QED BY <1>2, <1>10, <2>1 DEF render
<1>17. applied = resolved[carriedAt(gate)]
  BY <1>1, <1>15 DEF carriedAt
<1>18. \/ host = "opencode" /\ Present(output, <<"refuse">>)
       \/ Present(output, sinkAt(host, gate)) /\ resolve(output, sinkAt(host, gate)) = applied
  BY <1>14, <1>15, <1>16, <1>17, ModifyReaches
<1>19. PICK effect : effect = acts(output, gate, payload)
  OBVIOUS
<1>20. CASE host = "opencode"
  <2>1. effect = refused \/ effect = ran(mergeInPlace(resolve(payload, sinkAt(host, gate)), applied))
    BY <1>18, <1>19, <1>20, ModifyActs
  <2>2. resolve(payload, sinkAt(host, gate)) = arguments
    BY <1>1, <1>5, <1>20 DEF sinkAt
  <2>3. \A e \in Range(editsOf(mods)), q \in DOMAIN arguments :
          IsPrefix(e.path, q) => \E s \in DOMAIN e.value : Overlap(q, e.path \o s)
    <3>1. MergesWhole /\ payload \in Starts["opencode"][c] /\ arguments = resolve(payload, <<"args">>)
      BY <1>5, <1>20 DEF Whole, payloadsAt
    <3> QED BY <1>11, <1>12, <3>1 DEF MergesWhole
  <2>4. mergeInPlace(arguments, applied) = applied
    BY <1>9, <1>14, <2>3, MergesAll
  <2>5. effect = refused \/ effect.doc = applied
    BY <2>1, <2>2, <2>4 DEF ran
  <2> QED BY <1>1, <1>7, <1>14, <1>15, <1>19, <2>5
<1>21. CASE host # "opencode"
  <2>1. effect = refused \/ effect = ran(applied)
    BY <1>1, <1>18, <1>19, <1>21, ModifyActs
  <2>2. effect = refused \/ effect.doc = applied
    BY <2>1 DEF ran
  <2> QED BY <1>1, <1>7, <1>14, <1>15, <1>19, <2>2
<1> QED BY <1>20, <1>21

\* Where the output of a call is.
LEMMA ResultLocation ==
  ASSUME Deployed, NEW c \in Calls, gateAt(c) = "result", NEW payload \in payloadsAt(host, "result", c)
  PROVE  LET location == locationAt(c, payload)
         IN  /\ location # Absent /\ locates(location)
             /\ location.payload = payload /\ location.outputs = entryAt(c).outputs
<1>1. PICK d \in Hookmaps : accepts(d) /\ host = d.host /\ hooks = d.hooks
  BY DEF Deployed
<1>2. PICK gate \in Gates : gate = "result"
  BY DEF Gates
<1>3. d \in {e \in Hookmaps : accepts(e)} /\ hookAt(host, gate) \in DOMAIN hooks
  BY <1>1, DeployedRules
<1>4. PICK entry : entry = entryAt(c) /\ entry = hooks[hookAt(host, gate)]
  BY <1>2 DEF entryAt, hookOf
<1>5. entry.outputs # Absent
  BY <1>2, <1>4, DeployedShows
<1>6. entry.outputs.from \in Path /\ entry.outputs.within \in Path /\ entry.outputs.mirrors \in Seq(Path)
  <2>1. entry.outputs = Absent \/ /\ entry.outputs.from \in Seq(STRING) /\ entry.outputs.within \in Seq(STRING)
                                  /\ entry.outputs.mirrors \in Seq(Seq(STRING))
    BY <1>1, <1>3, <1>4, DeploymentAssumption
  <2> QED BY <1>5, <2>1 DEF Path
<1>7. PICK location : location = [payload |-> payload, outputs |-> entry.outputs]
  OBVIOUS
<1>8. locationAt(c, payload) = location /\ location.payload = payload /\ location.outputs = entry.outputs
  BY <1>4, <1>5, <1>7 DEF locationAt
<1>9. location # Absent
  <2>1. entry = d.hooks[hookAt(d.host, "result")] /\ payload \in Ends[d.host][c]
    BY <1>1, <1>2, <1>4 DEF payloadsAt
  <2> QED BY <1>3, <1>7, <2>1, WithholdingAssumption
<1>10. isDocument(payload)
  BY <1>2, PayloadsAreDocuments
<1> QED BY <1>4, <1>6, <1>8, <1>9, <1>10 DEF locates

\* What a modify of an output puts in its place.
LEMMA ResolvedOutputIs ==
  ASSUME NEW decision \in Decisions["result"], decision.decision = "modify",
         NEW document, isDocument(document), NEW location, locates(location), location # Absent,
         assertOutputIsReplaceable(location), NEW resolved,
         resolved = resolveModify(decision, document, location), resolved.decision = "modify"
  PROVE  \E v, doc :
           /\ isDocument(v) /\ DOMAIN v = {<<>>} /\ v[<<>>].type = "string"
           /\ doc = replacingOutput(location, v) /\ doc # Throws
           /\ rewritten(decision.modifications, document, setAtPath(document, OutputLeaf, v))
           /\ v # resolve(location.payload, location.outputs.from)
           /\ isDecision(decision) /\ resolved = [decision EXCEPT !["applied_output"] = doc]
<1> DEFINE mods == decision.modifications
<1>1. PICK applied : applied = applyModifications(document, mods)
  OBVIOUS
<1>2. PICK doc : doc = IF applied = Throws THEN Throws ELSE projectAppliedOutput(applied, document, location)
  OBVIOUS
<1>3. applied # Throws /\ doc # Throws /\ resolved = [decision EXCEPT !["applied_output"] = doc]
  <2>1. resolved = IF applied = Throws \/ doc = Throws THEN deny("modifications_invalid")
                   ELSE [decision EXCEPT !.applied_output = doc]
    BY <1>1, <1>2 DEF resolveModify
  <2>2. deny("modifications_invalid").decision # "modify"
    BY DenyIsDecision
  <2> QED BY <2>1, <2>2
<1>4. PICK gate \in Gates : gate = "result"
  BY DEF Gates
<1>5. isDecision(decision) /\ (wellFormed(mods) => isJson(mods))
  BY <1>4, DecisionAssumption DEF isDecision, carriesDocuments
<1>6. isDocument(applied) /\ rewritten(mods, document, applied)
  <2> HIDE DEF mods
  <2> QED BY <1>1, <1>3, <1>5, AppliedIs
<1>7. PICK v : v = resolve(applied, OutputLeaf)
  OBVIOUS
<1>8. /\ Present(applied, OutputLeaf) /\ v # resolve(location.payload, location.outputs.from)
      /\ withoutProjectedLeaf(applied) = withoutProjectedLeaf(document)
      /\ doc = replacingOutput(location, v)
  BY <1>2, <1>3, <1>7 DEF projectAppliedOutput
<1>9. setAtPath(document, OutputLeaf, v) = applied
  BY <1>6, <1>7, <1>8, ProjectedIs
<1>10. isDocument(v)
  BY <1>6, <1>7, OutputLeafIs, ResolveIs
<1>11. DOMAIN v = {<<>>} /\ v[<<>>].type = "string"
  <2> DEFINE fields == fieldsOf(location.outputs)
             found == typeOf(resolve(resolve(location.payload, location.outputs.within), relative(fields[1], location.outputs.within)))
  <2>1. 1 \in DOMAIN fields
    BY FieldsAre
  <2>2. replaceable(location, v) /\ replaceable(location, Withheld)
    BY <1>3, <1>8 DEF replacingOutput, assertOutputIsReplaceable
  <2>3. found = typeOf(v) /\ found = typeOf(Withheld)
    BY <2>1, <2>2 DEF replaceable, fieldsOf
  <2>4. typeOf(v) = "string"
    BY <2>3, WithheldType
  <2> QED BY <1>10, <2>4, StringIsLeaf
<1> QED BY <1>3, <1>5, <1>6, <1>8, <1>9, <1>10, <1>11

\* An output that is delivered after a modify is what was asked for.
LEMMA ModifyDelivers ==
  ASSUME Deployed, NEW c \in Calls, gateAt(c) = "result", NEW payload \in payloadsAt(host, "result", c),
         assertOutputIsReplaceable(locationAt(c, payload)),
         NEW asked, shows(entryAt(c), payload, asked), NEW decision \in Decisions["result"],
         decision.decision = "modify", NEW resolved,
         resolved = resolveModify(decision, modificationDocumentOf(asked.payload, asked.tool), locationAt(c, payload)),
         resolved.decision = "modify", NEW output, output = render(c, resolved, payload), output # Throws
  PROVE  LET effect == acts(output, "result", payload)
         IN  effect = refused \/ carriesOut(entryAt(c).outputs, resolved.modifications, asked, payload, effect.doc)
<1>1. PICK gate \in Gates : gate = "result"
  BY DEF Gates
<1>2. PICK entry, outputs : /\ entry = entryAt(c) /\ entry = hooks[hookAt(host, gate)] /\ outputs = entry.outputs
  BY <1>1 DEF entryAt, hookOf
<1> DEFINE own == IF host = "opencode" THEN <<"result">> ELSE <<"tool_response">>
<1>3. outputs # Absent /\ outputs.from \in Path /\ outputs.within \in Path /\ outputs.within = own
  BY <1>1, <1>2, DeployedShows
<1>4. PICK location : /\ location = locationAt(c, payload) /\ location # Absent /\ locates(location)
                      /\ location.payload = payload /\ location.outputs = outputs
  <2>1. PICK location : location = locationAt(c, payload)
    OBVIOUS
  <2>2. /\ location # Absent /\ locates(location)
        /\ location.payload = payload /\ location.outputs = entryAt(c).outputs
    BY <2>1, ResultLocation
  <2> QED BY <1>2, <2>1, <2>2
<1>5. isDocument(payload)
  BY <1>4 DEF locates
<1>6. asked.payload.arguments = Absent /\ asked.payload.value = resolve(payload, outputs.from)
  <2>1. PICK acs : /\ acs = buildPayload(entry, payload) /\ acs # Throws
                   /\ asked.payload.arguments = acs.arguments /\ asked.payload.value = acs.value
    BY <1>2 DEF shows
  <2>2. acs = resultPayload(entry, payload)
    BY <1>2, <1>3, <2>1 DEF buildPayload
  <2> QED BY <1>2, <2>1, <2>2 DEF resultPayload
<1>7. isDocument(asked.payload.value)
  BY <1>3, <1>5, <1>6, ResolveIs
<1>8. PICK document : document = modificationDocumentOf(asked.payload, asked.tool)
  OBVIOUS
<1>9. isDocument(document)
  BY <1>6, <1>7, <1>8, DocumentIs
<1>10. resolved = resolveModify(decision, document, location) /\ assertOutputIsReplaceable(location)
  BY <1>4, <1>8
<1>11. PICK v, doc : /\ isDocument(v) /\ DOMAIN v = {<<>>} /\ v[<<>>].type = "string"
                     /\ doc = replacingOutput(location, v) /\ doc # Throws
                     /\ rewritten(decision.modifications, document, setAtPath(document, OutputLeaf, v))
                     /\ v # resolve(location.payload, location.outputs.from)
                     /\ isDecision(decision) /\ resolved = [decision EXCEPT !["applied_output"] = doc]
  BY <1>4, <1>9, <1>10, ResolvedOutputIs
<1>12. PICK original, replaced, leaf : /\ original = resolve(payload, outputs.within) /\ replaced = replacedIn(outputs)
                                       /\ leaf = relative(outputs.from, outputs.within)
  OBVIOUS
<1>13. /\ isDocument(doc) /\ isPlainObject(doc) /\ DOMAIN doc # {} /\ DOMAIN doc = DOMAIN original
       /\ \A q \in DOMAIN doc : doc[q] = IF q \in replaced THEN v[<<>>] ELSE original[q]
       /\ \A q \in DOMAIN doc : doc[q].type = original[q].type
       /\ replaced \subseteq DOMAIN doc
  BY <1>4, <1>11, <1>12, OutputIsReplaced
<1>14. /\ isDecision(resolved) /\ resolved.applied_output = doc
       /\ resolved.modifications = decision.modifications
  <2>1. PICK field \in Renderable : field = "applied_output"
    BY DEF Renderable
  <2>2. isDecision([decision EXCEPT ![field] = doc])
    BY <1>11, <1>13, DecisionWith
  <2>3. DOMAIN decision = DOMAIN decisionOf("allow")
    BY <1>11 DEF isDecision
  <2>4. {"applied_output", "modifications"} \subseteq DOMAIN decision
    BY <2>3 DEF decisionOf
  <2> QED BY <1>11, <2>1, <2>2, <2>4
<1>15. /\ doc # Absent
       /\ output = renderDecision(hooks[hookAt(host, gate)].decisions, resolved)
  <2>1. withResultOutput(resolved, location) = IF doc = Absent THEN Throws ELSE resolved
    BY <1>4, <1>14 DEF withResultOutput, withholdsAtResultGate
  <2>2. output = renderDecision(entry.decisions, withResultOutput(resolved, location))
    BY <1>2, <1>4 DEF render
  <2>3. renderDecision(entry.decisions, Throws) = Throws
    BY DEF renderDecision
  <2> QED BY <1>2, <2>1, <2>2, <2>3
<1>16. doc = resolved[carriedAt(gate)]
  BY <1>1, <1>14 DEF carriedAt
<1>17. \/ host = "opencode" /\ Present(output, <<"refuse">>)
       \/ Present(output, sinkAt(host, gate)) /\ resolve(output, sinkAt(host, gate)) = doc
  <2>1. isDocument(doc) /\ isPlainObject(doc) /\ DOMAIN doc # {} /\ isDecision(resolved)
    BY <1>13, <1>14
  <2> QED BY <1>15, <1>16, <2>1, ModifyReaches
<1>18. PICK effect : effect = acts(output, gate, payload)
  OBVIOUS
<1>19. effect = refused \/ effect.doc = doc
  <2>1. CASE host = "opencode"
    <3>1. effect = refused \/ effect = ran(mergeInPlace(resolve(payload, sinkAt(host, gate)), doc))
      BY <1>17, <1>18, <2>1, ModifyActs
    <3>2. resolve(payload, sinkAt(host, gate)) = original
      BY <1>1, <1>3, <1>12, <2>1 DEF sinkAt
    <3>3. mergeInPlace(original, doc) = doc
      BY <1>13, MergeReplaces
    <3> QED BY <3>1, <3>2, <3>3 DEF ran
  <2>2. CASE host # "opencode"
    <3>1. original = resolve(payload, <<"tool_response">>)
      BY <1>3, <1>12, <2>2
    <3>2. DOMAIN doc = DOMAIN original /\ \A q \in DOMAIN original : doc[q].type = original[q].type
      BY <1>13
    <3>3. effect = refused \/ effect = ran(doc)
      BY <1>1, <1>17, <1>18, <2>2, <3>1, <3>2, ModifyActs
    <3> QED BY <3>3 DEF ran
  <2> QED BY <2>1, <2>2
<1>20. ASSUME NEW p \in replaced PROVE resolve(doc, p) = v
  BY <1>11, <1>13, LeafIsFound
<1>21. leaf \in replaced /\ \A i \in DOMAIN outputs.mirrors : relative(outputs.mirrors[i], outputs.within) \in replaced
  BY <1>12 DEF replacedIn, Range
<1>22. resolve(doc, leaf) = v /\ \A i \in DOMAIN outputs.mirrors : resolve(doc, relative(outputs.mirrors[i], outputs.within)) = v
  BY <1>20, <1>21
<1>23. carriesOut(outputs, resolved.modifications, asked, payload, doc)
  <2>1. rewritten(resolved.modifications, document, setAtPath(document, OutputLeaf, resolve(doc, leaf)))
    BY <1>11, <1>14, <1>22
  <2>2. resolve(doc, leaf) # asked.payload.value
    BY <1>4, <1>6, <1>11, <1>22
  <2>3. \A i \in DOMAIN outputs.mirrors : resolve(doc, relative(outputs.mirrors[i], outputs.within)) = resolve(doc, leaf)
    BY <1>22
  <2>4. \A q \in (DOMAIN original \cup DOMAIN doc) \ replaced :
          q \in DOMAIN original /\ q \in DOMAIN doc /\ doc[q] = original[q]
    BY <1>13
  <2> QED BY <1>8, <1>12, <2>1, <2>2, <2>3, <2>4 DEF carriesOut
<1> QED BY <1>1, <1>2, <1>18, <1>19, <1>23

\* What a modify comes to at the gate a call is at.
lands(gate, decision, effect, payload, asked) ==
  decision # Absent /\ decision.decision \in {"modify"} /\ effect # refused =>
    IF gate = "request" THEN Whole => rewritten(decision.modifications, asked.payload.arguments, effect.doc)
    ELSE carriesOut(hooks[hookOf("result")].outputs, decision.modifications, asked, payload, effect.doc)

LEMMA PostureLands ==
  ASSUME NEW posture \in postures, NEW gate, NEW effect, NEW payload, NEW asked
  PROVE  lands(gate, posture, effect, payload, asked)
<1>1. posture.decision \notin {"modify"}
  BY PostureIsDecision
<1> QED BY <1>1 DEF lands

LEMMA ByDecisionLands ==
  ASSUME Deployed, NEW c \in Calls, NEW decision \in Decisions[gateAt(c)], NEW posture \in postures, NEW asked,
         live'[c] \in payloadsAt(host, gateAt(c), c), shows(entryAt(c), live'[c], asked),
         gateAt(c) = "result" => assertOutputIsReplaceable(locationAt(c, live'[c])),
         NEW resolved, byDecision(c, resolved, posture, asked),
         resolved.decision = "modify" =>
           /\ decision.decision = "modify"
           /\ resolved = resolveModify(decision, modificationDocumentOf(asked.payload, asked.tool), locationAt(c, live'[c]))
  PROVE  \E d, stage, effect :
           /\ stage # "undecided" /\ effect.kind \in kinds /\ ended(c, d, stage, effect, asked)
           /\ lands(gateAt(c), d, effect, live'[c], asked)
<1>1. PICK payload, output : payload = live'[c] /\ output = render(c, resolved, payload)
  OBVIOUS
<1>2. CASE output = Throws
  <2>1. byPosture(c, posture, "render", asked)
    BY <1>1, <1>2 DEF byDecision
  <2>2. PICK stage : stage = "render" /\ byPosture(c, posture, stage, asked) /\ stage # "undecided"
    BY <2>1
  <2>3. PICK effect : effect.kind \in kinds /\ ended(c, posture, stage, effect, asked)
    BY <2>2, ByPostureEnds
  <2>4. lands(gateAt(c), posture, effect, live'[c], asked)
    BY PostureLands
  <2> QED BY <2>2, <2>3, <2>4
<1>3. CASE output # Throws
  <2>1. PICK stage, effect, gate : stage = "honoured" /\ gate = gateAt(c) /\ effect = acts(output, gate, payload)
    OBVIOUS
  <2>2. ended(c, resolved, stage, effect, asked)
    BY <1>1, <1>3, <2>1 DEF byDecision
  <2>3. effect.kind \in kinds
    BY <2>1, ActsKind DEF kinds
  <2>4. /\ payload \in payloadsAt(host, gate, c) /\ shows(entryAt(c), payload, asked)
        /\ gate = "result" => assertOutputIsReplaceable(locationAt(c, payload))
    BY <1>1, <2>1
  <2>5. lands(gate, resolved, effect, payload, asked)
    <3>1. CASE resolved.decision # "modify"
      BY <3>1 DEF lands
    <3>2. CASE resolved.decision = "modify"
      <4>1. /\ decision.decision = "modify"
            /\ resolved = resolveModify(decision, modificationDocumentOf(asked.payload, asked.tool), locationAt(c, payload))
        BY <1>1, <3>2
      <4>2. CASE gate = "request"
        <5>1. /\ gateAt(c) = "request" /\ payload \in payloadsAt(host, "request", c) /\ decision \in Decisions["request"]
              /\ effect = acts(output, "request", payload)
          BY <2>1, <2>4, <4>2
        <5>2. Whole => effect = refused \/ rewritten(resolved.modifications, asked.payload.arguments, effect.doc)
          BY <1>1, <1>3, <2>4, <3>2, <4>1, <5>1, ModifyRuns
        <5> QED BY <4>2, <5>2 DEF lands
      <4>3. CASE gate = "result"
        <5>1. /\ gateAt(c) = "result" /\ payload \in payloadsAt(host, "result", c) /\ decision \in Decisions["result"]
              /\ effect = acts(output, "result", payload) /\ assertOutputIsReplaceable(locationAt(c, payload))
          BY <2>1, <2>4, <4>3
        <5>2. effect = refused \/ carriesOut(entryAt(c).outputs, resolved.modifications, asked, payload, effect.doc)
          BY <1>1, <1>3, <2>4, <3>2, <4>1, <5>1, ModifyDelivers
        <5>3. entryAt(c) = hooks[hookOf("result")]
          BY <5>1 DEF entryAt
        <5> QED BY <4>3, <5>2, <5>3 DEF lands
      <4> QED BY <2>1, <4>2, <4>3 DEF gateAt
    <3> QED BY <3>1, <3>2
  <2> QED BY <1>1, <2>1, <2>2, <2>3, <2>5
<1> QED BY <1>2, <1>3

\* A step that is over at once was decided by no one but the posture, and one
\* that is asked about has an output that can be replaced.
LEMMA FireEnds ==
  ASSUME NEW c \in Calls, NEW payload, NEW posture, Fire(c, payload, posture)
  PROVE  \/ \E decision, stage, effect :
              /\ stage # "undecided" /\ effect.kind \in kinds /\ decision \in {Absent, posture}
              /\ ended(c, decision, stage, effect, Absent) /\ UNCHANGED envelope
         \/ /\ at' = [at EXCEPT ![c] = IF at[c] = "new" THEN "asking" ELSE "judging"] /\ UNCHANGED outcome
            /\ locationAt(c, payload) = Absent \/ assertOutputIsReplaceable(locationAt(c, payload))
<1> DEFINE entry == entryAt(c)
           e == buildEnvelope(entry, payload, TRUE)
           stays == UNCHANGED <<envelope, wire, fresh>>
           asks == /\ at' = [at EXCEPT ![c] = IF at[c] = "new" THEN "asking" ELSE "judging"]
                   /\ envelope' = [envelope EXCEPT ![c] = e]
                   /\ wire' = wire \cup {[call |-> c, sent |-> e]} /\ fresh' = fresh + 2
                   /\ UNCHANGED outcome
           un == ~usable(payload) \/ (host # "opencode" /\ entry.tools # Absent)
           gov == governsTool(entry, payload)
           unrep == locationAt(c, payload) # Absent /\ ~assertOutputIsReplaceable(locationAt(c, payload))
           aside == [kind |-> "ungoverned", doc |-> Absent]
<1>1. IF un THEN ended(c, Absent, "unusable", refused, Absent) /\ stays
      ELSE IF ~gov THEN ended(c, Absent, "ungoverned", aside, Absent) /\ stays
      ELSE IF e = Throws THEN byPosture(c, posture, "request", Absent) /\ stays
      ELSE IF unrep THEN ended(c, Absent, "unreplaceable", refused, Absent) /\ stays
      ELSE asks
  BY DEF Fire
<1>2. refused.kind \in kinds /\ aside.kind \in kinds
  BY DEF refused, kinds
<1>3. ASSUME byPosture(c, posture, "request", Absent)
      PROVE  \E effect : effect.kind \in kinds /\ ended(c, posture, "request", effect, Absent)
  BY <1>3, ByPostureEnds
<1>4. ~unrep => locationAt(c, payload) = Absent \/ assertOutputIsReplaceable(locationAt(c, payload))
  OBVIOUS
<1> HIDE DEF un, gov, unrep, e, entry, aside
<1>5. CASE un
  BY <1>1, <1>2, <1>5
<1>6. CASE ~un /\ ~gov
  BY <1>1, <1>2, <1>6
<1>7. CASE ~un /\ gov /\ e = Throws
  BY <1>1, <1>3, <1>7
<1>8. CASE ~un /\ gov /\ e # Throws /\ unrep
  BY <1>1, <1>2, <1>8
<1>9. CASE ~un /\ gov /\ e # Throws /\ ~unrep
  BY <1>1, <1>4, <1>9
<1> QED BY <1>5, <1>6, <1>7, <1>8, <1>9

\* A hook that waits at the result gate can replace the output.
Replaceable == \A c \in Calls : at[c] = "judging" => assertOutputIsReplaceable(locationAt(c, live[c]))

Landed == OutputsLand /\ (Whole => ArgumentsLand)

LandsInv == ShownInv /\ Replaceable /\ Landed

\* A step that is over keeps what was carried out, and what can be replaced.
LEMMA OverKeepsLanded ==
  ASSUME TypeInv, Replaceable, Landed, UNCHANGED <<host, hooks>>,
         NEW c \in Calls, at[c] # "done", NEW decision, NEW stage, NEW effect, NEW asked,
         stage # "undecided", effect.kind \in kinds, ended(c, decision, stage, effect, asked),
         lands(gateAt(c), decision, effect, live'[c], asked),
         \A b \in Calls \ {c} : live'[b] = live[b]
  PROVE  Replaceable' /\ Landed'
<1>1. gateAt(c) = "result" => outcome[c].request.effect.kind \in {"ran", "ungoverned"}
  BY DEF TypeInv, ResultsFollowRuns, CallTypeOK, gateAt
<1>2. /\ \A b \in Calls \ {c} : at'[b] = at[b] /\ outcome'[b] = outcome[b]
      /\ at'[c] \in {"ran", "done"}
      /\ outcome'[c][gateAt(c)].decision = decision /\ outcome'[c][gateAt(c)].effect = effect
      /\ outcome'[c][gateAt(c)].stage = stage /\ outcome'[c][gateAt(c)].asked = asked
      /\ outcome'[c][gateAt(c)].payload = live'[c]
      /\ \A gate \in Gates \ {gateAt(c)} : outcome'[c][gate] = outcome[c][gate]
  BY <1>1, EndedLeaves
<1>3. Replaceable'
  <2> SUFFICES ASSUME NEW b \in Calls, at'[b] = "judging" PROVE assertOutputIsReplaceable(locationAt(b, live[b]))'
    BY DEF Replaceable
  <2>1. b # c /\ at'[b] = at[b] /\ live'[b] = live[b]
    BY <1>2
  <2>2. assertOutputIsReplaceable(locationAt(b, live[b]))
    BY <2>1 DEF Replaceable
  <2>3. locationAt(b, live[b])' = locationAt(b, live[b])
    BY <2>1 DEF locationAt, entryAt, hookOf, gateAt
  <2> QED BY <2>2, <2>3
<1>4. ASSUME NEW b \in Calls, NEW gate \in Gates
      PROVE  LET o == outcome'[b][gate] IN lands(gate, o.decision, o.effect, o.payload, o.asked)
  <2>1. CASE b = c /\ gate = gateAt(c)
    BY <1>2, <2>1
  <2>2. CASE b # c \/ gate # gateAt(c)
    <3>1. PICK o : o = outcome[b][gate] /\ o = outcome'[b][gate]
      BY <1>2, <2>2
    <3>2. lands(gate, o.decision, o.effect, o.payload, o.asked)
      BY <3>1 DEF Landed, ArgumentsLand, OutputsLand, lands, at_, Gates
    <3> QED BY <3>1, <3>2
  <2> QED BY <2>1, <2>2
<1>5. hookOf("result")' = hookOf("result") /\ (Whole' <=> Whole)
  BY DEF hookOf, Whole
<1>6. OutputsLand'
  <2> SUFFICES ASSUME NEW b \in Calls, at_(outcome'[b].result, {"modify"}), outcome'[b].result.effect # refused
               PROVE  LET o == outcome'[b].result
                      IN  carriesOut(hooks[hookOf("result")].outputs, o.decision.modifications, o.asked, o.payload, o.effect.doc)
    BY <1>5 DEF OutputsLand, at_
  <2>0. PICK gate \in Gates : gate = "result"
    BY DEF Gates
  <2>1. PICK o : o = outcome'[b].result /\ o = outcome'[b][gate]
    BY <2>0
  <2>2. lands(gate, o.decision, o.effect, o.payload, o.asked)
    BY <1>4, <2>1
  <2> QED BY <2>0, <2>1, <2>2 DEF lands, at_
<1>7. ASSUME Whole PROVE ArgumentsLand'
  <2> SUFFICES ASSUME NEW b \in Calls, at_(outcome'[b].request, {"modify"}), outcome'[b].request.effect # refused
               PROVE  LET o == outcome'[b].request
                      IN  rewritten(o.decision.modifications, o.asked.payload.arguments, o.effect.doc)
    BY DEF ArgumentsLand, at_
  <2>0. PICK gate \in Gates : gate = "request"
    BY DEF Gates
  <2>1. PICK o : o = outcome'[b].request /\ o = outcome'[b][gate]
    BY <2>0
  <2>2. lands(gate, o.decision, o.effect, o.payload, o.asked)
    BY <1>4, <2>1
  <2> QED BY <1>7, <2>0, <2>1, <2>2 DEF lands, at_
<1> QED BY <1>3, <1>5, <1>6, <1>7 DEF Landed

\* A step that decides nothing keeps what was carried out.
LEMMA NothingLands ==
  ASSUME Landed, UNCHANGED <<host, hooks>>,
         \A b \in Calls, gate \in Gates : outcome'[b][gate] \in {undecided, outcome[b][gate]}
  PROVE  Landed'
<1>1. ~at_(undecided, {"modify"})
  BY DEF at_, undecided
<1>2. hookOf("result")' = hookOf("result") /\ (Whole' <=> Whole)
  BY DEF hookOf, Whole
<1>3. \A b \in Calls : /\ outcome'[b].request \in {undecided, outcome[b].request}
                       /\ outcome'[b].result \in {undecided, outcome[b].result}
  BY DEF Gates
<1>4. OutputsLand'
  BY <1>1, <1>2, <1>3 DEF Landed, OutputsLand, at_
<1>5. Whole => ArgumentsLand'
  BY <1>1, <1>3 DEF Landed, ArgumentsLand, at_
<1> QED BY <1>2, <1>4, <1>5 DEF Landed

\* A hook that goes on waiting can still replace the output.
LEMMA WaitingKeepsReplaceable ==
  ASSUME UNCHANGED <<host, hooks>>, NEW b \in Calls, at'[b] = "judging", at[b] = "judging", live'[b] = live[b], Replaceable
  PROVE  assertOutputIsReplaceable(locationAt(b, live[b]))'
<1>1. assertOutputIsReplaceable(locationAt(b, live[b]))
  BY DEF Replaceable
<1>2. locationAt(b, live[b])' = locationAt(b, live[b])
  BY DEF locationAt, entryAt, hookOf, gateAt
<1> QED BY <1>1, <1>2

LEMMA LandsInit == Init => LandsInv
<1> SUFFICES ASSUME Init PROVE LandsInv
  OBVIOUS
<1>1. Replaceable
  BY DEF Init, Replaceable
<1>2. \A c \in Calls : outcome[c].request = undecided /\ outcome[c].result = undecided
  BY DEF Init, Gates
<1>3. ~at_(undecided, {"modify"})
  BY DEF at_, undecided
<1>4. Landed
  BY <1>2, <1>3 DEF Landed, ArgumentsLand, OutputsLand
<1> QED BY <1>1, <1>4, ShownInit DEF LandsInv

LEMMA LandsNext == LandsInv /\ [Next]_vars => LandsInv'
<1> SUFFICES ASSUME LandsInv, [Next]_vars PROVE Replaceable' /\ Landed'
  BY ShownNext DEF LandsInv
<1>0. /\ TypeInv /\ CallTypeOK /\ Shapes /\ Deployed /\ Rebuildable /\ Shown
      /\ Replaceable /\ Landed
  BY DEF LandsInv, ShownInv, IdsInv, TypeInv
<1>a. ASSUME UNCHANGED <<host, hooks>>, NEW c \in Calls, at[c] # "done", NEW asked,
             \A b \in Calls \ {c} : live'[b] = live[b],
             \E decision, stage, effect :
               /\ stage # "undecided" /\ effect.kind \in kinds /\ ended(c, decision, stage, effect, asked)
               /\ lands(gateAt(c), decision, effect, live'[c], asked)
      PROVE  Replaceable' /\ Landed'
  BY <1>0, <1>a, OverKeepsLanded
<1>b. ASSUME NEW c \in Calls, waiting(c)
      PROVE  /\ live'[c] \in payloadsAt(host, gateAt(c), c) /\ shows(entryAt(c), live'[c], envelope[c])
             /\ gateAt(c) = "result" => assertOutputIsReplaceable(locationAt(c, live'[c]))
             /\ at[c] # "done" /\ UNCHANGED <<host, hooks, live>>
  <2>1. at[c] \in {"asking", "judging"} /\ UNCHANGED <<host, hooks, live>>
    BY <1>b DEF waiting
  <2>2. gateAt(c) = "result" => assertOutputIsReplaceable(locationAt(c, live[c]))
    BY <1>0, <2>1 DEF gateAt, Replaceable
  <2>3. PICK payload : payload = live[c] /\ payload = live'[c]
    BY <2>1
  <2>4. payload \in payloadsAt(host, gateAt(c), c) /\ shows(entryAt(c), payload, envelope[c])
    BY <1>0, <2>1, <2>3 DEF Rebuildable, Shown
  <2> QED BY <2>1, <2>2, <2>3, <2>4
<1>1. ASSUME NEW c \in Calls, NEW posture \in postures,
             NEW payload \in (IF at[c] = "new" THEN Starts[host][c] ELSE Ends[host][c]), Fire(c, payload, posture)
      PROVE  Replaceable' /\ Landed'
  <2>1. /\ at[c] \in {"new", "ran"} /\ live'[c] = payload /\ UNCHANGED <<host, hooks>>
        /\ \A b \in Calls \ {c} : live'[b] = live[b]
    BY <1>0, <1>1, FireIsOverOrAsks
  <2>2. CASE \E decision, stage, effect :
               /\ stage # "undecided" /\ effect.kind \in kinds /\ decision \in {Absent, posture}
               /\ ended(c, decision, stage, effect, Absent) /\ UNCHANGED envelope
    <3>1. PICK decision, stage, effect :
            /\ stage # "undecided" /\ effect.kind \in kinds /\ decision \in {Absent, posture}
            /\ ended(c, decision, stage, effect, Absent)
      BY <2>2
    <3>2. lands(gateAt(c), decision, effect, live'[c], Absent)
      <4>1. CASE decision = Absent
        BY <4>1 DEF lands
      <4>2. CASE decision = posture
        BY <4>2, PostureLands
      <4> QED BY <3>1, <4>1, <4>2
    <3> QED BY <1>a, <2>1, <3>1, <3>2
  <2>3. CASE /\ at' = [at EXCEPT ![c] = IF at[c] = "new" THEN "asking" ELSE "judging"] /\ UNCHANGED outcome
             /\ locationAt(c, payload) = Absent \/ assertOutputIsReplaceable(locationAt(c, payload))
    <3>1. at'[c] = (IF at[c] = "new" THEN "asking" ELSE "judging") /\ \A b \in Calls \ {c} : at'[b] = at[b]
      BY <1>0, <2>3 DEF Shapes
    <3>2. ASSUME NEW b \in Calls, at'[b] = "judging" PROVE assertOutputIsReplaceable(locationAt(b, live[b]))'
      <4>1. CASE b # c
        BY <1>0, <2>1, <3>1, <3>2, <4>1, WaitingKeepsReplaceable
      <4>2. CASE b = c
        <5>1. at[c] = "ran" /\ gateAt(c) = "result" /\ gateAt(c)' = "result"
          BY <2>1, <3>1, <3>2, <4>2 DEF gateAt
        <5>2. payload \in payloadsAt(host, "result", c)
          BY <1>1, <5>1 DEF payloadsAt
        <5>3. locationAt(c, payload) # Absent
          BY <1>0, <5>1, <5>2, ResultLocation
        <5>4. locationAt(c, live[c])' = locationAt(c, payload)
          BY <2>1, <5>1 DEF locationAt, entryAt, hookOf
        <5> QED BY <2>3, <4>2, <5>3, <5>4
      <4> QED BY <4>1, <4>2
    <3>3. Replaceable'
      BY <3>2 DEF Replaceable
    <3> QED BY <1>0, <2>1, <2>3, <3>3, NothingLands
  <2> QED BY <1>1, <2>2, <2>3, FireEnds
<1>2. ASSUME NEW c \in Calls, AskAgain(c) PROVE Replaceable' /\ Landed'
  <2>1. UNCHANGED <<host, hooks, live, at, outcome>>
    BY <1>2 DEF AskAgain, waiting
  <2>2. Replaceable'
    <3> SUFFICES ASSUME NEW b \in Calls, at'[b] = "judging" PROVE assertOutputIsReplaceable(locationAt(b, live[b]))'
      BY DEF Replaceable
    <3> QED BY <1>0, <2>1, WaitingKeepsReplaceable
  <2> QED BY <1>0, <2>1, <2>2, NothingLands
<1>3. ASSUME NEW c \in Calls, Repeat(c) PROVE Replaceable' /\ Landed'
  <2>1. /\ at' = [at EXCEPT ![c] = "new"] /\ outcome' = [outcome EXCEPT ![c].request = undecided]
        /\ UNCHANGED <<host, hooks, live>>
    BY <1>3 DEF Repeat
  <2>2. /\ at'[c] = "new" /\ outcome'[c].request = undecided /\ outcome'[c].result = outcome[c].result
        /\ \A b \in Calls \ {c} : at'[b] = at[b] /\ outcome'[b] = outcome[b]
    BY <1>0, <2>1 DEF Shapes, Gates
  <2>3. Replaceable'
    <3> SUFFICES ASSUME NEW b \in Calls, at'[b] = "judging" PROVE assertOutputIsReplaceable(locationAt(b, live[b]))'
      BY DEF Replaceable
    <3>1. b # c /\ at[b] = "judging"
      BY <2>2
    <3> QED BY <1>0, <2>1, <3>1, WaitingKeepsReplaceable
  <2>4. \A b \in Calls, gate \in Gates : outcome'[b][gate] \in {undecided, outcome[b][gate]}
    BY <2>2 DEF Gates
  <2> QED BY <1>0, <2>1, <2>3, <2>4, NothingLands
<1>4. ASSUME NEW c \in Calls, NEW decision \in Decisions[gateAt(c)], NEW late, NEW posture \in postures,
             Answered(c, decision, late, posture)
      PROVE  Replaceable' /\ Landed'
  <2> DEFINE document == modificationDocumentOf(envelope[c].payload, envelope[c].tool)
             location == locationAt(c, live[c])
             resolution == CASE decision.decision = "modify" -> resolveModify(decision, document, location)
                             [] decision.decision \in {"ask", "defer"} /\ late -> deny("expired")
                             [] OTHER -> decision
  <2>1. waiting(c) /\ byDecision(c, resolution, posture, envelope[c])
    BY <1>4, Zenon DEF Answered
  <2>2. PICK asked, doc, loc, resolved : asked = envelope[c] /\ doc = document /\ loc = location /\ resolved = resolution
    OBVIOUS
  <2>3. byDecision(c, resolved, posture, asked)
    BY <2>1, <2>2
  <2>4. /\ live'[c] \in payloadsAt(host, gateAt(c), c) /\ shows(entryAt(c), live'[c], asked)
        /\ gateAt(c) = "result" => assertOutputIsReplaceable(locationAt(c, live'[c]))
        /\ at[c] # "done" /\ UNCHANGED <<host, hooks, live>>
    BY <1>b, <2>1, <2>2
  <2>5. doc = modificationDocumentOf(asked.payload, asked.tool) /\ loc = locationAt(c, live'[c])
    BY <2>2, <2>4
  <2>6. ASSUME resolved.decision = "modify"
        PROVE  decision.decision = "modify" /\ resolved = resolveModify(decision, doc, loc)
    <3>1. CASE decision.decision = "modify"
      BY <2>2, <3>1
    <3>2. CASE decision.decision \in {"ask", "defer"} /\ late
      <4>1. resolved = deny("expired")
        BY <2>2, <3>2
      <4> QED BY <2>6, <4>1, DenyIsDecision
    <3>3. CASE decision.decision # "modify" /\ ~(decision.decision \in {"ask", "defer"} /\ late)
      <4>1. resolved = decision
        BY <2>2, <3>3
      <4> QED BY <2>6, <3>3, <4>1
    <3> QED BY <3>1, <3>2, <3>3
  <2>7. resolved.decision = "modify" =>
          /\ decision.decision = "modify"
          /\ resolved = resolveModify(decision, modificationDocumentOf(asked.payload, asked.tool), locationAt(c, live'[c]))
    BY <2>5, <2>6
  <2> HIDE DEF document, location, resolution
  <2>8. \E d, stage, effect :
          /\ stage # "undecided" /\ effect.kind \in kinds /\ ended(c, d, stage, effect, asked)
          /\ lands(gateAt(c), d, effect, live'[c], asked)
    BY <1>0, <2>3, <2>4, <2>7, ByDecisionLands
  <2> QED BY <1>a, <2>4, <2>8
<1>5. ASSUME NEW c \in Calls, NEW recorded, NEW posture \in postures, Unanswered(c, recorded, posture)
      PROVE  Replaceable' /\ Landed'
  <2>1. PICK stage, asked : stage = "delivery" /\ asked = envelope[c]
    OBVIOUS
  <2>2. waiting(c) /\ byPosture(c, posture, stage, asked) /\ stage # "undecided"
    BY <1>5, <2>1 DEF Unanswered
  <2>3. at[c] # "done" /\ UNCHANGED <<host, hooks, live>>
    BY <1>b, <2>2
  <2>4. PICK effect : effect.kind \in kinds /\ ended(c, posture, stage, effect, asked)
    BY <2>2, ByPostureEnds
  <2>5. lands(gateAt(c), posture, effect, live'[c], asked)
    BY PostureLands
  <2> QED BY <1>a, <2>2, <2>3, <2>4, <2>5
<1>6. CASE UNCHANGED vars
  <2>1. UNCHANGED <<host, hooks, live, at, outcome>>
    BY <1>6 DEF vars
  <2>2. Replaceable'
    <3> SUFFICES ASSUME NEW b \in Calls, at'[b] = "judging" PROVE assertOutputIsReplaceable(locationAt(b, live[b]))'
      BY DEF Replaceable
    <3> QED BY <1>0, <2>1, WaitingKeepsReplaceable
  <2> QED BY <1>0, <2>1, <2>2, NothingLands
<1> QED BY <1>1, <1>2, <1>3, <1>4, <1>5, <1>6 DEF Next, Host, Guardian

(* A modify of an output that is reported honoured was carried out, on both *)
(* hosts: the model gets the leaf rewritten as asked and not as it was, the *)
(* mirrors with it, and every other field of the output unchanged           *)
(* (applyModifications, projectAppliedOutput, replacingOutput).             *)
THEOREM OutputsLandHolds == Spec => []OutputsLand
<1>1. LandsInv => OutputsLand
  BY DEF LandsInv, Landed
<1> QED BY <1>1, LandsInit, LandsNext, PTL DEF Spec

(* On Claude Code a modify of a tool's arguments that is reported honoured  *)
(* was carried out: the tool runs with every target rewritten as asked and  *)
(* every other argument as it was (applyModifications, renderDecision, the  *)
(* replacement Claude Code takes for a tool's input).                       *)
THEOREM ArgumentsLandOnClaudeCode == Spec => [](host = "claude-code" => ArgumentsLand)
<1>1. LandsInv => (host = "claude-code" => ArgumentsLand)
  BY DEF LandsInv, Landed, Whole
<1> QED BY <1>1, LandsInit, LandsNext, PTL DEF Spec

(* On both hosts a modify that is reported honoured was carried out, if no  *)
(* modification gives an object of OpenCode's arguments the place of one    *)
(* with a field it does not have: the plugin merges into the live object    *)
(* and would leave that field behind (mergeInPlace).                        *)
THEOREM ModifyLandsHolds == MergesWhole => (Spec => []ModifyLands)
<1> SUFFICES ASSUME MergesWhole PROVE Spec => []ModifyLands
  OBVIOUS
<1>1. LandsInv => ModifyLands
  BY DEF LandsInv, Landed, Whole, ModifyLands
<1> QED BY <1>1, LandsInit, LandsNext, PTL DEF Spec

==============================================================================
