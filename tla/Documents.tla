----------------------------- MODULE Documents ------------------------------
(***************************************************************************)
(* What a step's JSON documents are to the host adapter, and what it does   *)
(* to them: the modifications a Guardian asks for (modifications.ts), and   *)
(* the output that replaces a tool's own (result-output.ts).                *)
(*                                                                         *)
(* A document is the function from the paths of its leaves to its leaves; a *)
(* path is the sequence of the field names that lead to one, the place in   *)
(* an array being a name too.  A value is a document, and a leaf the        *)
(* document whose only path is empty.  Empty objects and the order of the   *)
(* keys are not told apart.                                                 *)
(***************************************************************************)
EXTENDS Naturals, Sequences, SequencesExt, FiniteSets

CONSTANTS Throws,   \* the outcome of a call that throws
          Absent,   \* a field that is undefined or null
          IllTyped  \* a field that holds something of the wrong type

Leaf(type, text) == [p \in {<<>>} |-> [type |-> type, text |-> text]]
Str(text) == Leaf("string", text)

isPlainObject(v) == <<>> \notin DOMAIN v
typeOf(v) == IF isPlainObject(v) THEN "object" ELSE v[<<>>].type

ReservedSegments == {"__proto__", "constructor", "prototype"}
isReserved(p) == \E i \in DOMAIN p : p[i] \in ReservedSegments

Overlap(p, q) == IsPrefix(p, q) \/ IsPrefix(q, p)
Inside(p, within) == IsStrictPrefix(within, p)
relative(p, within) == SubSeq(p, Len(within) + 1, Len(p))

Present(doc, p) == \E q \in DOMAIN doc : IsPrefix(p, q)
resolve(doc, p) ==
  [s \in {relative(q, p) : q \in {r \in DOMAIN doc : IsPrefix(p, r)}} |-> doc[p \o s]]

\* The value is put at p, and everything else stays as it was.
setAtPath(doc, p, value) ==
  LET kept == {q \in DOMAIN doc : ~Overlap(p, q)}
  IN  [q \in kept \cup {p \o s : s \in DOMAIN value} |->
         IF q \in kept THEN doc[q] ELSE value[relative(q, p)]]

setAll(doc, edits) == FoldLeft(LAMBDA d, e : setAtPath(d, e.path, e.value), doc, edits)

-----------------------------------------------------------------------------
(* Modifications: modified_content, a sequence of redactions, and overrides *)
(* by the name of an argument.                                              *)

Redacted == Str("[REDACTED]")

redactionTargets(mods) == [i \in DOMAIN mods.redactions |-> mods.redactions[i].path]

wellFormed(mods) ==
  /\ mods # IllTyped /\ mods.redactions # IllTyped /\ mods.parameter_overrides # IllTyped
  /\ mods.modified_content = Absent
  /\ mods.redactions # <<>> \/ DOMAIN mods.parameter_overrides # {}
  /\ \A i \in DOMAIN mods.redactions :
       /\ mods.redactions[i] # IllTyped /\ mods.redactions[i].path # IllTyped
       /\ mods.redactions[i].path # <<>> /\ ~isReserved(mods.redactions[i].path)
  /\ DOMAIN mods.parameter_overrides \cap ReservedSegments = {}

\* Mutant: two redactions may name the same place.
disjointOverrides(mods) ==
  \A p \in Range(redactionTargets(mods)) : \A key \in DOMAIN mods.parameter_overrides : ~Overlap(p, <<key>>)

disjoint(mods) ==
  LET targets == redactionTargets(mods)
  IN  /\ \A i \in DOMAIN targets : \A key \in DOMAIN mods.parameter_overrides : ~Overlap(targets[i], <<key>>)
      /\ \A i, j \in DOMAIN targets : i # j => ~Overlap(targets[i], targets[j])

assertValidModifications(mods, doc) ==
  /\ wellFormed(mods)
  /\ disjoint(mods)
  /\ \A p \in Range(redactionTargets(mods)) : Present(doc, p)
  /\ \A key \in DOMAIN mods.parameter_overrides : Present(doc, <<key>>)

editsOf(mods) ==
  LET keys == SetToSeq(DOMAIN mods.parameter_overrides)
      replacement(r) == IF r.replacement = Absent THEN Redacted ELSE r.replacement
  IN  [i \in DOMAIN keys |-> [path |-> <<keys[i]>>, value |-> mods.parameter_overrides[keys[i]]]]
      \o [i \in DOMAIN mods.redactions |->
            [path |-> mods.redactions[i].path, value |-> replacement(mods.redactions[i])]]

\* A target left as it was is a rewrite nothing carried out.
applyModifications(doc, mods) ==
  IF ~assertValidModifications(mods, doc) THEN Throws
  ELSE LET result == setAll(doc, editsOf(mods))
       IN  IF \E e \in Range(editsOf(mods)) : resolve(result, e.path) = resolve(doc, e.path)
           THEN Throws ELSE result

-----------------------------------------------------------------------------
(* The result gate.  A location is the host's payload and the paths the     *)
(* hookmap declares: the leaf that is asked about, the object a replacement *)
(* is patched into a clone of, and the leaf's mirrors in it.                *)

Withheld == Str("[OUTPUT WITHHELD BY POLICY]")

withholdsAtResultGate(decision) == decision \notin {"allow", "modify"}

replaceable(location, value) ==
  LET outputs == location.outputs
      container == resolve(location.payload, outputs.within)
      fields == <<outputs.from>> \o outputs.mirrors
      at(i) == relative(fields[i], outputs.within)
  IN  /\ ~isReserved(outputs.within) /\ isPlainObject(container)
      /\ \A i \in DOMAIN fields :
           /\ ~isReserved(fields[i]) /\ Inside(fields[i], outputs.within)
           /\ Present(container, at(i)) /\ typeOf(resolve(container, at(i))) = typeOf(value)
           /\ \A j \in DOMAIN fields : i # j => ~Overlap(at(i), at(j))

patched(location, value) ==
  LET outputs == location.outputs
      fields == <<outputs.from>> \o outputs.mirrors
  IN  setAll(resolve(location.payload, outputs.within),
             [i \in DOMAIN fields |-> [path |-> relative(fields[i], outputs.within), value |-> value]])

\* Where the leaf and its mirrors are in the object that is patched.
replacedIn(outputs) == {relative(p, outputs.within) : p \in {outputs.from} \cup Range(outputs.mirrors)}

\* Another field holds the value being replaced.
holdsValue(location, clone) ==
  LET original == resolve(location.payload, location.outputs.from)
      replaced == replacedIn(location.outputs)
  IN  /\ ~isPlainObject(original)
      /\ \E q \in DOMAIN clone : (\A p \in replaced : ~IsPrefix(p, q)) /\ clone[q] = original[<<>>]

\* Mutant: only the leaf is patched.
replacingOutputLeaf(location, value) ==
  IF ~replaceable(location, value) THEN Throws
  ELSE setAtPath(resolve(location.payload, location.outputs.within),
                 relative(location.outputs.from, location.outputs.within), value)

replacingOutput(location, value) ==
  IF ~replaceable(location, value) THEN Throws
  ELSE LET clone == patched(location, value)
       IN  IF location.outputs.mirrors # <<>> /\ holdsValue(location, clone) THEN Throws ELSE clone

assertOutputIsReplaceable(location) == replacingOutput(location, Withheld) # Throws

OutputLeaf == <<"outputs", "0", "value">>

withoutProjectedLeaf(doc) == [q \in {r \in DOMAIN doc : ~IsPrefix(OutputLeaf, r)} |-> doc[q]]

\* The one leaf that reaches the host has changed, and nothing else has.
projectAppliedOutput(applied, document, location) ==
  IF /\ Present(applied, OutputLeaf)
     /\ resolve(applied, OutputLeaf) # resolve(location.payload, location.outputs.from)
     /\ withoutProjectedLeaf(applied) = withoutProjectedLeaf(document)
  THEN replacingOutput(location, resolve(applied, OutputLeaf))
  ELSE Throws

-----------------------------------------------------------------------------
(* A decision carries what a hookmap may render from it.                    *)

decisionOf(name) == [decision |-> name, reasoning |-> Absent, modifications |-> Absent,
                     applied_input |-> Absent, applied_output |-> Absent]
deny(kind) == [decisionOf("deny") EXCEPT !.reasoning = Str(kind)]

resolveModify(decision, document, location) ==
  LET applied == applyModifications(document, decision.modifications)
      output == IF applied = Throws \/ location = Absent THEN Throws
                ELSE projectAppliedOutput(applied, document, location)
  IN  IF applied = Throws \/ (location # Absent /\ output = Throws) THEN deny("modifications_invalid")
      ELSE IF location = Absent THEN [decision EXCEPT !.applied_input = applied]
      ELSE [decision EXCEPT !.applied_output = output]

withResultOutput(decision, location) ==
  LET output == replacingOutput(location, Withheld)
  IN  IF location = Absent THEN decision
      ELSE IF ~withholdsAtResultGate(decision.decision)
           THEN IF decision.decision = "modify" /\ decision.applied_output = Absent THEN Throws ELSE decision
      ELSE IF output = Throws THEN Throws
      ELSE [decision EXCEPT !.applied_output = output]
=============================================================================
