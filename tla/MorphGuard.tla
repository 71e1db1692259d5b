----------------------------- MODULE MorphGuard -----------------------------
(***************************************************************************)
(* guardPatch (packages/morph-engine/src/guard.ts): which operations of a  *)
(* patch may be applied now, given the confidence behind it, the time      *)
(* since the last morphs, what the person is typing in and what they have  *)
(* not saved; and what runIngest (packages/runtime-core/src/index.ts)      *)
(* tells its host when the patch was only too early.                       *)
(*                                                                         *)
(* A component that holds unsaved work (volatile) is one whose content is  *)
(* the constant Unsaved.  Confidence is one of three bands, cut by the two *)
(* thresholds of the policy.  A time since something is Never, or a number *)
(* of ticks.                                                               *)
(***************************************************************************)
EXTENDS MorphTree

CONSTANTS
  Unsaved,       \* the content of a component with unsaved work
  Never, Nobody, \* no such morph yet; no component is being typed in
  Cooldown,      \* cooldownMs
  MajorDwell,    \* majorDwellMs
  MajorShare     \* majorChangeRatio is one in MajorShare

GuardAssumption ==
  /\ Cooldown \in Nat /\ MajorDwell \in Nat
  /\ MajorShare \in Nat \ {0}

Confidences == {"below_min", "below_structural", "enough"}
Severities == {"critical", "other"}
Holds == {"confidence_below_min", "cooldown_active"}
Drops == {"structural_confidence_below_min", "major_dwell_active",
          "protects_unsaved_state", "protects_focus"}

\* subtreeHasVolatile
HoldsUnsaved(t, n) == \E m \in Below(t, n) : t.look[m].content = Unsaved

\* pathIds: the ancestors of an id and itself, empty when it is nowhere.
PathIds(t, id) == {m \in Ids(t) : id \in Ids(t) /\ id \in Below(t, m)}

\* At least one in MajorShare of the ids on the body is restructured.
IsMajor(t, patch) ==
  Len(SelectSeq(patch, LAMBDA op : op.op \in StructuralOps)) * MajorShare >= Cardinality(Ids(t))

Early(since, wait) == since # Never /\ since < wait

\* How a morph is asked for: confidence, severity, the component being typed in,
\* the times since the last morph and the last major one, and the policy's waits.
Asked(confidence, severity, typing, morph, major, cooldown, dwell) ==
  [confidence |-> confidence, critical |-> severity = "critical", typing |-> typing,
   sinceMorph |-> morph, sinceMajor |-> major, cooldown |-> cooldown, dwell |-> dwell]

\* The reasons to reject the whole patch, the confidence first.
HeldFor(how) ==
  IF how.confidence = "below_min" /\ ~how.critical THEN "confidence_below_min"
  ELSE IF ~how.critical /\ Early(how.sinceMorph, how.cooldown) THEN "cooldown_active"
  ELSE "free"

Takes == {"remove", "replace", "move"}
\* Mutant: only the component itself is looked at, not what is inside it.
DestroysOnlyItself(t, op) ==
  /\ op.op \in Takes \cup {"rewrite"} /\ op.target \in Ids(t)
  /\ t.look[op.target].content = Unsaved
\* Taking away or rewriting a component with unsaved work anywhere inside it.
Destroys(t, op) ==
  op.op \in Takes \cup {"rewrite"} /\ op.target \in Ids(t) /\ HoldsUnsaved(t, op.target)

\* Taking away what holds the component being typed in, or rewriting it.
Disturbs(t, op, typing) ==
  \/ op.op \in Takes /\ op.target \in PathIds(t, typing)
  \/ op.op = "rewrite" /\ op.target = typing /\ typing \in Ids(t)

\* What is said of one operation, in the order the guard asks.
Said(t, patch, op, how) ==
  LET structural == op.op \in StructuralOps IN
  CASE structural /\ how.confidence # "enough" /\ ~how.critical -> "structural_confidence_below_min"
    [] OTHER ->
  CASE structural /\ ~how.critical /\ IsMajor(t, patch) /\ Early(how.sinceMajor, how.dwell) -> "major_dwell_active"
    [] OTHER ->
  CASE Destroys(t, op) -> "protects_unsaved_state"
    [] OTHER ->
  CASE how.typing # Nobody /\ Disturbs(t, op, how.typing) -> "protects_focus"
    [] OTHER -> "kept"

\* What survives, and the reasons given for the rest.
Sorted(patch, said) ==
  [patch |-> SelectSeq(patch, LAMBDA op : said[op] = "kept"),
   reasons |-> {said[op] : op \in ToSet(patch)} \ {"kept"}]
\* guardPatch
GuardPatch(t, patch, how) ==
  IF HeldFor(how) # "free"
  THEN [patch |-> <<>>, reasons |-> {HeldFor(how)}]
  ELSE Sorted(patch, [op \in ToSet(patch) |-> Said(t, patch, op, how)])

\* retryAfterMs: when a host told of a hold on timing should ask again, Never when
\* the hold is not on timing or something of the patch was let through.
RetryAfter(guard, how) ==
  IF guard.patch # <<>> THEN Never
  ELSE IF "cooldown_active" \in guard.reasons THEN how.cooldown - how.sinceMorph
  ELSE IF "major_dwell_active" \in guard.reasons THEN how.dwell - how.sinceMajor
  ELSE Never
=============================================================================
