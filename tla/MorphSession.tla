---------------------------- MODULE MorphSession ----------------------------
(***************************************************************************)
(* One session's body and everything that changes it: the morphs a         *)
(* decision asks for, the guard that holds them, undo, dismissal and redo  *)
(* with the lessons they teach and hand back, and a resume from snapshots  *)
(* (packages/runtime-core/src/index.ts, morph-engine/src/guard.ts and      *)
(* history.ts, ui-registry/src/morphology.ts).                             *)
(*                                                                         *)
(* From plan to apply the loop does not await, so a morph is one step; so  *)
(* are undo and redo, which the routes run outside the session's lane.     *)
(* The world, the brain and the clock are abstracted to what the guard     *)
(* reads of them: an intent with its variant, a band of confidence,        *)
(* whether the event was critical, what the person is typing in, whether   *)
(* the cooldown is over.  The dwell of major changes is left out: a patch  *)
(* is major when it restructures half of the body's ids, and planMorph's   *)
(* patches restructure one id of a body of ten or more.                    *)
(***************************************************************************)
EXTENDS MorphTree

CONSTANTS
  AugmentKinds,    \* "returning", "stuck", "switching"
  IncidentKinds,
  None,            \* an absent variant, refund, lesson or component
  HistoryLimit,    \* MorphHistory.limit
  RedoLimit,       \* the ceiling of redoStack
  DismissThreshold,
  HasStore,        \* whether the host was given a snapshot store
  MaxWeight        \* bound: how often one kind is dismissed

LimitsAssumption ==
  /\ HistoryLimit \in Nat \ {0}
  /\ RedoLimit \in Nat \ {0}
  /\ DismissThreshold \in Nat \ {0}
  /\ HasStore \in BOOLEAN
  /\ MaxWeight \in Nat
  /\ MaxNodes \in Nat /\ MaxNodes >= 5   \* the body a session starts with is within the limits

VARIABLES
  s,      \* the SessionState: body, stacks, lessons, cooldown
  saved   \* the latest snapshots of the body and of the preferences

vars == <<s, saved>>

Cards == {"context", "incident"}
Asks == ({"augment"} \X AugmentKinds) \cup ({"surface_incident"} \X IncidentKinds)
          \cup {<<"restore_normal", None>>}
\* dismissed:<intent>:<variant>; a dismissal is itself a step with an intent.
Lessons == Asks \cup ({"dismiss"} \X Cards)

\* The absent value is none of the others.
NoneAssumption == None \notin Lessons \cup Cards

-----------------------------------------------------------------------------
(* Bodies and plans *)

\* developmentBlueprint, down to the ids the patches name and their siblings.
DevBody ==
  LET ids == {"workspace", "topbar", "main", "files", "devstatus"}
  IN  [root |-> "workspace",
       kids |-> [n \in ids |->
         CASE n = "workspace" -> <<"topbar", "main", "devstatus">>
           [] n = "main" -> <<"files">>
           [] OTHER -> <<>>],
       look |-> [n \in ids |-> [content |-> None, signals |-> {}]]]

\* planMorph: the patch an ask comes to on this body, empty when there is
\* nothing to do.
PlanMorph(body, intent, variant) ==
  CASE intent = "surface_incident" ->
         IF "incident" \in Ids(body) THEN <<>>
         ELSE <<SignalOp("collapse", "files"),
                AddOp("workspace", 3, Leaf("incident", variant)),
                SignalOp("highlight", "incident")>>
    [] intent = "restore_normal" ->
         IF "incident" \notin Ids(body) THEN <<>>
         ELSE <<RemoveOp("incident"), SignalOp("expand", "files")>>
    [] intent = "augment" ->
         IF "context" \notin Ids(body)
         THEN <<AddOp("workspace", 2, Leaf("context", variant)),
                SignalOp("highlight", "context")>>
         ELSE IF body.look["context"].content = variant THEN <<>>
         ELSE <<ReplaceOp("context", Leaf("context", variant))>>

Bands == {"below_min", "below_structural", "enough"}

\* guardPatch: the operations that survive.  A hold of the whole patch leaves
\* none; an operation of its own is dropped for a confidence too low for
\* structure, or because it would take away what the person is typing in.
Guarded(patch, how, cooling) ==
  LET held == \/ how.band = "below_min" /\ ~how.critical
              \/ cooling /\ ~how.critical
      Survives(op) ==
        /\ op.op \in StructuralOps => how.band = "enough" \/ how.critical
        /\ op.op \in {"remove", "replace"} => op.target # how.typing
      kept[n \in 0..Len(patch)] ==
        IF n = 0 THEN <<>>
        ELSE IF Survives(patch[n]) THEN Append(kept[n - 1], patch[n]) ELSE kept[n - 1]
  IN  IF held THEN <<>> ELSE kept[Len(patch)]

\* The ids a patch brings in.
Introduced(patch) ==
  {patch[i].component.root : i \in {j \in 1..Len(patch) : patch[j].op \in {"add", "replace"}}}

-----------------------------------------------------------------------------
(* The stacks *)

\* MorphHistory.push, and a redo stack that forgets its oldest entry.
Push(stack, x, limit) ==
  IF Len(stack) = limit THEN Append(Tail(stack), x) ELSE Append(stack, x)

\* morphMeta follows the bounded history: its oldest entries go with it.
Newest(stack, n) == SubSeq(stack, Len(stack) - n + 1, Len(stack))

\* PreferenceMemory.reinforce: the weight of one lesson, never below zero.
ReinforcedAnew(weights, lesson, by) ==
  IF lesson = None THEN weights
  ELSE [weights EXCEPT ![lesson] = IF by < 0 THEN 0 ELSE by]
Reinforced(weights, lesson, by) ==
  IF lesson = None THEN weights
  ELSE [weights EXCEPT ![lesson] = IF @ + by < 0 THEN 0 ELSE @ + by]

\* The key a step teaches under.
LessonByCard(meta) == <<meta.intent, meta.components>>
LessonOf(meta) == <<meta.intent, meta.variant>>

\* What an undo of this step teaches, and what it hands back.
Unlearnt(meta, card, learn) ==
  IF learn /\ meta.intent # "dismiss" /\ (card # None => card \in meta.components)
  THEN LessonOf(meta) ELSE None
Relearnt(meta) == IF meta.intent = "dismiss" THEN meta.refund ELSE None

\* Nothing older may be redone over a new step.
RedoKept(t) == t
RedoCleared(t) == [t EXCEPT !.redo = <<>>, !.ahead = <<>>]

\* A step forward that can be taken back: what undoes it, and what it was.
\* The bodies of past are history only the properties read.
MetaBeside(history, metas) ==
  IF Len(metas) > Len(history) THEN Newest(metas, Len(history)) ELSE metas
Recorded(t, done, meta) ==
  [t EXCEPT !.body = done.tree,
            !.history = Push(@, done.inverse, HistoryLimit),
            !.meta = MetaBeside(Push(t.history, done.inverse, HistoryLimit), Append(@, meta)),
            !.past = Push(@, t.body, HistoryLimit)]

\* undo of a card that is not the newest morph: take just that card away, as a
\* step of its own, and count it against the newest morph that introduced it.
Owners(t, card) == {i \in 1..Len(t.meta) : card \in t.meta[i].components}
Removed(t, card, taught, done) ==
  IF ~done.ok THEN t
  ELSE LET meta == [intent |-> "dismiss", variant |-> card, components |-> {card},
                    refund |-> taught]
       IN  [RedoCleared(Recorded(t, done, meta)) EXCEPT
              !.weights = Reinforced(@, taught, 1),
              !.cooling = FALSE]
Dismissed(t, card, learn) ==
  IF Owners(t, card) = {} THEN t
  ELSE Removed(t, card, IF learn THEN LessonOf(t.meta[Max(Owners(t, card))]) ELSE None,
               ApplyPatch(t.body, <<RemoveOp(card)>>))

\* undo of the newest step: a morph taken back teaches, a dismissal taken back
\* hands its lesson back.
Returned(t, unlearn, relearn, done) ==
  IF ~done.ok THEN t
  ELSE LET entry == [patch |-> done.inverse, meta |-> Last(t.meta),
                     unlearn |-> unlearn, relearn |-> relearn]
       IN  [t EXCEPT !.body = done.tree, !.history = Front(@), !.meta = Front(@),
                     !.past = Front(@),
                     !.weights = Reinforced(Reinforced(@, unlearn, 1), relearn, -1),
                     !.redo = Push(@, entry, RedoLimit),
                     !.ahead = Push(@, t.body, RedoLimit),
                     !.cooling = FALSE]
TakenBack(t, card, learn) ==
  Returned(t, Unlearnt(Last(t.meta), card, learn), Relearnt(Last(t.meta)),
           ApplyPatch(t.body, Last(t.history)))

AfterUndo(t, card, learn) ==
  IF t.history = <<>> THEN t
  ELSE IF card # None /\ card \notin Last(t.meta).components
       THEN Dismissed(t, card, learn)
       ELSE TakenBack(t, card, learn)

\* redo: drain what no longer fits, then apply the newest entry that does.
Fits(t, entry) == ApplyPatch(t.body, entry.patch).ok
\* A redone dismissal teaches again.
Retaken(t, top, entry) ==
  [Recorded(t, ApplyPatch(t.body, entry.patch), entry.meta) EXCEPT
     !.redo = SubSeq(@, 1, top - 1), !.ahead = SubSeq(@, 1, top - 1),
     !.weights = Reinforced(Reinforced(@, entry.unlearn, -1), entry.relearn, 1),
     !.cooling = FALSE]
NewestOf(t, fitting) ==
  IF fitting = {} THEN [t EXCEPT !.redo = <<>>, !.ahead = <<>>]
  ELSE Retaken(t, Max(fitting), t.redo[Max(fitting)])
AfterRedo(t) == NewestOf(t, {i \in 1..Len(t.redo) : Fits(t, t.redo[i])})

-----------------------------------------------------------------------------
(* Steps *)

Fresh == [body |-> DevBody, history |-> <<>>, meta |-> <<>>, redo |-> <<>>,
          weights |-> [l \in Lessons |-> 0], cooling |-> FALSE,
          past |-> <<>>, ahead |-> <<>>]

Init == s = Fresh /\ saved = [body |-> None, weights |-> Fresh.weights]

\* runIngest from the decision on: learned suppression, plan, guard, apply.
\* A patch that survives only in part may be impossible; then nothing changes.
Morph(intent, variant, how) ==
  LET learned == intent = "augment" /\ s.weights[<<intent, variant>>] >= DismissThreshold
      desired == IF learned THEN <<>> ELSE PlanMorph(s.body, intent, variant)
  IN
  \E patch \in {Guarded(desired, how, s.cooling /\ intent # "restore_normal")} :
  \E done \in {ApplyPatch(s.body, patch)} :
    LET meta == [intent |-> intent, variant |-> variant,
                 components |-> Introduced(patch), refund |-> None]
    IN  /\ patch # <<>> /\ done.ok
        /\ s' = [RedoCleared(Recorded(s, done, meta)) EXCEPT !.cooling = TRUE]
        /\ UNCHANGED saved

Undo(card, learn) ==
  /\ s' = AfterUndo(s, card, learn)
  /\ \A l \in Lessons : s'.weights[l] <= MaxWeight
  /\ UNCHANGED saved

Redo == s' = AfterRedo(s) /\ UNCHANGED saved

\* The cooldown runs out.
Settle == s.cooling /\ s' = [s EXCEPT !.cooling = FALSE] /\ UNCHANGED saved

\* Snapshots of the body and of the preferences are saved one after the other,
\* best-effort, so either may be the older.
Save ==
  /\ HasStore /\ s # Fresh
  /\ \/ saved' = [saved EXCEPT !.body = s.body]
     \/ saved' = [saved EXCEPT !.weights = s.weights]
  /\ UNCHANGED s

\* The session is evicted or the process restarts: the next event finds it new.
Restart == s' = Fresh /\ UNCHANGED saved

\* importMemory: the larger weight wins.
ImportedAsSaved == saved.weights
Imported ==
  [l \in Lessons |->
     IF saved.weights[l] > s.weights[l] THEN saved.weights[l] ELSE s.weights[l]]

\* hydrate: the saved body replaces the one shown, and the stacks and timing
\* that described the old one go.
HydratedOver(body, weights) == [s EXCEPT !.body = body, !.weights = weights]
Hydrated(body, weights) == [Fresh EXCEPT !.body = body, !.weights = weights]

Resume ==
  /\ HasStore
  /\ s' = IF saved.body = None THEN [s EXCEPT !.weights = Imported]
          ELSE Hydrated(saved.body, Imported)
  /\ UNCHANGED saved

Hows == [band : Bands, critical : BOOLEAN, typing : Cards \cup {None}]

Next ==
  \/ \E ask \in Asks, how \in Hows : Morph(ask[1], ask[2], how)
  \/ \E card \in Cards \cup {None}, learn \in BOOLEAN : Undo(card, learn)
  \/ Redo \/ Settle \/ Save \/ Restart \/ Resume

Spec == Init /\ [][Next]_vars

-----------------------------------------------------------------------------
(* Properties *)

TypeOK ==
  /\ s.weights \in [Lessons -> Nat]
  /\ s.cooling \in BOOLEAN
  /\ \A i \in 1..Len(s.meta) : s.meta[i].refund \in Lessons \cup {None}
  /\ \A i \in 1..Len(s.redo) :
       {s.redo[i].unlearn, s.redo[i].relearn} \subseteq Lessons \cup {None}
  /\ saved.weights \in [Lessons -> Nat]

\* Each inverse on the history has the morph it undoes beside it, and both
\* stacks stay within their ceilings, whatever is pushed, trimmed and redone
\* (index.ts: "stays paired with the bounded MorphHistory"; the code's own
\* fallback is "no meta = pairing invariant broken").
Paired ==
  /\ Len(s.meta) = Len(s.history)
  /\ Len(s.history) <= HistoryLimit
  /\ Len(s.redo) <= RedoLimit

\* A button that is lit does what it says: every entry still on the history,
\* taken back in turn, restores exactly the body it was pushed over.  The audit
\* entry morph_undo_refused is for a step that never comes (runtime.ts:320-327).
Bodies(t) == Append(t.past, t.body)
BringsBack(done, body) == done.ok /\ done.tree = body
EveryUndoFits ==
  \A i \in 1..Len(s.history) :
    BringsBack(ApplyPatch(Bodies(s)[i + 1], s.history[i]), Bodies(s)[i])

\* And every entry waiting to be redone brings back the body that was taken
\* away: nothing changes the tree underneath the redo stack without clearing
\* it, so redo's drain of stale entries finds none (index.ts:304-313).
EveryRedoFits ==
  LET ahead == Append(s.ahead, s.body)
  IN  \A i \in 1..Len(s.redo) :
        BringsBack(ApplyPatch(ahead[i + 1], s.redo[i].patch), ahead[i])

\* Both stacks hold nothing that does not fit (runtime-core, undo and redo).
StacksFit == Paired /\ EveryUndoFits /\ EveryRedoFits

\* What may still be handed back was taught and is still there: the weight of a
\* lesson covers every dismissal that can be taken back and every undo that can
\* be redone, so handing back never meets the floor at zero and no undo or redo
\* leaves a lesson nobody taught.
Dues(l) ==
  Cardinality({i \in 1..Len(s.meta) : s.meta[i].refund = l})
    + Cardinality({i \in 1..Len(s.redo) : s.redo[i].unlearn = l})
WeightsCoverDues == \A l \in Lessons : s.weights[l] >= Dues(l)

\* The person teaches about what the runtime offered: taking a dismissal back
\* is never counted as a dismissal of its own (index.ts:677-682).
OnlyOffersAreTaught == \A l \in {"dismiss"} \X Cards : s.weights[l] = 0

\* Undo and then redo is no change, whichever step is on top and whether or not
\* it teaches: body, stack and lessons are what they were (index.ts: "symmetry:
\* no weight from mind-changing loops").
SameAsBefore(back) ==
  /\ back.body = s.body /\ back.meta = s.meta /\ back.weights = s.weights
  /\ Len(back.history) = Len(s.history)
MindChangingIsFree ==
  s.history # <<>> =>
    \A learn \in BOOLEAN : SameAsBefore(AfterRedo(AfterUndo(s, None, learn)))

\* The lessons balance (runtime-core, undo and redo): nothing is handed back that was not taught,
\* nothing is taught that was not offered, and changing one's mind twice is free.
LessonsBalance == WeightsCoverDues /\ OnlyOffersAreTaught /\ MindChangingIsFree

\* A click on a card that is gone changes something only in one case: the
\* newest step is the dismissal of that very card.
StaleClickOnlyUndoesDismissal ==
  \A card \in Cards \ Ids(s.body) :
    AfterUndo(s, card, TRUE) # s =>
      Last(s.meta).intent = "dismiss" /\ Last(s.meta).variant = card

\* The same as index.ts:655 words it: "stale click - the card is already gone;
\* nothing to do, nothing to learn".
StaleClickIsHarmless ==
  \A card \in Cards \ Ids(s.body) : AfterUndo(s, card, TRUE) = s
=============================================================================
