------------------------------- MODULE MCBody -------------------------------
(***************************************************************************)
(* What a session believes and shows: the sensors that say what they       *)
(* observe (Sensing), the belief folded from every sequence of a few       *)
(* events (WorldModel), and the body - patches on small trees (MorphTree), *)
(* the guard in front of them (MorphGuard), the patch between two bodies   *)
(* (MorphDiff), the planned morphs of the development body (Blueprints)    *)
(* and a session's history of them with its lessons (MorphSession).  The   *)
(* modules that hold operators only are given their steps here.  One       *)
(* component moves in each behaviour, see MCIntake.                        *)
(***************************************************************************)
EXTENDS Sensing, Blueprints

CONSTANTS Hosts, Things

VARIABLES
  part,  \* the component that moves in this behaviour
  \* the belief; the hosts whose last request failed and each sensor's last word are history
  world, presence, folded, down, declared,
  \* a small tree
  small,
  \* a guarded body, the time since its last morphs, and what was typed in at the last
  guarded, sinceMorph, sinceMajor, past,
  \* the development body, the inverses of its morphs, and how the last one ended
  shown, back, last,
  \* two bodies and what the patch between them made
  current, desired, landed

mindVars == <<world, presence, folded, down, declared>>
treeVars == <<small>>
guardVars == <<guarded, sinceMorph, sinceMajor, past>>
planVars == <<shown, back, last>>
diffVars == <<current, desired, landed>>

Mind == INSTANCE WorldModel WITH
  None <- Nobody, RecentLimit <- 4, HostLimit <- 2, KeyLimit <- 4, FileLimit <- 2,
  MaxSensors <- 2, NoveltyWindow <- 4, Returning <- 2, Idling <- 2, SwitchingKeys <- 4,
  Exploring <- 3
Small == INSTANCE MorphTree WITH MaxNodes <- 4
Guarded == INSTANCE MorphGuard WITH MaxNodes <- 6

Between == INSTANCE MorphDiff WITH
  Roots <- {"r", "s"}, Others <- {"a", "b", "c"}, Types <- {"X"}, Values <- {1}, MaxNodes <- 10

-----------------------------------------------------------------------------
(* The belief of one session, beside what is really the case *)

\* Requests to a few hosts, what a developer's tools report, and what sensors declare.
Facts ==
  {[Mind!Event("network.request", "external", 1) EXCEPT !.name = h, !.amount = a] : h \in Hosts, a \in {0, 2, 4, 5}}
  \cup {Mind!Event(type, "development",
          IF type \in DOMAIN Mind!Openers /\ Mind!Openers[type].critical THEN Mind!Critical ELSE Mind!Warning) :
          type \in DOMAIN Mind!Openers \cup DOMAIN Mind!Closers}
  \cup {Mind!Event("system.resource_warning", "system", Mind!Warning), Mind!Event("runtime.reconcile", "system", 0)}
  \cup {[Mind!Event("sensor.layers_changed", "sensor", 1) EXCEPT !.name = sensor, !.layers = l] :
          sensor \in {"web", "agent", "extension"}, l \in {<<>>, <<"tabs">>, <<"network">>}}

\* What a person does, where they stay, and what they turn to.
Doings ==
  {[Mind!Event(type, "user", 1) EXCEPT !.name = n] : type \in {"user.action", "user.opened_file"}, n \in Things \cup {Nobody}}
  \cup {Mind!Event("user.interaction", "user", 1), Mind!Event("user.visibility", "user", 1)}
  \cup {[Mind!Event("user.visibility", "user", 1) EXCEPT !.flag = TRUE, !.amount = a] : a \in {1, 2}}
  \cup {[Mind!Event("user.idle", "user", 1) EXCEPT !.amount = a] : a \in {1, 2}}
  \cup {[Mind!Event("user.changed_goal", "user", 1) EXCEPT !.name = "goal"],
        [Mind!Event("user.focus_changed", "user", 1) EXCEPT !.name = "editor", !.flag = TRUE]}

MindInit ==
  /\ world = Mind!EmptyWorld /\ presence = "observing" /\ folded = 0
  /\ down = {} /\ declared = [sensor \in {"web", "agent", "extension"} |-> <<>>]

Folding(e) ==
  /\ world' = Mind!Folded(world, e)
  /\ presence' = Mind!NextPresence(presence, Mind!Deliberates(world, e, world'))
  /\ down' = IF e.type # "network.request" THEN down
             ELSE IF Mind!Failed(e) THEN down \cup {e.name}
             ELSE IF Mind!Succeeded(e) THEN down \ {e.name} ELSE down
  /\ declared' = IF e.type = "sensor.layers_changed" THEN [declared EXCEPT ![e.name] = e.layers] ELSE declared
FoldNext(events, bound) ==
  /\ folded < bound /\ folded' = folded + 1
  /\ \E e \in events : Folding(e)

-----------------------------------------------------------------------------
(* Every small tree, by one patch after another *)

\* b with c inside it: what a card with its content is.
Card == [root |-> "b",
         kids |-> [x \in {"b", "c"} |-> IF x = "b" THEN <<"c">> ELSE <<>>],
         look |-> [x \in {"b", "c"} |-> [content |-> "new", signals |-> {}]]]
OpsOn(t) ==
  {AddOp(p, i, c) : p \in Ids(t), i \in 1 .. 2, c \in {Leaf("a", "new"), Card}}
  \cup {RemoveOp(n) : n \in {"a", "b", "c"}}
  \cup {ReplaceOp(n, c) : n \in Ids(t), c \in {Leaf("a", "new"), Card}}
  \cup {MoveOp(n, p, i) : n \in {"a", "b"}, p \in Ids(t), i \in 1 .. 2}
  \cup {RewriteOp("a", "new"), SignalOp("collapse", "b"), SignalOp("expand", "b")}

Patched == \E op \in OpsOn(small) :
  LET done == Small!ApplyPatch(small, <<op>>) IN done.ok /\ small' = done.tree

-----------------------------------------------------------------------------
(* A body with unsaved work under the guard: every patch of one or two     *)
(* operations, asked for in every way, one morph after another.            *)

\* A panel with unsaved work in it, beside a pane with a field.
Desk ==
  LET ids == {"root", "panel", "draft", "pane", "field"} IN
  [root |-> "root",
   kids |-> [n \in ids |-> CASE n = "root" -> <<"panel", "pane">>
                             [] n = "panel" -> <<"draft">>
                             [] n = "pane" -> <<"field">> [] OTHER -> <<>>],
   look |-> [n \in ids |-> [content |-> IF n = "draft" THEN Unsaved ELSE "seed", signals |-> {}]]]
DeskOps ==
  {AddOp("root", 1, Leaf("card", Unsaved)), RewriteOp("field", "new"),
   RemoveOp("panel"), RemoveOp("pane"), ReplaceOp("root", Leaf("card", "new")),
   MoveOp("panel", "pane", 1), MoveOp("pane", "panel", 1), MoveOp("draft", "root", 1)}
DeskPatches == {<<op>> : op \in DeskOps} \cup {<<o, p>> : o, p \in DeskOps}

\* A de-escalation's policy has no waits.
Hows ==
  {Asked(c, sev, y, sinceMorph, sinceMajor, Cooldown, MajorDwell) :
     c \in Confidences, sev \in Severities, y \in {Nobody, "draft", "field"}}
Downs == {Asked("enough", "other", y, sinceMorph, sinceMajor, 0, 0) : y \in {Nobody, "field"}}

GuardInit == guarded = Desk /\ sinceMorph = Never /\ sinceMajor = Never /\ past = Nobody

\* Times since a morph are told apart up to this bound.
MaxSince == 2
Later(since) == IF since = Never THEN Never ELSE IF since < MaxSince THEN since + 1 ELSE since
Tick ==
  /\ sinceMorph' = Later(sinceMorph) /\ sinceMajor' = Later(sinceMajor)
  /\ past' = Nobody
  /\ UNCHANGED guarded

\* Any applied patch starts the cooldown, and all but a de-escalation start the dwell.
Morph(how, deescalates) ==
  \E patch \in DeskPatches :
    LET guard == Guarded!GuardPatch(guarded, patch, how)
        done == Guarded!ApplyPatch(guarded, guard.patch) IN
    /\ guard.patch # <<>> /\ done.ok
    /\ guarded' = done.tree
    /\ sinceMorph' = 0
    /\ sinceMajor' = IF deescalates THEN sinceMajor ELSE 0
    /\ past' = how.typing

GuardNext ==
  \/ Tick
  \/ \E how \in Hows : Morph(how, FALSE)
  \/ \E how \in Downs : Morph(how, TRUE)

-----------------------------------------------------------------------------
(* The development body under any plan, and the undo of the newest morph   *)
(* or the dismissal of a card.                                             *)

PlanInit == shown = DevBody /\ back = <<>> /\ last = <<"none", "nothing">>

\* One inverse is kept, the older let go.
Planned(intent, variant, recurrence, typing) ==
  LET how == Asked("enough", "other", typing, Never, Never, Cooldown, MajorDwell)
      patch == PlanMorph(shown, intent, variant, recurrence)
      guard == GuardPatch(shown, patch, how)
      done == ApplyPatch(shown, guard.patch) IN
  /\ patch # NoPatch
  /\ IF guard.patch # <<>> /\ done.ok
     THEN shown' = done.tree /\ back' = <<done.inverse>> /\ last' = <<intent, "applied">>
     ELSE /\ UNCHANGED <<shown, back>>
          /\ last' = <<intent, IF guard.patch = <<>> THEN "held" ELSE "impossible">>

UndoNewest ==
  /\ back # <<>> /\ back' = <<>>
  /\ LET done == ApplyPatch(shown, back[1]) IN done.ok /\ shown' = done.tree
  /\ last' = <<"undo", "applied">>

Dismissal(card) ==
  /\ card \in Ids(shown)
  /\ LET done == ApplyPatch(shown, <<RemoveOp(card)>>) IN
     shown' = done.tree /\ back' = <<done.inverse>>
  /\ last' = <<"dismiss", "applied">>

PlanNext ==
  \/ \E y \in {Nobody, "context-text"} :
       \/ \E kind \in IncidentKinds, r \in {1, 2} : Planned("surface_incident", kind, r, y)
       \/ \E kind \in AugmentKinds : Planned("augment", kind, 1, y)
       \/ Planned("restore_normal", "none", 1, y)
  \/ UndoNewest
  \/ \E card \in {"incident", "context"} : Dismissal(card)

-----------------------------------------------------------------------------
\* Pairs of bodies; under the other root, only the root.
Bodies == {t \in Between!Bodies : t.root = "s" => Ids(t) = {"s"}}
DiffInit ==
  /\ current \in IF part = "diff" THEN Bodies ELSE {Small!Leaf("r", "seed")}
  /\ desired \in IF part = "diff" THEN Bodies ELSE {Small!Leaf("r", "seed")}
  /\ landed = <<>>

AllInit ==
  /\ part \in {"sensors", "belief", "person", "tree", "guard", "plans", "diff"}
  /\ Init
  /\ MindInit
  /\ small = Small!Leaf("root", "seed")
  /\ GuardInit
  /\ PlanInit
  /\ DiffInit

AllNext ==
  /\ UNCHANGED part
  /\ \/ /\ part = "sensors" /\ Next
        /\ UNCHANGED <<mindVars, treeVars, guardVars, planVars, diffVars>>
     \/ /\ part = "belief" /\ FoldNext(Facts, 4)
        /\ UNCHANGED <<vars, treeVars, guardVars, planVars, diffVars>>
     \/ /\ part = "person" /\ FoldNext(Doings, 5)
        /\ UNCHANGED <<vars, treeVars, guardVars, planVars, diffVars>>
     \/ part = "tree" /\ Patched /\ UNCHANGED <<vars, mindVars, guardVars, planVars, diffVars>>
     \/ /\ part = "guard" /\ GuardNext
        /\ UNCHANGED <<vars, mindVars, treeVars, planVars, diffVars>>
     \/ /\ part = "plans" /\ PlanNext
        /\ UNCHANGED <<vars, mindVars, treeVars, guardVars, diffVars>>
     \/ /\ part = "diff" /\ Between!Next
        /\ UNCHANGED <<vars, mindVars, treeVars, guardVars, planVars>>

allVars == <<part, vars, mindVars, treeVars, guardVars, planVars, diffVars>>
AllSpec == AllInit /\ [][AllNext]_allVars

-----------------------------------------------------------------------------
\* The belief stays within its limits and remembers nothing twice (world-model).
BeliefFitsItsLimits ==
  part \in {"belief", "person"} =>
  /\ \A i, j \in DOMAIN world.problems : world.problems[i].kind = world.problems[j].kind => i = j
  /\ IsInjective(world.failing) /\ Len(world.failing) <= 2
  /\ IsInjective(world.files) /\ Len(world.files) <= 2
  /\ Len(world.recent) <= 4 /\ Len(world.keys) <= 4
  /\ Cardinality(DOMAIN world.sensing) <= 2
  /\ presence \in {"observing", "evaluating", "acting"}

\* The belief does not contradict itself: the network's problem is open exactly while
\* a failing host is remembered, and the API is down exactly while its error is open.
BeliefIsCoherent ==
  part \in {"belief", "person"} =>
  /\ ("network_failure" \in Mind!KindsOf(world.problems)) = (world.failing # <<>>)
  /\ ("runtime_error" \in Mind!KindsOf(world.problems)) = (world.processes["API"] = "failed")

\* No problem opens or closes unnoticed: the reflex reads the world before the event,
\* the reducer the event, and whatever they make of it, an event that changes which
\* problems are open is deliberated on - else the body would be left as it was.
ChangesAreDeliberated ==
  [][world' # world /\ Mind!KindsOf(world.problems) # Mind!KindsOf(world'.problems)
       => presence' = "evaluating"]_mindVars

\* A person who does the same thing a third time is noticed then: the reflex, which
\* counts before the event, and the intent, which counts after, agree on which time that is.
StuckIsNoticed ==
  [][world'.repeats = 3 /\ world.repeats = 2 => presence' = "evaluating"]_mindVars

\* "The 'currently sensing' indicator is always true" (contracts/worldstate.ts): what is
\* shown of a sensor is what it last declared, and one that declared nothing is not shown.
SensingIsCurrent ==
  \A sensor \in DOMAIN world.sensing : declared[sensor] # <<>> /\ world.sensing[sensor] = declared[sensor]

\* Ids are unique and every node hangs under the root, once: every lookup in
\* apply.ts is by id and takes the first match (apply.ts:48-57).
IsATree ==
  part = "tree" =>
  /\ small.root \in Ids(small)
  /\ DOMAIN small.look = Ids(small)
  /\ Below(small, small.root) = Ids(small)
  /\ \A n \in Ids(small) :
       Cardinality({<<p, i>> \in Ids(small) \X (1 .. 4) :
         i <= Len(small.kids[p]) /\ small.kids[p][i] = n}) =
       IF n = small.root THEN 0 ELSE 1
  /\ Cardinality(Ids(small)) <= 4

\* Undo comes back to the tree it started from, not to one that only looks the
\* same, and redo - the inverse of the inverse - to the morphed one
\* (apply.ts:65-70, runtime-core undo and redo), for every patch of two steps.
InverseRestores ==
  part = "tree" =>
  \A op1 \in OpsOn(small) :
    LET one == Small!ApplyPatch(small, <<op1>>)
    IN  one.ok => \A op2 \in OpsOn(one.tree) :
          LET done == Small!ApplyPatch(small, <<op1, op2>>)
              undone == Small!ApplyPatch(done.tree, done.inverse)
              again == Small!ApplyPatch(undone.tree, undone.inverse)
          IN  done.ok => /\ undone.ok /\ undone.tree = small
                         /\ again.ok /\ again.tree = done.tree

\* "Never destroy unsaved work - not even on critical events" (guard.ts): whatever
\* patch is asked for and however it is cut down and applied, a component with unsaved
\* work stays on the body, with its content and inside what it was inside.
UnsavedIsKept ==
  [][guarded' # guarded => \A n \in Ids(guarded) : guarded.look[n].content = Unsaved =>
       /\ n \in Ids(guarded') /\ guarded'.look[n].content = Unsaved
       /\ PathIds(guarded', n) = PathIds(guarded, n)]_guardVars

\* "While the user types, don't disturb the focused subtree": the component typed in
\* when a morph applied is where it was, and reads what it read.
FocusIsKept ==
  [][guarded' # guarded /\ past' # Nobody /\ past' \in Ids(guarded) =>
       /\ past' \in Ids(guarded') /\ guarded'.look[past'].content = guarded.look[past'].content
       /\ PathIds(guarded', past') = PathIds(guarded, past')]_guardVars

\* A host that asks again when it was told to is not told to wait for the same
\* reason once more (retryAfterMs): the reported time is enough, whichever clock held.
RetryIsEnough ==
  part = "guard" =>
  \A patch \in DeskPatches, how \in Hows :
    LET guard == Guarded!GuardPatch(guarded, patch, how)
        after == RetryAfter(guard, how)
        Then(since) == IF since = Never THEN Never ELSE since + after IN
    after # Never =>
      Guarded!GuardPatch(guarded, patch, [how EXCEPT !.sinceMorph = Then(@), !.sinceMajor = Then(@)]).reasons
        \cap guard.reasons \cap {"cooldown_active", "major_dwell_active"} = {}

\* "A concrete, registry-valid patch against the current blueprint" (morphology.ts):
\* whatever morphs, undos and dismissals came before, and whatever the person types in,
\* what is planned is never impossible when it is reached for.
EveryPlanFits == last[2] # "impossible"

\* A button that undoes a card stands in that card: a panel that carried another's
\* button would take away something else, or nothing.
ButtonsUndoTheirCard ==
  part = "plans" =>
  \A n \in Ids(shown) : \A id \in {"incident", "context"} :
    shown.look[n].content = Undoes(id) => id \in PathIds(shown, n)

\* The patch between two bodies lands on the one it was asked about (diff.ts).
DiffLands == Between!DiffLands

\* And in the order that was asked for, when nothing that stays changes places.
OrderLands == Between!OrderLands

\* The belief is one a body can be made of: within its limits, without contradiction, true to what
\* the sensors declared, and never changed without being deliberated on (world-model, significance).
BeliefIsSound ==
  [](BeliefFitsItsLimits /\ BeliefIsCoherent /\ SensingIsCurrent) /\ ChangesAreDeliberated /\ StuckIsNoticed

\* Patches do what they say: trees stay trees, an inverse restores, and the patch between two
\* bodies lands on the one asked for (apply.ts, diff.ts).
PatchesLand == IsATree /\ InverseRestores /\ DiffLands /\ OrderLands

\* No morph hurts: a plan is never impossible, its buttons are its own, a wait told is enough, and
\* neither unsaved work nor what is typed in is touched (morphology.ts, guard.ts).
MorphsAreSafe ==
  [](EveryPlanFits /\ ButtonsUndoTheirCard /\ RetryIsEnough) /\ UnsavedIsKept /\ FocusIsKept
=============================================================================
