------------------------------- MODULE Memory -------------------------------
(***************************************************************************)
(* The learned memory of one session of the runtime server: what an        *)
(* applied morph, a dismissal and its taking back teach, the suggestions   *)
(* that go to whoever is attached, the snapshot saved after them, a        *)
(* process that dies in between, and a snapshot brought back into a memory *)
(* that may have gone on learning (resume).                                *)
(*                                                                         *)
(* A situation is an event type with the intent it led to: it names a      *)
(* pattern and the morph preference; <<"dismissed", s>> is the lesson of   *)
(* taking its card away.  A save is one step here: the statements of it    *)
(* are the subject of module Snapshots.                                    *)
(***************************************************************************)
EXTENDS Integers, FiniteSets, Sequences, SequencesExt

CONSTANTS
  MaxPreferences,   \* MAX_PREFERENCES
  MaxPatterns,      \* MAX_PATTERNS
  MaxWeight,        \* MAX_MEMORY_WEIGHT, what a restored count is held to
  Threshold,        \* repetitions that make a pattern a candidate
  Situations,   \* event type with intent
  MaxSteps,     \* bound: morphs and reversals
  MaxLives      \* bound: times the process is started

MemoryAssumption ==
  /\ MaxPreferences \in Nat \ {0} /\ MaxPatterns \in Nat \ {0}
  /\ MaxWeight \in Nat \ {0} /\ Threshold \in Nat \ {0}
  /\ MaxSteps \in Nat /\ MaxLives \in Nat \ {0}

-----------------------------------------------------------------------------
(* The stores (packages/memory): the count-weighted preferences and the    *)
(* repeated patterns.  Each is a bounded table kept in the order its keys  *)
(* came in, which is what breaks a tie when one has to go.  A key is a     *)
(* value; a time is a natural number.                                      *)

Has(table, k) == \E i \in 1..Len(table) : table[i].key = k
At(table, k) == CHOOSE i \in 1..Len(table) : table[i].key = k
Greater(a, b) == IF a >= b THEN a ELSE b
Restorable(n) == IF n > MaxWeight THEN MaxWeight ELSE n

-----------------------------------------------------------------------------
(* Preferences *)

WeightOf(weights, k) == IF Has(weights, k) THEN weights[At(weights, k)].weight ELSE 0

Lightest(weights) ==
  CHOOSE i \in 1..Len(weights) : \A j \in 1..Len(weights) :
    weights[i].weight < weights[j].weight \/ (weights[i].weight = weights[j].weight /\ i <= j)

Weighed(weights, k, w) ==
  IF Has(weights, k) THEN [weights EXCEPT ![At(weights, k)].weight = w]
  ELSE Append(weights, [key |-> k, weight |-> w])

RoomForKeyUnbounded(weights, k) == weights
RoomForKey(weights, k) ==
  IF ~Has(weights, k) /\ Len(weights) >= MaxPreferences THEN RemoveAt(weights, Lightest(weights)) ELSE weights

\* A lesson handed back never leaves a weight below nothing.
Reinforce(weights, k, delta) ==
  LET room == RoomForKey(weights, k) IN Weighed(room, k, Greater(0, WeightOf(room, k) + delta))

\* The higher weight wins, and what is loaded cannot push anything out.
LoadWeightAdds(weights, p) ==
  IF ~Has(weights, p.key) /\ Len(weights) >= MaxPreferences THEN weights
  ELSE Weighed(weights, p.key, WeightOf(weights, p.key) + Restorable(p.weight))
LoadWeight(weights, p) ==
  IF ~Has(weights, p.key) /\ Len(weights) >= MaxPreferences THEN weights
  ELSE Weighed(weights, p.key, Greater(WeightOf(weights, p.key), Restorable(p.weight)))
LoadWeights(weights, prefs) == FoldLeft(LoadWeight, weights, prefs)

-----------------------------------------------------------------------------
(* Patterns *)

CountOf(counts, k) == IF Has(counts, k) THEN counts[At(counts, k)].count ELSE 0
Suggested(counts, k) == Has(counts, k) /\ counts[At(counts, k)].suggested

Stalest(counts) ==
  CHOOSE i \in 1..Len(counts) : \A j \in 1..Len(counts) :
    counts[i].lastSeen < counts[j].lastSeen \/ (counts[i].lastSeen = counts[j].lastSeen /\ i <= j)

RoomForPattern(counts) ==
  IF Len(counts) >= MaxPatterns THEN RemoveAt(counts, Stalest(counts)) ELSE counts

Observe(counts, k, at) ==
  IF Has(counts, k)
  THEN [counts EXCEPT ![At(counts, k)].count = @ + 1, ![At(counts, k)].lastSeen = at]
  ELSE Append(RoomForPattern(counts), [key |-> k, count |-> 1, lastSeen |-> at, suggested |-> FALSE])

IsFresh(c) == c.count >= Threshold /\ ~c.suggested
Fresh(counts) == SelectSeq(counts, IsFresh)
\* What takeSuggestions leaves behind: every candidate it returned is marked.
Taken(counts) == [i \in 1..Len(counts) |-> [counts[i] EXCEPT !.suggested = @ \/ counts[i].count >= Threshold]]

\* The higher count wins, a mark stays, and what is loaded cannot push anything out.
LoadPattern(counts, c) ==
  IF c.count < 1 \/ (~Has(counts, c.key) /\ Len(counts) >= MaxPatterns) THEN counts
  ELSE IF ~Has(counts, c.key) THEN Append(counts, [c EXCEPT !.count = Restorable(@)])
  ELSE [counts EXCEPT ![At(counts, c.key)].count = Greater(@, Restorable(c.count)),
                      ![At(counts, c.key)].suggested = @ \/ c.suggested,
                      ![At(counts, c.key)].lastSeen = Greater(@, c.lastSeen)]
LoadPatterns(counts, items) == FoldLeft(LoadPattern, counts, items)

-----------------------------------------------------------------------------
(* The memory of a session.                                                *)

Keys == {"morph", "dismissed"} \X Situations

VARIABLES
  weights,    \* PreferenceMemory
  counts,     \* PatternDetector
  snapshot,   \* the memory snapshot a resume would read
  unsaved,    \* the save that follows the last step is still to come
  steps, life,
  standing,   \* dismissals of this life that stand, for each situation
  redoable,   \* dismissals of this life that were undone and may be redone
  earned,     \* what each preference was taught, less what was handed back   (history)
  squeezed,   \* preferences that lost something to the ceiling               (history)
  offers,     \* how often each pattern was offered to the bodies             (history)
  pushedOut,  \* how often each pattern lost its mark to the ceiling          (history)
  cutShort,   \* how often a process died before it saved a pattern's mark    (history)
  resumed     \* every process so far was resumed before it learned anything  (history)

learned == <<weights, counts, standing, redoable>>
offered == <<offers, pushedOut, cutShort, resumed>>
vars == <<learned, snapshot, unsaved, steps, life, earned, squeezed, offered>>

\* A step: each is at an instant of its own.
Step ==
  /\ steps < MaxSteps /\ steps' = steps + 1 /\ unsaved' = TRUE
  /\ UNCHANGED <<snapshot, life>>

KeysOf(seq) == {seq[i].key : i \in 1..Len(seq)}
Nobody == [s \in Situations |-> 0]
\* One more for every pattern of a set.
OneMore(tally, patterns) == [s \in Situations |-> tally[s] + (IF s \in patterns THEN 1 ELSE 0)]
Marked(table) == {s \in Situations : Suggested(table, s)}

Teach(k, delta) ==
  /\ weights' = Reinforce(weights, k, delta)
  /\ earned' = [earned EXCEPT ![k] = @ + delta]
  /\ squeezed' = squeezed \cup {j \in Keys : Has(weights, j) /\ ~Has(weights', j)}

\* A morph went through: the preference is reinforced, the pattern observed unless the
\* event was the runtime's own, and what is fresh is marked and emitted.
Morph(s, own) ==
  /\ Step
  /\ Teach(<<"morph", s>>, 1)
  /\ LET seen == IF own THEN counts ELSE Observe(counts, s, steps') IN
     /\ counts' = Taken(seen)
     /\ offers' = OneMore(offers, KeysOf(Fresh(seen)))
     /\ pushedOut' = OneMore(pushedOut, Marked(counts) \ KeysOf(seen))
  /\ redoable' = Nobody   \* an applied morph empties the redo stack
  /\ UNCHANGED <<standing, cutShort, resumed>>

\* A card is dismissed: the lesson counts against what introduced it.
Dismiss(s) ==
  /\ Step
  /\ Teach(<<"dismissed", s>>, 1)
  /\ standing' = [standing EXCEPT ![s] = @ + 1] /\ redoable' = Nobody
  /\ UNCHANGED <<counts, offered>>

\* The dismissal is undone and its lesson handed back ...
HandBack(s) ==
  /\ standing[s] > 0
  /\ Step
  /\ Teach(<<"dismissed", s>>, -1)
  /\ standing' = [standing EXCEPT ![s] = @ - 1] /\ redoable' = [redoable EXCEPT ![s] = @ + 1]
  /\ UNCHANGED <<counts, offered>>

\* ... or redone, and taught again.
Reteach(s) ==
  /\ redoable[s] > 0
  /\ Step
  /\ Teach(<<"dismissed", s>>, 1)
  /\ redoable' = [redoable EXCEPT ![s] = @ - 1] /\ standing' = [standing EXCEPT ![s] = @ + 1]
  /\ UNCHANGED <<counts, offered>>

\* A save that fails is logged and not tried again.
Save(fails) ==
  /\ unsaved /\ unsaved' = FALSE
  /\ snapshot' = IF fails THEN snapshot ELSE [weights |-> weights, counts |-> counts]
  /\ UNCHANGED <<learned, steps, life, earned, squeezed, offered>>

\* The process dies.  The next one has learned nothing, unless it is resumed at once.
Crash(back) ==
  /\ life < MaxLives /\ life' = life + 1 /\ unsaved' = FALSE
  /\ weights' = IF back THEN LoadWeights(<<>>, snapshot.weights) ELSE <<>>
  /\ counts' = IF back THEN LoadPatterns(<<>>, snapshot.counts) ELSE <<>>
  /\ standing' = Nobody /\ redoable' = Nobody
  /\ earned' = [k \in Keys |-> IF back THEN Restorable(WeightOf(snapshot.weights, k)) ELSE 0]
  /\ squeezed' = {}
  /\ cutShort' = OneMore(cutShort, Marked(counts) \ Marked(snapshot.counts))
  /\ resumed' = (resumed /\ back)
  /\ UNCHANGED <<snapshot, steps, offers, pushedOut>>

\* resume in a process that has gone on: what was saved comes in beside
\* what is there.
Resume ==
  /\ weights' = LoadWeights(weights, snapshot.weights)
  /\ counts' = LoadPatterns(counts, snapshot.counts)
  /\ earned' = [k \in Keys |-> Greater(earned[k], Restorable(WeightOf(snapshot.weights, k)))]
  /\ squeezed' = squeezed \cup {k \in Keys : Has(snapshot.weights, k) /\ ~Has(weights', k)}
  /\ UNCHANGED <<snapshot, unsaved, steps, life, standing, redoable, offered>>

Init ==
  /\ weights = <<>> /\ counts = <<>> /\ unsaved = FALSE
  /\ snapshot = [weights |-> <<>>, counts |-> <<>>]
  /\ steps = 0 /\ life = 1
  /\ standing = Nobody /\ redoable = Nobody
  /\ earned = [k \in Keys |-> 0] /\ squeezed = {}
  /\ offers = Nobody /\ pushedOut = Nobody /\ cutShort = Nobody /\ resumed = TRUE

Next ==
  \/ \E s \in Situations : \/ \E own \in BOOLEAN : Morph(s, own)
                           \/ Dismiss(s) \/ HandBack(s) \/ Reteach(s)
  \/ \E b \in BOOLEAN : Save(b) \/ Crash(b)
  \/ Resume

Spec == Init /\ [][Next]_vars

-----------------------------------------------------------------------------
(* Properties *)

Bounded(table, keys, max) ==
  /\ Len(table) <= max
  /\ \A i \in 1..Len(table) : table[i].key \in keys
  /\ \A i, j \in 1..Len(table) : table[i].key = table[j].key => i = j

\* A key has one entry, and neither table, live or saved, grows past its ceiling.
TypeOK ==
  /\ Bounded(weights, Keys, MaxPreferences) /\ Bounded(counts, Situations, MaxPatterns)
  /\ Bounded(snapshot.weights, Keys, MaxPreferences) /\ Bounded(snapshot.counts, Situations, MaxPatterns)
  /\ \A i \in 1..Len(weights) : weights[i].weight \in Nat
  /\ \A i \in 1..Len(counts) : counts[i].count \in Nat \ {0} /\ counts[i].lastSeen \in 0..steps
  /\ steps \in 0..MaxSteps /\ life \in 1..MaxLives

\* "Symmetry: no weight from mind-changing loops" (RuntimeCore.undo), across the ceiling
\* and across a resume in the middle of it: a preference never weighs more than it was
\* taught and not handed back, and as long as the ceiling took nothing from it, no less.
LessonsAddUp ==
  \A k \in Keys : /\ WeightOf(weights, k) <= earned[k]
                  /\ k \notin squeezed => WeightOf(weights, k) = earned[k]

\* "Offered once" (takeSuggestions): a pattern is offered again only for a mark the
\* ceiling pushed out or a process died before saving.
OfferedOnce ==
  resumed => \A s \in Situations : offers[s] <= 1 + pushedOut[s] + cutShort[s]

\* "Patterns restore with their `suggested` flag, so a restart never re-offers a template
\* the person already saw" (importMemory): offered again only for a mark pushed out.
RestartNeverReoffers ==
  resumed => \A s \in Situations : offers[s] <= 1 + pushedOut[s]

\* A restore "never lowers what was learned live" (PreferenceMemory.load), and takes no
\* mark back: what is loaded into a memory that has gone on only adds to it.
ResumeOnlyAdds ==
  [][<<weights, counts>> # <<weights', counts'>> /\ Resume =>
       /\ \A k \in Keys : WeightOf(weights', k) >= WeightOf(weights, k)
       /\ \A s \in Situations : /\ CountOf(counts', s) >= CountOf(counts, s)
                                /\ Suggested(counts, s) => Suggested(counts', s)]_vars
=============================================================================
