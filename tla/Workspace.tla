------------------------------ MODULE Workspace ------------------------------
(***************************************************************************)
(* The body in the browser with its own core (apps/web: Workspace,         *)
(* useSessionRestore, session.ts, replayClock): events in, a result        *)
(* applied, morphs undone and redone, and the page loaded again over the   *)
(* log it saved.                                                           *)
(*                                                                         *)
(* The core is reduced to what the page depends on.  A change of the world *)
(* leaves the body behind until a morph catches it up, and a morph is held *)
(* until Cooldown has passed since the last; every morph an event of the   *)
(* person's led to counts for one pattern.  Time is a natural number.      *)
(***************************************************************************)
EXTENDS Integers, Sequences, SequencesExt

CONSTANTS
  Cooldown,     \* time between two morphs
  Threshold,    \* morphs that make the pattern a candidate
  HistoryLimit, \* undo steps the core keeps (50)
  LogLimit,     \* events the saved log keeps (500)
  None,
  MaxEvents,    \* bound: live events, ticks included
  MaxClock,     \* bound: time
  MaxStepsBack, \* bound: times the wall clock is set back
  MaxUndos,     \* bound: undos
  MaxLoads,     \* bound: times the page is loaded
  MaxFailures   \* bound: replays that fail

WorkspaceAssumption ==
  /\ Cooldown \in Nat /\ Threshold \in Nat \ {0}
  /\ HistoryLimit \in Nat \ {0} /\ LogLimit \in Nat \ {0}
  /\ None \notin Nat

VARIABLES
  clock,      \* the wall clock
  core,       \* see Fresh
  replayAt,   \* the replay clock, None in real time
  restoring,  \* the events of the log still to replay, while the gate is shut; None when it is open
  results,    \* what the replay has come to so far, see NoResults
  waiting,    \* live events behind the gate
  events, strip, timer,     \* React state: the log, the history strip; the reconcile timer
  savedLog, savedMemory,    \* localStorage
  made, loads, failures, stepsBack, undos,   \* for the bounds
  outcomes,   \* whether each event of the log led to a morph, when it was live       (history)
  morphs,     \* morphs of the person's events, over all loads                        (history)
  offers,     \* times the pattern was offered                                        (history)
  excused     \* why a replay may come to something else than the session did         (history)

stored == <<savedLog, savedMemory>>
bounds == <<made, loads, failures, stepsBack, undos>>
past == <<outcomes, morphs, offers, excused>>
page == <<events, strip, timer>>
restore == <<replayAt, restoring, results>>
vars == <<clock, core, restore, waiting, page, stored, bounds, past>>

Fresh == [last |-> None,      \* lastMorphAt
          behind |-> FALSE,   \* the body is not what the world calls for
          history |-> <<>>,   \* the steps that can be undone: "morph" or "card", a card dismissed
          redo |-> <<>>,      \* the steps undone, and whether undoing them taught or unlearnt
          count |-> 0, suggested |-> FALSE,   \* the pattern
          lessons |-> 0]      \* the weight of the dismissal
NoResults == [log |-> <<>>, applied |-> 0, held |-> FALSE, offered |-> FALSE, outcomes |-> <<>>]

Open == restoring = None
Now == IF replayAt = None THEN clock ELSE replayAt
Whole(seq, n) == seq
LastOf(seq, n) == IF Len(seq) > n THEN SubSeq(seq, Len(seq) - n + 1, Len(seq)) ELSE seq

-----------------------------------------------------------------------------
(* The core, at an instant *)

Behind(c, e) == c.behind \/ e.kind = "change"
Applies(c, e, now) == /\ e.kind # "other" /\ Behind(c, e)
                      /\ c.last = None \/ now - c.last >= Cooldown
Holds(c, e, now) == e.kind # "other" /\ Behind(c, e) /\ ~Applies(c, e, now)
Offers(c, e, now) == /\ e.kind = "change" /\ Applies(c, e, now)
                     /\ ~c.suggested /\ c.count + 1 >= Threshold
Folded(c, e, now) ==
  IF ~Applies(c, e, now) THEN [c EXCEPT !.behind = Behind(c, e)]
  ELSE [c EXCEPT !.behind = FALSE, !.last = now, !.redo = <<>>,
                 !.history = LastOf(Append(@, "morph"), HistoryLimit),
                 !.count = IF e.kind = "change" THEN @ + 1 ELSE @,
                 !.suggested = @ \/ Offers(c, e, now)]

\* undo of the newest step.  A morph taken back teaches unless it was a "go back"; a card
\* brought back hands its lesson back.
TakenBack(c, learn) ==
  LET step == Last(c.history) IN
  [c EXCEPT !.history = Front(@), !.last = None, !.redo = Append(@, <<step, learn>>),
            !.lessons = IF step = "card" THEN @ - 1 ELSE IF learn THEN @ + 1 ELSE @]
\* A card that is not the newest step is taken away as a step of its own.
Dismissed(c) == [c EXCEPT !.history = LastOf(Append(@, "card"), HistoryLimit),
                          !.last = None, !.redo = <<>>, !.lessons = @ + 1]
Redone(c) ==
  LET entry == Last(c.redo) IN
  [c EXCEPT !.history = LastOf(Append(@, entry[1]), HistoryLimit), !.last = None, !.redo = Front(@),
            !.lessons = IF entry[1] = "card" THEN @ + 1 ELSE IF entry[2] THEN @ - 1 ELSE @]

Memory(c) == [suggested |-> c.suggested, lessons |-> c.lessons]

-----------------------------------------------------------------------------
(* ingest *)

\* A live event goes through the loop: it is saved before the core has it, a suggestion
\* is saved with its mark, a hold arms the timer, and a morph disarms it.
Ingest(e) ==
  LET applies == Applies(core, e, Now) IN
  /\ events' = Append(events, e)
  /\ savedLog' = LastOf(events', LogLimit)
  /\ core' = Folded(core, e, Now)
  /\ savedMemory' = IF Offers(core, e, Now) THEN Memory(core') ELSE savedMemory
  /\ strip' = IF applies THEN strip + 1 ELSE strip
  /\ timer' = (Holds(core, e, Now) \/ (timer /\ ~applies /\ e.kind # "tick"))
  /\ outcomes' = Append(outcomes, applies)
  /\ morphs' = IF applies /\ e.kind = "change" THEN morphs + 1 ELSE morphs
  /\ offers' = IF Offers(core, e, Now) THEN offers + 1 ELSE offers
  /\ excused' = excused \cup (IF e.at # clock THEN {"late"} ELSE {})
                        \cup (IF Len(events') > LogLimit THEN {"cut"} ELSE {})
                        \cup (IF strip' > HistoryLimit THEN {"deep"} ELSE {})

\* An event is stamped when it is made, and waits for the gate.
Live(kind) ==
  /\ made < MaxEvents /\ made' = made + 1
  /\ LET e == [kind |-> kind, at |-> Now] IN
     IF Open
     THEN waiting = <<>> /\ Ingest(e) /\ UNCHANGED waiting
     ELSE waiting' = Append(waiting, e) /\ UNCHANGED <<core, page, stored, past>>
  /\ UNCHANGED <<clock, restore, loads, failures, stepsBack, undos>>

LetThrough ==
  /\ Open /\ waiting # <<>>
  /\ Ingest(Head(waiting)) /\ waiting' = Tail(waiting)
  /\ UNCHANGED <<clock, restore, bounds>>

\* The timer of a hold makes a tick.
TimerFires ==
  /\ timer /\ Open /\ waiting = <<>>
  /\ made < MaxEvents /\ made' = made + 1
  /\ Ingest([kind |-> "tick", at |-> Now])
  /\ UNCHANGED <<clock, restore, waiting, loads, failures, stepsBack, undos>>

-----------------------------------------------------------------------------
(* undo, redo, undoTo *)

\* What was learned is saved, and the strip follows the history: a card dismissed is a step more.
NotSaved(saved, c) == saved
Saved(saved, c) == Memory(c)
StripAfter(before, after) ==
  IF Len(after.history) >= Len(before.history) THEN strip + 1 ELSE IF strip > 0 THEN strip - 1 ELSE 0

Undo(card) ==
  /\ Open /\ core.history # <<>> /\ (card => Len(core.history) > 1)
  /\ undos < MaxUndos /\ undos' = undos + 1
  /\ core' = IF card THEN Dismissed(core) ELSE TakenBack(core, TRUE)
  /\ savedMemory' = Saved(savedMemory, core')
  /\ strip' = StripAfter(core, core')
  /\ excused' = excused \cup {"undone"} \cup (IF strip' > HistoryLimit THEN {"deep"} ELSE {})
  /\ UNCHANGED <<clock, restore, waiting, events, timer, savedLog, made, loads, failures, stepsBack, outcomes, morphs, offers>>

Redo ==
  /\ Open /\ core.redo # <<>>
  /\ core' = Redone(core) /\ savedMemory' = Saved(savedMemory, core')
  /\ strip' = strip + 1
  /\ excused' = excused \cup (IF strip' > HistoryLimit THEN {"deep"} ELSE {})
  /\ UNCHANGED <<clock, restore, waiting, events, timer, savedLog, bounds, outcomes, morphs, offers>>

\* "Go back" to before step i: every step from the newest on, as far as the core can.
UndoTo(i) ==
  /\ Open /\ i < strip
  /\ undos < MaxUndos /\ undos' = undos + 1
  /\ core' = FoldLeft(LAMBDA c, k : IF c.history = <<>> THEN c ELSE TakenBack(c, FALSE), core, [k \in 1..(strip - i) |-> k])
  /\ strip' = i
  /\ excused' = excused \cup {"undone"}
  /\ UNCHANGED <<clock, restore, waiting, events, timer, stored, made, loads, failures, stepsBack, outcomes, morphs, offers>>

-----------------------------------------------------------------------------
(* The restore *)

\* What the memory brings back: the dismissals whole, the pattern as a mark that counts one.
Restored(m) == [Fresh EXCEPT !.lessons = m.lessons, !.suggested = m.suggested,
                             !.count = IF m.suggested THEN 1 ELSE 0]

\* holdLiveEvents: the gate of a page with a log to replay; None is no gate.
Held(log) == IF log = <<>> THEN None ELSE log

\* The page is loaded again: nothing of the old one is left but what was saved.
Load ==
  /\ loads < MaxLoads /\ loads' = loads + 1
  /\ core' = Restored(savedMemory)
  /\ events' = <<>> /\ strip' = 0 /\ timer' = FALSE /\ waiting' = <<>>
  /\ restoring' = Held(savedLog)
  /\ results' = [NoResults EXCEPT !.log = savedLog]
  /\ replayAt' = None
  /\ excused' = IF strip > HistoryLimit THEN excused \ {"deep"} ELSE excused
  /\ UNCHANGED <<clock, stored, made, failures, stepsBack, undos, outcomes, morphs, offers>>

FollowedBack(at) == at
\* advanceTo: the replay clock goes forward only.
AdvanceTo(at) == IF replayAt = None THEN at ELSE IF at < replayAt THEN replayAt ELSE at

\* The next event of the log, judged at its own instant.
Replay ==
  /\ ~Open /\ restoring # <<>>
  /\ LET e == Head(restoring)
         now == AdvanceTo(e.at)
         applies == Applies(core, e, now) IN
     /\ replayAt' = now
     /\ core' = Folded(core, e, now)
     /\ results' = [results EXCEPT !.applied = IF applies THEN @ + 1 ELSE @,
                                   !.held = Holds(core, e, now) \/ (@ /\ ~applies),
                                   !.offered = Offers(core, e, now),
                                   !.outcomes = Append(@, applies)]
     /\ restoring' = Tail(restoring)
  /\ UNCHANGED <<clock, waiting, page, stored, bounds, past>>

\* Every path out of a restore opens the gate.
StillShut(gate) == gate
Released(gate) == None

\* A hold that no morph followed needs a tick of its own.
Armed(armed, held) == armed \/ held

\* The log has been through.  Its last result is applied, with the suggestion it may carry;
\* the strip and the log are what the replay came to; a hold that was never caught up arms
\* the timer; and the gate opens.
ReplayEnds ==
  /\ ~Open /\ restoring = <<>>
  /\ strip' = results.applied /\ events' = results.log /\ timer' = Armed(timer, results.held)
  /\ offers' = IF results.offered THEN offers + 1 ELSE offers
  /\ savedMemory' = IF results.offered THEN Memory(core) ELSE savedMemory
  /\ replayAt' = None /\ restoring' = Released(restoring)
  /\ excused' = excused \cup (IF strip' > HistoryLimit THEN {"deep"} ELSE {})
  /\ UNCHANGED <<clock, core, results, waiting, savedLog, bounds, outcomes, morphs>>

\* An event of the log that the core throws on ends the restore; the gate opens all the same.
ReplayFails ==
  /\ ~Open /\ restoring # <<>>
  /\ failures < MaxFailures /\ failures' = failures + 1
  /\ replayAt' = None /\ restoring' = Released(restoring)
  /\ excused' = excused \cup {"failed"}
  /\ UNCHANGED <<clock, core, results, waiting, page, stored, made, loads, stepsBack, undos, outcomes, morphs, offers>>

-----------------------------------------------------------------------------
TimePasses ==
  /\ clock < MaxClock /\ clock' = clock + 1
  /\ UNCHANGED <<core, restore, waiting, page, stored, bounds, past>>
\* A correction, a machine waking up.
SetBack ==
  /\ stepsBack < MaxStepsBack /\ clock > 0
  /\ stepsBack' = stepsBack + 1 /\ clock' = clock - 1
  /\ UNCHANGED <<core, restore, waiting, page, stored, made, loads, failures, undos, past>>

Init ==
  /\ clock = 0 /\ core = Fresh /\ replayAt = None
  /\ restoring = None /\ results = NoResults /\ waiting = <<>>
  /\ events = <<>> /\ strip = 0 /\ timer = FALSE
  /\ savedLog = <<>> /\ savedMemory = Memory(Fresh)
  /\ made = 0 /\ loads = 1 /\ failures = 0 /\ stepsBack = 0 /\ undos = 0
  /\ outcomes = <<>> /\ morphs = 0 /\ offers = 0 /\ excused = {}

Next ==
  \/ \E kind \in {"change", "other"} : Live(kind)
  \/ LetThrough \/ TimerFires
  \/ \E card \in BOOLEAN : Undo(card)
  \/ Redo
  \/ \E i \in 0..(strip - 1) : UndoTo(i)
  \/ Load \/ Replay \/ ReplayEnds \/ ReplayFails \/ TimePasses \/ SetBack

Spec == Init /\ [][Next]_vars
\* The loop of the restore is the browser's to run, and so are the events it lets through.
FairSpec == Spec /\ WF_vars(Replay) /\ WF_vars(ReplayEnds) /\ WF_vars(LetThrough)

-----------------------------------------------------------------------------
(* Properties *)

TypeOK ==
  /\ clock \in 0..MaxClock /\ replayAt \in 0..MaxClock \cup {None}
  /\ core.last \in 0..MaxClock \cup {None}
  /\ Len(core.history) <= HistoryLimit /\ Len(savedLog) <= LogLimit
  /\ core.lessons \in Nat /\ savedMemory.lessons \in Nat
  /\ strip \in Nat /\ timer \in BOOLEAN
  /\ (replayAt # None => ~Open) /\ (~Open => events = <<>>)

\* The saved log is only ever written to by adding the event that is being folded, whatever is made
\* while an old one is replayed, and never by throwing what was there away.  A restore that failed
\* is the exception: the page starts over with no events, and its first one is all the log keeps.
LogOnlyGrows ==
  [][savedLog' # savedLog /\ "failed" \notin excused
     => savedLog' = LastOf(Append(savedLog, Last(savedLog')), LogLimit)]_vars

\* replayClock.ts:7: the restored body is the one that was saved, whatever the clock did.
RestoredThoughSetBack ==
  ~Open /\ restoring = <<>> /\ excused \cap {"late", "undone", "cut", "failed"} = {}
  => results.outcomes = outcomes

\* A log replayed comes to what the session came to, morph for morph, as long as its events were
\* judged live at the time they are stamped with, no undo came between, the log is whole, and
\* none of its events is stamped before one recorded ahead of it: the clock may have been set
\* back while nothing happened.
StampedInOrder(log) == \A i, j \in DOMAIN log : i < j => log[i].at <= log[j].at
RestoredIsTheSession == StampedInOrder(results.log) => RestoredThoughSetBack

\* However the events are stamped, a replay never measures a time that is negative: no morph is
\* ahead of the instant at which the next event is judged (replayClock.ts:7).
ReplayRunsForward == replayAt # None /\ core.last # None => core.last <= replayAt

\* The strip has a step for each one the core can undo, after undos, redos, dismissals and reloads,
\* until there are more of them than the core keeps.
StripIsTheHistory ==
  Open /\ excused \cap {"deep", "failed"} = {} => strip = Len(core.history)

\* A body left behind by a hold has a tick coming, in the page that met the hold and in the one that
\* replayed it: nobody has to touch anything for it to catch up.
\* A step taken back or put back is the person's own doing and asks for nothing.
HeldMeansATickIsComing ==
  Open /\ core.behind /\ "failed" \notin excused => timer

\* A suggestion is offered once, whatever is loaded, replayed or undone since.
OfferedOnce == "failed" \notin excused => offers <= 1

\* What the person taught survives a reload: the saved memory never has less of it than the core.
NoLessonIsLost == savedMemory.lessons >= core.lessons

\* The gate opens, whether the log replays or not.
GateOpens == ~Open ~> Open
\* What waited behind it is folded or goes with its page.
NothingWaitsForever == waiting # <<>> ~> waiting = <<>>

\* docs/STATUS.md:1436: a dismissal undone hands its lesson back, for good.
NoLessonComesBack == savedMemory.lessons <= core.lessons
\* useSessionRestore.ts:157: "the history strip must match the undo stack that replay just rebuilt".
StripMatchesTheStack == Open /\ "failed" \notin excused => strip = Len(core.history)
\* session.ts:59: "nothing is stamped with a replayed timestamp".
NothingStampedWhileReplaying == \A i \in DOMAIN waiting : waiting[i].at >= clock \/ stepsBack > 0
\* useSessionRestore.ts:98: "the event-log replay below re-observes the real counts".
CountsAreReal == Open => core.count <= morphs
=============================================================================
