----------------------------- MODULE MCBrowser ------------------------------
(***************************************************************************)
(* What runs in a browser, and what a person takes back there: the content *)
(* script of a page that is observed (ContentScript), the body with its    *)
(* own core (Workspace), the body at the end of a socket (Connection), and *)
(* the history of a session's morphs with their undo, redo and dismissal   *)
(* (MorphSession), without a snapshot store and with one.  One component   *)
(* moves in each behaviour, see MCIntake.                                  *)
(***************************************************************************)
EXTENDS ContentScript

CONSTANTS
  MaxAttempts, MaxClients, MaxBodies, Embedded, Strict,   \* of Connection
  Returning, Stuck, Failing,
  MaxNodes, HistoryLimit, RedoLimit, DismissThreshold, HasStore, MaxWeight  \* of MorphSession

VARIABLES
  part,  \* the component that moves in this behaviour
  \* the body with its own core
  clock, core, replayAt, restoring, results, waiting, events, strip, timer, savedLog,
  savedMemory, made, loads, failures, stepsBack, undos, outcomes, morphs, offers, excused,
  \* the body of a runtime
  mode, connected, switching, current, wireMade, manual, attempts, wireTimer, socket,
  frames, asked, shown, body, missed, overtaken,
  \* the history of a session, and what is saved of it
  s, saved

deskVars == <<clock, core, replayAt, restoring, results, waiting, events, strip, timer,
              savedLog, savedMemory, made, loads, failures, stepsBack, undos, outcomes,
              morphs, offers, excused>>
wireVars == <<mode, connected, switching, current, wireMade, manual, attempts, wireTimer,
              socket, frames, asked, shown, body, missed, overtaken>>
undoneVars == <<s, saved>>

Desk == INSTANCE Workspace WITH
  Cooldown <- 2, Threshold <- 2, HistoryLimit <- 2, LogLimit <- 3, MaxEvents <- 4,
  MaxClock <- 2, MaxStepsBack <- 1, MaxUndos <- 2, MaxLoads <- 2, MaxFailures <- 1

Wire == INSTANCE Connection WITH
  made <- wireMade, timer <- wireTimer

Undone == INSTANCE MorphSession WITH AugmentKinds <- {Returning, Stuck}, IncidentKinds <- {Failing}

ASSUME PartsAssumption ==
  /\ Desk!WorkspaceAssumption /\ Wire!ConnectionAssumption
  /\ Undone!LimitsAssumption /\ Undone!NoneAssumption

AllInit ==
  /\ part \in {"page", "workspace", "connection", "history", "resume"}
  /\ Init
  /\ Desk!Init
  /\ Wire!Init
  /\ Undone!Init

\* Bound: a clock is set back where nothing is undone; an undo takes the replay's promise away.
UndoneOrSetBack == undos = 0 \/ stepsBack = 0

\* Bounds: the history is followed over every incident but saves nothing and repeats no lesson;
\* a session that is saved and resumed meets no incident.
TaughtOnce == \A l \in Undone!Lessons : s'.weights[l] <= 1
NoIncident == "incident" \notin Undone!Ids(s'.body)

AllNext ==
  /\ UNCHANGED part
  /\ \/ part = "page" /\ Next /\ UNCHANGED <<deskVars, wireVars, undoneVars>>
     \/ part = "workspace" /\ Desk!Next /\ UndoneOrSetBack' /\ UNCHANGED <<vars, wireVars, undoneVars>>
     \/ part = "connection" /\ Wire!Next /\ UNCHANGED <<vars, deskVars, undoneVars>>
     \/ /\ part = "history" /\ UNCHANGED <<saved, vars, deskVars, wireVars>>
        /\ Undone!Next /\ TaughtOnce
     \/ /\ part = "resume" /\ UNCHANGED <<vars, deskVars, wireVars>>
        /\ Undone!Next /\ NoIncident

allVars == <<part, vars, deskVars, wireVars, undoneVars>>
AllSpec == AllInit /\ [][AllNext]_allVars

-----------------------------------------------------------------------------
\* A reload restores the session (session.ts, useSessionRestore.ts): the log only grows unless a
\* restore failed, it replays to what the session came to unless the clock was set back between
\* its events, and then still measures no negative time (replayClock.ts), the strip has a step for
\* each one the core can undo, a body left behind by a hold has a tick coming, a suggestion is
\* offered once, and what the person taught survives.
ReloadRestores ==
  /\ [](part = "workspace" =>
          /\ Desk!RestoredIsTheSession /\ Desk!ReplayRunsForward /\ Desk!StripIsTheHistory
          /\ Desk!HeldMeansATickIsComing /\ Desk!OfferedOnce /\ Desk!NoLessonIsLost)
  /\ Desk!LogOnlyGrows

\* A body that follows a runtime shows it and says so (useRuntimeConnection, runtimeClient.ts): one
\* socket feeds it, none feeds a local one, it says it is connected only while its socket is open,
\* a client not yet given up has something under way, and once all is quiet what is shown is the
\* server's, but for the two ways it has of falling behind.
BodyIsTheServers == Wire!BodyIsTheServers

\* Each inverse has the morph it undoes beside it, within the ceilings of both stacks, and every
\* entry of either, taken in turn, restores the body it was pushed over (runtime-core).
StacksFit == Undone!StacksFit

\* A weight covers all that may still be handed back of it, taking a dismissal back is no lesson,
\* undo and redo together change nothing, and a click on a card that is gone does something only
\* when the newest step dismissed it (runtime-core).
LessonsBalance == Undone!LessonsBalance /\ Undone!StaleClickOnlyUndoesDismissal
=============================================================================
