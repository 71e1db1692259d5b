----------------------------- MODULE MCRuntime ------------------------------
(***************************************************************************)
(* What the runtime keeps of its sessions: the sessions of the core and    *)
(* the ingests chained on them (CoreSessions), the snapshots it saves over *)
(* a pool of connections (Snapshots), what a session has learned (Memory), *)
(* and the bounded logs in memory (Logs).  One component moves in each     *)
(* behaviour, see MCIntake.                                                *)
(***************************************************************************)
EXTENDS CoreSessions

CONSTANTS
  Lane, Reversers, Connections, MaxSteps, MaxStarts, MaxFailures   \* of Snapshots; MaxStarts is its MaxLives

VARIABLES
  part,  \* the component that moves in this behaviour
  \* the snapshots
  poolLife, step, reversals, taught, body, lessons, reversible, saver, issued, rows, lastId,
  found, failures, missed, overtaken,
  \* the memory
  weights, counts, snapshot, unsaved, steps, mindLife, standing, redoable, earned, squeezed,
  offers, pushedOut, cutShort, resumed,
  \* the logs in memory
  written, since, order, log, held, traceOrder, traces, saveOrder, saves, events, index

poolVars == <<poolLife, step, reversals, taught, body, lessons, reversible, saver, issued,
              rows, lastId, found, failures, missed, overtaken>>
mindVars == <<weights, counts, snapshot, unsaved, steps, mindLife, standing, redoable,
              earned, squeezed, offers, pushedOut, cutShort, resumed>>
ringVars == <<written, since, order, log, held, traceOrder, traces, saveOrder, saves,
              events, index>>

Pool == INSTANCE Snapshots WITH
  MaxLives <- MaxStarts, life <- poolLife

Mind == INSTANCE Memory WITH
  MaxPreferences <- 2, MaxPatterns <- 1, MaxWeight <- 2, Threshold <- 2, Situations <- {1, 2},
  MaxSteps <- 5, MaxLives <- 2, life <- mindLife

Ring == INSTANCE Logs WITH
  Sessions <- 1..3, Kinds <- {"ui", "memory"}, PerSession <- 3, MaxSessions <- 2, Limit <- 4,
  MaxWrites <- 7

\* Situations differ in nothing but their names, and neither do the sessions of the logs: the
\* first learned of is 1, and sessions are named in the order in which they are first written.
FirstIsLearnedFirst == steps = 1 => \A k \in {"morph", "dismissed"} : earned[<<k, 2>>] = 0
NamedInTurn ==
  LET named == {written[i].session : i \in DOMAIN written}
  IN  \A s \in named : 1..s \subseteq named

ASSUME PartsAssumption ==
  Pool!SnapshotsAssumption /\ Mind!MemoryAssumption /\ Ring!LogsAssumption

AllInit ==
  /\ part \in {"core", "snapshots", "failures", "memory", "logs"}
  /\ Init
  /\ Pool!Init
  /\ Mind!Init
  /\ Ring!Init

AllNext ==
  /\ UNCHANGED part
  /\ \/ part = "core" /\ Next /\ UNCHANGED <<poolVars, mindVars, ringVars>>
     \/ part = "snapshots" /\ Pool!Next /\ failures' = 0 /\ UNCHANGED <<vars, mindVars, ringVars>>
     \/ part = "failures" /\ Pool!Next /\ poolLife' = 1 /\ ~overtaken' /\ UNCHANGED <<vars, mindVars, ringVars>>
     \/ /\ part = "memory" /\ Mind!Next /\ FirstIsLearnedFirst'
        /\ UNCHANGED <<vars, poolVars, ringVars>>
     \/ part = "logs" /\ Ring!Next /\ NamedInTurn' /\ UNCHANGED <<vars, poolVars, mindVars>>

allVars == <<part, vars, poolVars, mindVars, ringVars>>
AllSpec == AllInit /\ [][AllNext]_allVars

-----------------------------------------------------------------------------
\* Overlapping savers leave one row of each kind, and never take away the row a resume would read
\* (pg.ts); and until the pool runs a statement before one it was handed earlier, a reversal's body
\* never stands without its lesson, and a resume never shows what was taken back (runtime.ts,
\* persistReversal; docs/STATUS.md:132).
SnapshotsAgree ==
  /\ [](part \in {"snapshots", "failures"} =>
         /\ Pool!OneRowPerKind
         /\ ~overtaken => Pool!LessonIsKept /\ Pool!UndoneStaysUndone)
  /\ Pool!NewestIsKept

\* A preference weighs what it was taught and not handed back, and a pattern is offered once for
\* each mark that was lost (packages/memory), over ceilings, crashes and resumes.
MemoryAddsUp == part = "memory" => Mind!LessonsAddUp /\ Mind!OfferedOnce

\* The bounded stores agree: a quiet session keeps its share of the log (InMemoryEventLogStore),
\* one written to lately has its traces and snapshots (TraceStore), and the index of the events
\* is their log, read session by session (EventStore.append).
LogsAgree ==
  part = "logs" => Ring!QuietSessionsAreKept /\ Ring!RecentSessionsComeBack /\ Ring!IndexIsTheLog
=============================================================================
