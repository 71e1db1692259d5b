------------------------------- MODULE MCLive -------------------------------
(***************************************************************************)
(* What must eventually happen, of each component on an instance as small  *)
(* as the question allows: a camera answers (Cameras, with its refinement  *)
(* of OnePicture), and whoever waits for a lane, a morph, a message, a     *)
(* stop, an ingest, a switch, a restore, a send, a reading, a report or a  *)
(* decision waits for an end.  One component moves in each behaviour, see  *)
(* MCIntake; fairness is asked of the component that moves and of nothing  *)
(* else.                                                                   *)
(***************************************************************************)
EXTENDS Cameras

CONSTANTS ReconcileTick, NoJob, OneShape, OtherShape

VARIABLES
  part,  \* the component that moves in this behaviour
  \* the lanes of one session
  lanes, lossOrder, losses, droppedTotal, seenOrder, seenIds, unsettled, tickets, settled,
  lost, lapsed,
  \* the body and its timer
  problem, shown, cooling, timer, waiting, running, sent,
  \* the channel
  topic, committed, pos, owner, members, phase, life, asked, hand, seen, channelLapsed,
  belief, code,
  folded, letGo, deaths, moves,
  \* the sessions of the core
  lru, coreLife, states, runs, arrived, answered,
  \* the body of a runtime
  mode, connected, switching, current, made, manual, attempts, wireTimer, socket, frames,
  wireAsked, wireShown, body, missed, overtaken,
  \* the body with its own core
  clock, core, replayAt, restoring, results, deskWaiting, events, strip, deskTimer,
  savedLog, savedMemory, deskMade, loads, failures, stepsBack, undos, outcomes, morphs,
  offers, excused,
  \* the queue of the desktop agent
  tests, branch, told, last, saving, checking, queue, dropped, alive, heard, said, stale,
  hidden, late, received, agentLetGo, handed, refused, unheard, gone, overdue, agentSeen, unread,
  agentFailures, restarts,
  \* the pictures of the desktop agent
  now, claimed, shots, screenCamera, disk, screenTold, screenWaiting, reading,
  screenDropped, screenUnread, readings,
  \* the content script
  bumps, count, reported, idle, idles, idleReported, looks, lastShape, away, aways, cycle, report,
  taken, refusals,
  \* the router
  env, request, chosen, turn, decision

laneVars == <<lanes, lossOrder, losses, droppedTotal, seenOrder, seenIds, unsettled,
              tickets, settled, lost, lapsed>>
bodyVars == <<problem, shown, cooling, timer, waiting, running, sent>>
brokerVars == <<topic, committed, pos, owner, members, phase, life, asked, hand, seen,
                channelLapsed, belief, code, folded, letGo, deaths, moves>>
coreVars == <<lru, coreLife, states, runs, arrived, answered>>
wireVars == <<mode, connected, switching, current, made, manual, attempts, wireTimer,
              socket, frames, wireAsked, wireShown, body, missed, overtaken>>
deskVars == <<clock, core, replayAt, restoring, results, deskWaiting, events, strip,
              deskTimer, savedLog, savedMemory, deskMade, loads, failures, stepsBack, undos,
              outcomes, morphs, offers, excused>>
agentVars == <<tests, branch, told, last, saving, checking, queue, dropped, alive, heard,
               said, stale, hidden, late, received, agentLetGo, handed, refused, unheard, gone, overdue,
               agentSeen, unread, agentFailures, restarts>>
screenVars == <<now, claimed, shots, screenCamera, disk, screenTold, screenWaiting, reading,
                screenDropped, screenUnread, readings>>
scriptVars == <<bumps, count, reported, idle, idles, idleReported, looks, lastShape, away, aways,
                cycle, report, taken, refusals>>
routerVars == <<env, request, chosen, turn, decision>>

Lanes == INSTANCE SessionLanes WITH
  Sessions <- {"s"}, Events <- 1..3, Tick <- ReconcileTick, SessionOf <- <<"s", "s", "s">>, Limit <- 2,
  IdsPerSession <- 5, SeenSessions <- 1, LossSessions <- 1, Burst <- 1, MaxTickets <- 4

Body == INSTANCE Reconcile WITH
  Limit <- 6, MaxEvents <- 4

Broker == INSTANCE Channel WITH
  Runtimes <- {"p"}, Sessions <- {"a"}, IdsPerSession <- 1, SeenSessions <- 1, MaxMessages <- 2,
  MaxLives <- 2, MaxDeaths <- 1, MaxMoves <- 0, Retries <- TRUE, lapsed <- channelLapsed

Stopped == INSTANCE Channel WITH
  Runtimes <- {"p"}, Sessions <- {"a"}, IdsPerSession <- 1, SeenSessions <- 1, MaxMessages <- 2,
  MaxLives <- 2, MaxDeaths <- 1, MaxMoves <- 0, Retries <- TRUE, lapsed <- channelLapsed

Core == INSTANCE CoreSessions WITH
  Sessions <- {"a", "b"}, MaxSessions <- 1, MaxEvents <- 2, MaxLives <- 0, life <- coreLife

Wire == INSTANCE Connection WITH
  MaxAttempts <- 2, MaxClients <- 2, MaxBodies <- 2, Embedded <- TRUE, Strict <- FALSE,
  timer <- wireTimer, asked <- wireAsked, shown <- wireShown

Desk == INSTANCE Workspace WITH
  Cooldown <- 2, Threshold <- 2, HistoryLimit <- 2, LogLimit <- 3, MaxEvents <- 3,
  MaxClock <- 1, MaxStepsBack <- 1, MaxUndos <- 0, MaxLoads <- 2, MaxFailures <- 1,
  waiting <- deskWaiting, timer <- deskTimer, made <- deskMade

Agent == INSTANCE AgentSends WITH
  MaxPending <- 2, Branches <- {"main", "topic"}, FirstBranch <- "main", MaxSeen <- 3,
  MaxUnread <- 0, MaxFailures <- 1, MaxLate <- 0, MaxLetGo <- 1, MaxRestarts <- 0,
  letGo <- agentLetGo, seen <- agentSeen, failures <- agentFailures

Screen == INSTANCE AgentScreen WITH
  Listed <- {"chat", "desk"}, Other <- "other", Interval <- 1, MaxWaiting <- 1, MaxShots <- 3,
  MaxTime <- 1, camera <- screenCamera, told <- screenTold, waiting <- screenWaiting,
  dropped <- screenDropped, unread <- screenUnread

Script == INSTANCE ContentScript WITH
  Absences <- {5, 60}, Shapes <- {OneShape, OtherShape}, MaxBumps <- 1, MaxAways <- 2, MaxLooks <- 1,
  MaxIdles <- 0, MaxRefusals <- 1

Router == INSTANCE Routing WITH
  Purposes <- [capability : {"reason.deep"}, privacy : {FALSE}]

\* The environment and the configuration of the components that do not move.
Unconfigured == [key |-> "absent", token |-> "absent", openai |-> "absent", local |-> FALSE, session |-> FALSE]
Plain == [enabled |-> FALSE, backend |-> "other", window |-> "big", usable |-> FALSE, password |-> FALSE]

ASSUME PartsAssumption ==
  /\ Lanes!ConstantsAssumption /\ Lanes!NoJobAssumption /\ Body!ReconcileAssumption
  /\ Core!CeilingAssumption /\ Wire!ConnectionAssumption /\ Desk!WorkspaceAssumption
  /\ Agent!AgentSendsAssumption /\ Screen!ScreenAssumption /\ Script!ContentScriptAssumption
  /\ Router!RoutingAssumption

AllInit ==
  /\ part \in {"camera", "lanes", "body", "delivery", "stopping", "core", "socket",
           "workspace", "sends", "screen", "page", "routing"}
  /\ Init /\ (part # "camera" => config = Plain)
  /\ Lanes!Init
  /\ Body!Init
  /\ IF part = "stopping" THEN Stopped!Init ELSE Broker!Init
  /\ Core!Init
  /\ Wire!Init
  /\ Desk!Init
  /\ Agent!Init
  /\ Screen!Init
  /\ Script!Init
  /\ Router!Init /\ (part # "routing" => env = Unconfigured)

AllNext ==
  /\ UNCHANGED part
  /\ \/ /\ part = "camera" /\ Next
        /\ UNCHANGED <<laneVars, bodyVars, brokerVars, coreVars, wireVars, deskVars,
                     agentVars, screenVars, scriptVars, routerVars>>
     \/ /\ part = "lanes" /\ Lanes!Next
        /\ UNCHANGED <<vars, bodyVars, brokerVars, coreVars, wireVars, deskVars, agentVars,
                     screenVars, scriptVars, routerVars>>
     \/ /\ part = "body" /\ Body!Next
        /\ UNCHANGED <<vars, laneVars, brokerVars, coreVars, wireVars, deskVars, agentVars,
                     screenVars, scriptVars, routerVars>>
     \/ /\ part = "delivery" /\ Broker!Next
        /\ UNCHANGED <<vars, laneVars, bodyVars, coreVars, wireVars, deskVars, agentVars,
                     screenVars, scriptVars, routerVars>>
     \/ /\ part = "stopping" /\ Stopped!Next
        /\ UNCHANGED <<vars, laneVars, bodyVars, coreVars, wireVars, deskVars, agentVars,
                     screenVars, scriptVars, routerVars>>
     \/ /\ part = "core" /\ Core!Next
        /\ UNCHANGED <<vars, laneVars, bodyVars, brokerVars, wireVars, deskVars, agentVars,
                     screenVars, scriptVars, routerVars>>
     \/ /\ part = "socket" /\ Wire!Next
        /\ UNCHANGED <<vars, laneVars, bodyVars, brokerVars, coreVars, deskVars, agentVars,
                     screenVars, scriptVars, routerVars>>
     \/ /\ part = "workspace" /\ Desk!Next
        /\ UNCHANGED <<vars, laneVars, bodyVars, brokerVars, coreVars, wireVars, agentVars,
                     screenVars, scriptVars, routerVars>>
     \/ /\ part = "sends" /\ Agent!Next
        /\ UNCHANGED <<vars, laneVars, bodyVars, brokerVars, coreVars, wireVars, deskVars,
                     screenVars, scriptVars, routerVars>>
     \/ /\ part = "screen" /\ Screen!Next
        /\ UNCHANGED <<vars, laneVars, bodyVars, brokerVars, coreVars, wireVars, deskVars,
                     agentVars, scriptVars, routerVars>>
     \/ /\ part = "page" /\ Script!Next
        /\ UNCHANGED <<vars, laneVars, bodyVars, brokerVars, coreVars, wireVars, deskVars,
                     agentVars, screenVars, routerVars>>
     \/ /\ part = "routing" /\ Router!Next
        /\ UNCHANGED <<vars, laneVars, bodyVars, brokerVars, coreVars, wireVars, deskVars,
                     agentVars, screenVars, scriptVars>>

allVars == <<part, vars, laneVars, bodyVars, brokerVars, coreVars, wireVars, deskVars,
  agentVars, screenVars, scriptVars, routerVars>>
AllSpec == AllInit /\ [][AllNext]_allVars
\* The fairness of each component, as its own module states it, while it is the one that moves.
Fairness ==
  /\ WF_vars(part = "camera" /\ NoCamera) /\ WF_vars(part = "camera" /\ Starts)
  /\ WF_vars(part = "camera" /\ Deadline)
  /\ WF_laneVars(part = "lanes" /\ Lanes!Finish("s")) /\ WF_laneVars(part = "lanes" /\ Lanes!Forget("s"))
  /\ WF_bodyVars(part = "body" /\ Body!Fold) /\ WF_bodyVars(part = "body" /\ Body!Judge)
  /\ WF_bodyVars(part = "body" /\ Body!Cool) /\ WF_bodyVars(part = "body" /\ Body!Fire)
  /\ WF_brokerVars(part = "delivery" /\ Broker!Deliver("p", "a"))
  /\ WF_brokerVars(part = "delivery" /\ (Broker!Fold("p") \/ Broker!FoldFails("p")))
  /\ WF_brokerVars(part = "stopping" /\ Stopped!EndAnyway("p"))
  /\ \A e \in 1..2 : WF_coreVars(part = "core" /\ Core!Step(e))
  /\ \A c \in 1..2 :
       /\ WF_wireVars(part = "socket" /\ Wire!Accepted(c)) /\ WF_wireVars(part = "socket" /\ Wire!Opens(c))
       /\ WF_wireVars(part = "socket" /\ Wire!Closed(c)) /\ WF_wireVars(part = "socket" /\ Wire!Reconnect(c))
  /\ WF_wireVars(part = "socket" /\ Wire!Answer)
  /\ WF_wireVars(part = "socket" /\ \E b \in BOOLEAN : Wire!GotUI(b))
  /\ WF_deskVars(part = "workspace" /\ Desk!Replay) /\ WF_deskVars(part = "workspace" /\ Desk!ReplayEnds)
  /\ WF_deskVars(part = "workspace" /\ Desk!LetThrough)
  /\ WF_agentVars(part = "sends" /\ Agent!Answered)
  /\ WF_screenVars(part = "screen" /\ Screen!Deadline) /\ WF_screenVars(part = "screen" /\ Screen!ReadFails)
  /\ WF_scriptVars(part = "page" /\ Script!Heard) /\ WF_scriptVars(part = "page" /\ Script!Tick)
  /\ WF_scriptVars(part = "page" /\ Script!Interaction) /\ WF_scriptVars(part = "page" /\ Script!Idle)
  /\ WF_scriptVars(part = "page" /\ Script!Away) /\ WF_scriptVars(part = "page" /\ Script!Page)
  /\ WF_routerVars(part = "routing" /\ Router!TimesOut) /\ WF_routerVars(part = "routing" /\ Router!MockAnswers)

AllFairSpec == AllSpec /\ Fairness

-----------------------------------------------------------------------------
\* In the runtime nobody waits for ever: an event a lane took is run or its handler hears that it
\* was let go (queue.ts), a morph held on timing is caught up (runtime.ts:356), while a process
\* stays up its messages are taken (kafka.ts), one told to stop ends (shutdown.ts), every ingest
\* is answered (runtime-core), and a provider that never answers is decided without (http.ts).
RuntimeComesToRest ==
  /\ Lanes!EveryoneIsAnswered /\ Body!CatchesUp
  /\ part = "delivery" => Broker!TopicDrains
  /\ part = "stopping" => Stopped!StopEnds
  /\ Core!EveryIngestIsAnswered /\ Router!EveryQuestionIsDecided

\* A body gets where it is going: a switch ends and leads to a connection, unless its client gave
\* up (useRuntimeConnection, runtimeClient.ts); a restore opens its gate, and what waited behind
\* it is folded or goes with its page (useSessionRestore.ts).
BodiesGetThere ==
  Wire!SwitchEnds /\ Wire!GetsThere /\ Desk!GateOpens /\ Desk!NothingWaitsForever

\* A sensor gets rid of what it has: whoever asks a camera is answered (capture.ts) and the camera
\* is free again, a picture is read or given up (createReadQueue), after a send the next gets its
\* turn (createSendQueue), and what a page's script noticed is reported (content.ts).
SensorsComeToRest ==
  /\ (part = "camera") ~> (answer # "none")
  /\ Agent!QueueDrains /\ Screen!EveryPictureIsLookedAt /\ Screen!CameraIsFreed
  /\ part = "page" => Script!EverythingIsReported
=============================================================================
