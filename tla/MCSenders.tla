----------------------------- MODULE MCSenders ------------------------------
(***************************************************************************)
(* The senses that send: the desktop agent's transitions and its queue     *)
(* (AgentSends), the worker of the browser extension with its consent      *)
(* (BrowserSensor), and which of its network observations it sends         *)
(* (NetworkShaper); and the broker that carries events to one process that *)
(* is restarted or serves two sessions, and to two at once (Channel).  One *)
(* component moves in each behaviour, see MCIntake.                        *)
(***************************************************************************)
EXTENDS AgentSends

CONSTANTS
  Browsing, Page, Failed, Tabs, MaxChanges, MaxEvents, MaxWakes, MaxUnanswered,   \* of BrowserSensor
  Runtimes, Sessions, IdsPerSession, SeenSessions, MaxMessages, MaxLives, MaxDeaths, MaxMoves, Retries,   \* of Channel
  First                   \* the runtime that moves alone

VARIABLES
  part,  \* the component that moves in this behaviour
  \* the worker of the extension
  stored, form, chosen, changes, life, consent, reads, workerNotices, missed, held, returns,
  outbox, unsaid, workerSaid, shown, strays, script, wakes, workerFailures, observed,
  \* the network observations
  now, failing, lastFailureAt, lastSampleAt, sent, lives, up,
  \* the channel
  topic, committed, pos, owner, members, phase, processLife, processAsked, hand, seenBy,
  lapsed, belief, code, folded, channelLetGo, deaths, moves

workerVars == <<stored, form, chosen, changes, life, consent, reads, workerNotices, missed,
                held, returns, outbox, unsaid, workerSaid, shown, strays, script, wakes,
                workerFailures, observed>>
shaperVars == <<now, failing, lastFailureAt, lastSampleAt, sent, lives, up>>

brokerVars == <<topic, committed, pos, owner, members, phase, processLife, processAsked,
                hand, seenBy, lapsed, belief, code, folded, channelLetGo, deaths, moves>>

Worker == INSTANCE BrowserSensor WITH
  MaxFailures <- MaxUnanswered,
  notices <- workerNotices, said <- workerSaid, failures <- workerFailures

Shaper == INSTANCE NetworkShaper WITH
  Hosts <- {"h1", "h2"}, Cooldown <- 2, Sample <- 2, MaxHosts <- 1, MaxTime <- 3,
  MaxLives <- 2, MaxSent <- 4

Broker == INSTANCE Channel WITH
  life <- processLife, asked <- processAsked, seen <- seenBy, letGo <- channelLetGo

\* Several that meet have one partition, and room in their memories for all there is on it, or not.
Pair == INSTANCE Channel WITH
  Sessions <- {"a"}, IdsPerSession <- 2,
  life <- processLife, asked <- processAsked, seen <- seenBy, letGo <- channelLetGo
Forgetful == INSTANCE Channel WITH
  Sessions <- {"a"}, IdsPerSession <- 1, MaxMoves <- 1,
  life <- processLife, asked <- processAsked, seen <- seenBy, letGo <- channelLetGo

\* What bounds the channel of one process that is restarted, or serves two partitions in its one
\* life, and that of several that meet.
Alone ==
  /\ moves = 0 /\ \A r \in Runtimes \ {First} : processLife[r] = 0
  /\ \A s \in Sessions : \/ \A z \in Sessions \ {s} : topic[z] = <<>>
                         \/ processLife[First] <= 1 /\ Len(topic[s]) < MaxMessages
Meeting == Len(topic["a"]) <= 2 /\ \A r \in Runtimes : processLife[r] <= 1

ASSUME PartsAssumption ==
  Worker!BrowserSensorAssumption /\ Shaper!NetworkShaperAssumption /\ Broker!ChannelAssumption
  /\ Pair!ChannelAssumption /\ Forgetful!ChannelAssumption

AllInit ==
  /\ part \in {"agent", "worker", "network", "channel", "pair", "forgetful"}
  /\ Init
  /\ Worker!Init
  /\ Shaper!Init
  /\ IF part \in {"pair", "forgetful"} THEN Pair!Init ELSE Broker!Init

AllNext ==
  /\ UNCHANGED part
  /\ \/ part = "agent" /\ Next /\ UNCHANGED <<workerVars, shaperVars, brokerVars>>
     \/ part = "worker" /\ Worker!Next /\ UNCHANGED <<vars, shaperVars, brokerVars>>
     \/ part = "network" /\ Shaper!Next /\ UNCHANGED <<vars, workerVars, brokerVars>>
     \/ part = "channel" /\ Broker!Next /\ Alone' /\ UNCHANGED <<vars, workerVars, shaperVars>>
     \/ part = "pair" /\ Pair!Next /\ Meeting' /\ UNCHANGED <<vars, workerVars, shaperVars>>
     \/ part = "forgetful" /\ Forgetful!Next /\ Meeting' /\ UNCHANGED <<vars, workerVars, shaperVars>>

allVars == <<part, vars, workerVars, shaperVars, brokerVars>>
AllSpec == AllInit /\ [][AllNext]_allVars

-----------------------------------------------------------------------------
\* Consent is followed: a worker or a page's script that has heard of everything observes what
\* storage says, or nothing; the worker observes what it last declared, and nothing it sends
\* overtakes the declaration that covers it, but for a return to a window that was allowed before
\* and what follows a declaration dropped at the queue's ceiling (background.ts, content.ts).
ConsentIsFollowed ==
  part = "worker" => /\ Worker!SettledConsentIsTheChoice /\ Worker!ScriptKeepsToTheChoice
                     /\ Worker!ObservesWhatItDeclared /\ Worker!DeclaredBeforeItIsSent

\* Outages are told: what is remembered as failing is what the runtime was last told is failing,
\* any answer that is no error ends an outage, and the next one is reported at once
\* (NetworkShaper).
OutagesAreTold ==
  [](part = "network" => Shaper!FailingAsTold /\ Shaper!AnsweringIsNotFailing) /\ Shaper!NextOutageIsReported

\* From the broker to the belief nothing that the memory of events still holds is folded twice in a
\* life or out of the order of its partition (kafka.ts, seen.ts), two share a group only if the
\* broker named neither (kafka.ts), and a process alone that closes in time folds nothing twice and
\* leaves nothing behind (shutdown.ts).
DeliveredOnceInOrder ==
  /\ Broker!OnceInALife /\ Broker!InTopicOrder /\ Broker!SecondIsRefused
  /\ Broker!CleanStopsRefoldNothing /\ Broker!CleanExitLeftNothing
=============================================================================
