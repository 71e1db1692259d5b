---------------------------- MODULE SessionLanes ----------------------------
(***************************************************************************)
(* The runtime's intake: one serial lane per session (SessionQueues in     *)
(* apps/runtime/src/queue.ts), the memory of what was already folded       *)
(* (SeenEvents in seen.ts) and the handler that joins them                 *)
(* (SessionRuntime.fold, submit and ingest in runtime.ts).                 *)
(*                                                                         *)
(* A channel hands the runtime copies of events, at least once and in any  *)
(* order.  A copy this session remembers is refused as a duplicate; any    *)
(* other is remembered and queued.  A full lane lets its oldest waiting    *)
(* event go, and the handler that was waiting for that event, when it      *)
(* learns of it in a later microtask, forgets the event again.             *)
(*                                                                         *)
(* What the loop does with an event is not modelled here: a run is one     *)
(* step that starts when the lane is pumped and ends whenever it likes,    *)
(* well or badly.                                                          *)
(*                                                                         *)
(* A definition written beside another one, and used by none, is that one  *)
(* with a plausible bug in it; PROJECT.json names the property that finds  *)
(* the bug.  The other modules follow the same convention.                 *)
(***************************************************************************)
EXTENDS Naturals, FiniteSets, Sequences, SequencesExt

CONSTANTS
  Sessions,       \* session names
  Events,         \* event ids the channel can carry
  SessionOf,      \* the session each event belongs to
  Tick,           \* the runtime's own reconcile event, which no channel carries
  NoJob,          \* an idle lane
  Limit,          \* SessionQueues.limit: how many may wait in one lane
  IdsPerSession,  \* SeenEvents.idsPerSession
  SeenSessions,   \* SeenEvents.sessions
  LossSessions,   \* MAX_REMEMBERED_DROPPING_SESSIONS
  Burst,          \* bound: further arrivals between a rejection and its handler hearing of it
  MaxTickets      \* bound: events one session's lane is handed

ASSUME ConstantsAssumption ==
  /\ SessionOf \in [Events -> Sessions]
  /\ Tick \notin Events
  /\ Limit \in Nat \ {0}          \* eventQueueMax refuses anything below 1
  /\ IdsPerSession \in Nat \ {0}
  /\ SeenSessions \in Nat \ {0}
  /\ LossSessions \in Nat \ {0}
  /\ Burst \in Nat
  /\ MaxTickets \in Nat

\* A job is an event with its place in the order its session was handed them.
Job == [event : Events \cup {Tick}, ticket : Nat \ {0}]
ASSUME NoJobAssumption == NoJob \notin Job

VARIABLES
  lanes,         \* session -> what waits and what runs; an empty idle lane is no lane
  lossOrder,     \* sessions in lossesBySession, least recently affected first
  losses,        \* lossesBySession's counts, 0 where there is no entry
  droppedTotal,
  seenOrder,     \* sessions in SeenEvents.bySession, longest without an event first
  seenIds,       \* the ids remembered for each session, oldest first
  unsettled,     \* rejected jobs whose handler has not run its catch yet
  tickets,       \* how many jobs each lane was handed               (history)
  settled,       \* the jobs that ran to their end, in that order    (history)
  lost,          \* the jobs let go at the ceiling                   (history)
  lapsed         \* events remembered when their session's memory was evicted (history)

laneVars == <<lanes, tickets, settled, lost>>
lossVars == <<lossOrder, losses, droppedTotal>>
seenVars == <<seenOrder, seenIds>>
vars == <<laneVars, lossVars, seenVars, unsettled, lapsed>>

Members(q) == {q[i] : i \in 1..Len(q)}
\* The keys of a Map, or what it remembers, less one: no key is there twice.
Without(q, x) ==
  IF x \in Members(q) THEN RemoveAt(q, CHOOSE i \in 1..Len(q) : q[i] = x) ELSE q
\* Deleting and re-inserting a Map key moves it to the end of the Map's order.
MovedToEnd(q, x) == Append(Without(q, x), x)

-----------------------------------------------------------------------------
(* SessionQueues *)

EmptyLane == [waiting |-> <<>>, running |-> NoJob]

\* pump: start the next job if nothing runs and something waits.
PumpedNewest(lane) ==
  IF lane.running = NoJob /\ lane.waiting # <<>>
  THEN [waiting |-> Front(lane.waiting), running |-> Last(lane.waiting)]
  ELSE lane
PumpedAlways(lane) ==
  IF lane.waiting # <<>>
  THEN [waiting |-> Tail(lane.waiting), running |-> Head(lane.waiting)]
  ELSE lane
Pumped(lane) ==
  IF lane.running = NoJob /\ lane.waiting # <<>>
  THEN [waiting |-> Tail(lane.waiting), running |-> Head(lane.waiting)]
  ELSE lane

Full(s) == Len(lanes[s].waiting) >= Limit

\* run: at the ceiling the oldest waiting job makes room for the new one.
Queued(s, job) ==
  LET waiting == IF Full(s) THEN Tail(lanes[s].waiting) ELSE lanes[s].waiting
  IN  [lanes EXCEPT ![s] = Pumped([@ EXCEPT !.waiting = Append(waiting, job)])]

\* remember: one more loss for s, in a map of at most LossSessions entries.
RememberEverySession(s) ==
  /\ lossOrder' = MovedToEnd(lossOrder, s)
  /\ losses' = [losses EXCEPT ![s] = @ + 1]
Remember(s) ==
  LET order  == MovedToEnd(lossOrder, s)
      counts == [losses EXCEPT ![s] = @ + 1]
  IN  IF Len(order) > LossSessions
      THEN /\ lossOrder' = Tail(order)
           /\ losses' = [counts EXCEPT ![Head(order)] = 0]
      ELSE /\ lossOrder' = order
           /\ losses' = counts

\* The job let go is rejected: a folded event has a handler that will want to
\* forget it, and nobody but a log line waits for a tick.
ToldEither(s, job) ==
  [unsettled EXCEPT ![s] = @ \cup {[event |-> job.event, at |-> tickets[s] + 1]}]
Told(s, job) ==
  IF job.event = Tick THEN unsettled
  ELSE [unsettled EXCEPT ![s] = @ \cup {[event |-> job.event, at |-> tickets[s] + 1]}]

\* submit: hand one event to its session's lane.
Submit(s, e) ==
  LET job    == [event |-> e, ticket |-> tickets[s] + 1]
      oldest == Head(lanes[s].waiting)
  IN  /\ tickets[s] < MaxTickets
      /\ \A u \in unsettled[s] : tickets[s] - u.at < Burst
      /\ tickets' = [tickets EXCEPT ![s] = @ + 1]
      /\ lanes' = Queued(s, job)
      /\ IF Full(s)
         THEN /\ Remember(s)
              /\ droppedTotal' = droppedTotal + 1
              /\ lost' = [lost EXCEPT ![s] = @ \cup {oldest}]
              /\ unsettled' = Told(s, oldest)
         ELSE UNCHANGED <<lossVars, lost, unsettled>>
      /\ UNCHANGED settled

-----------------------------------------------------------------------------
(* SeenEvents *)

Remembers(s, e) == e \in Members(seenIds[s])
KnownSession(s) == seenIds[s] # <<>>   \* a session with no ids left is deleted

\* evictSessions: to make room for one more session the stalest one goes.
Crowded(s) == ~KnownSession(s) /\ Len(seenOrder) >= SeenSessions

\* firstTime, for an id that is not remembered.
MarkNothing(s, e) == UNCHANGED <<seenVars, lapsed>>
Mark(s, e) ==
  LET ids == Append(seenIds[s], e)
      kept == IF Len(ids) > IdsPerSession THEN Tail(ids) ELSE ids
      stalest == Head(seenOrder)
  IN  IF Crowded(s)
      THEN /\ seenOrder' = Append(Tail(seenOrder), s)
           /\ seenIds' = [seenIds EXCEPT ![stalest] = <<>>, ![s] = kept]
           /\ lapsed' = lapsed \cup Members(seenIds[stalest])
      ELSE /\ seenOrder' = MovedToEnd(seenOrder, s)
           /\ seenIds' = [seenIds EXCEPT ![s] = kept]
           /\ UNCHANGED lapsed

-----------------------------------------------------------------------------
(* SessionRuntime *)

\* fold, first copy: remembered before the lane runs it.
FoldFresh(e) ==
  LET s == SessionOf[e]
  IN  /\ ~Remembers(s, e)
      /\ Mark(s, e)
      /\ Submit(s, e)

\* fold, a copy of something remembered: noteDuplicate, and nothing is queued.
FoldDuplicate(e) ==
  LET s == SessionOf[e]
  IN  /\ Remembers(s, e)
      /\ seenOrder' = MovedToEnd(seenOrder, s)
      /\ UNCHANGED <<laneVars, lossVars, seenIds, unsettled, lapsed>>

\* ingest: the reconcile timer's tick goes to the lane and past the memory.
IngestTick(s) == Submit(s, Tick) /\ UNCHANGED <<seenVars, lapsed>>

\* A run ends - its promise resolved or rejected, the lane cannot tell - and
\* the next job is pumped.
FinishAndRest(s) ==
  /\ lanes[s].running # NoJob
  /\ settled' = [settled EXCEPT ![s] = Append(@, lanes[s].running)]
  /\ lanes' = [lanes EXCEPT ![s].running = NoJob]
  /\ UNCHANGED <<tickets, lost, lossVars, seenVars, unsettled, lapsed>>
Finish(s) ==
  /\ lanes[s].running # NoJob
  /\ settled' = [settled EXCEPT ![s] = Append(@, lanes[s].running)]
  /\ lanes' = [lanes EXCEPT ![s] = Pumped([@ EXCEPT !.running = NoJob])]
  /\ UNCHANGED <<tickets, lost, lossVars, seenVars, unsettled, lapsed>>

\* fold's catch: the event was let go, so it is not remembered as folded.
ForgetNothing(s) ==
  \E u \in unsettled[s] :
    /\ unsettled' = [unsettled EXCEPT ![s] = @ \ {u}]
    /\ UNCHANGED <<laneVars, lossVars, seenVars, lapsed>>
Forget(s) ==
  \E u \in unsettled[s] :
    /\ unsettled' = [unsettled EXCEPT ![s] = @ \ {u}]
    /\ LET ids == Without(seenIds[s], u.event)
       IN  /\ seenIds' = [seenIds EXCEPT ![s] = ids]
           /\ seenOrder' = IF ids = <<>> THEN Without(seenOrder, s) ELSE seenOrder
    /\ UNCHANGED <<laneVars, lossVars, lapsed>>

Init ==
  /\ lanes = [s \in Sessions |-> EmptyLane]
  /\ lossOrder = <<>>
  /\ losses = [s \in Sessions |-> 0]
  /\ droppedTotal = 0
  /\ seenOrder = <<>>
  /\ seenIds = [s \in Sessions |-> <<>>]
  /\ unsettled = [s \in Sessions |-> {}]
  /\ tickets = [s \in Sessions |-> 0]
  /\ settled = [s \in Sessions |-> <<>>]
  /\ lost = [s \in Sessions |-> {}]
  /\ lapsed = {}

Next ==
  \/ \E e \in Events : FoldFresh(e) \/ FoldDuplicate(e)
  \/ \E s \in Sessions : IngestTick(s) \/ Finish(s) \/ Forget(s)

Spec == Init /\ [][Next]_vars

\* A run settles (assumed: only calls to a provider time out) and a rejection reaches
\* its handler; nothing obliges a sender to send.
Fairness == \A s \in Sessions : WF_vars(Finish(s)) /\ WF_vars(Forget(s))

FairSpec == Spec /\ Fairness

-----------------------------------------------------------------------------
(* Properties *)

TypeOK ==
  /\ lanes \in [Sessions -> [waiting : Seq(Job), running : Job \cup {NoJob}]]
  /\ lossOrder \in Seq(Sessions)
  /\ losses \in [Sessions -> Nat]
  /\ droppedTotal \in Nat
  /\ seenOrder \in Seq(Sessions)
  /\ seenIds \in [Sessions -> Seq(Events)]
  /\ unsettled \in [Sessions -> SUBSET [event : Events, at : Nat]]
  /\ tickets \in [Sessions -> Nat]
  /\ settled \in [Sessions -> Seq(Job)]
  /\ lost \in [Sessions -> SUBSET Job]
  /\ lapsed \subseteq Events

InHand(s) ==
  Members(lanes[s].waiting) \cup
  (IF lanes[s].running = NoJob THEN {} ELSE {lanes[s].running})

Held(e) == \E j \in InHand(SessionOf[e]) : j.event = e
Unsettled(e) == \E u \in unsettled[SessionOf[e]] : u.event = e
Settled(e) == \E j \in Members(settled[SessionOf[e]]) : j.event = e

\* Events of one session are run one at a time in the order they were handed
\* over, whatever was let go in between (queue.ts: "a session runs one at a
\* time, in the order it was handed them").
Ascending(q) == \A i, j \in 1..Len(q) : i < j => q[i].ticket < q[j].ticket
RunsInOrder ==
  \A s \in Sessions :
    LET run == settled[s]
        now == lanes[s].running
        q   == lanes[s].waiting
    IN  /\ Ascending(run)
        /\ Ascending(q)
        /\ now # NoJob =>
             /\ \A j \in Members(run) : j.ticket < now.ticket
             /\ \A j \in Members(q) : now.ticket < j.ticket

\* A lane with work in it is being worked on: no failure, drop or finish leaves
\* a session with events waiting and nobody running them (queue.ts, pump).
NoStalledLane ==
  \A s \in Sessions : lanes[s].running = NoJob => lanes[s].waiting = <<>>

\* The backlog never passes the ceiling the operator configured.
Bounded == \A s \in Sessions : Len(lanes[s].waiting) <= Limit

\* Every event handed to a lane is in exactly one place: run, running, waiting
\* or counted as lost.  None vanishes and none is both run and lost.
TicketsOf(jobs) == {j.ticket : j \in jobs}
NothingVanishes ==
  \A s \in Sessions :
    LET run == TicketsOf(Members(settled[s]))
        now == TicketsOf(InHand(s))
        out == TicketsOf(lost[s])
    IN  /\ run \cup now \cup out = 1..tickets[s]
        /\ run \cap now = {} /\ run \cap out = {} /\ now \cap out = {}

\* The numbers a sender is told are never more than the truth, and less only
\* for a session that a full map of losses forgot.
LossesAreTrue ==
  /\ \A s \in Sessions : losses[s] <= Cardinality(lost[s])
  /\ Len(lossOrder) <= LossSessions
  /\ (\E s \in Sessions : losses[s] < Cardinality(lost[s]))
        => Len(lossOrder) = LossSessions

\* What is refused as a duplicate was really taken: an id is remembered only
\* while its event is in hand, has been run, or was let go an instant ago.  So
\* an event that was let go is accepted again when the channel hands it back
\* (runtime.ts: "it is sending the only copy left").
RefusedWasTaken ==
  \A e \in Events :
    Remembers(SessionOf[e], e) => Held(e) \/ Settled(e) \/ Unsettled(e)

\* Two copies of an event are not both let through while the first is in hand
\* (runtime.ts:132), unless its session's whole memory was evicted under it.
Copies(e) == {j \in InHand(SessionOf[e]) : j.event = e}
OneCopyInHand == \A e \in Events : Cardinality(Copies(e)) > 1 => e \in lapsed

\* The same with no exception, as runtime.ts:132 words it.
OneCopyAtMost == \A e \in Events : Cardinality(Copies(e)) <= 1

\* What a sender may rely on, whatever the channel does (OnceOnly).  An event the runtime still
\* has on its hands - in its lane, or let go with the handler not yet told - is held; one it only
\* remembers was run.
Status ==
  [e \in Events |->
     IF Held(e) \/ Unsettled(e) THEN "held"
     ELSE IF Remembers(SessionOf[e], e) THEN "run" ELSE "out"]

Runs ==
  [e \in Events |->
     Cardinality({i \in DOMAIN settled[SessionOf[e]] : settled[SessionOf[e]][i].event = e})]

Promise == INSTANCE OnceOnly WITH status <- Status, runs <- Runs

\* The lanes keep that promise as long as no memory is pushed out: each step is one of OnceOnly,
\* or none (queue.ts, seen.ts and fold of runtime.ts).
KeepsThePromise == Promise!Spec

\* Every event handed to a lane is answered in the end: run, or told it was let
\* go and forgotten.  Nobody waits on a promise that never settles.
EveryoneIsAnswered ==
  \A s \in Sessions, n \in 1..MaxTickets :
    tickets[s] >= n ~>
      /\ n \in TicketsOf(Members(settled[s]) \cup lost[s])
      /\ unsettled[s] = {}
=============================================================================
