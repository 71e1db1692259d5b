------------------------------- MODULE Channel -------------------------------
(***************************************************************************)
(* Runtimes behind a broker: KafkaEventBus (packages/event-bus/src/        *)
(* kafka.ts), what the loop remembers having folded (apps/runtime/src/     *)
(* seen.ts, runtime.ts) and how a process is stopped (shutdown.ts). A      *)
(* session is a partition: it is the key of its messages. The broker       *)
(* itself, its group, its offsets and its rebalances, is external.         *)
(***************************************************************************)
EXTENDS Naturals, Sequences, SequencesExt

CONSTANTS
  Runtimes, Sessions,
  IdsPerSession, \* SeenEvents: idsPerSession
  SeenSessions,  \* SeenEvents: sessions
  None,          \* no offset, no owner, no exit code
  MaxMessages,   \* bound: messages on a partition
  MaxLives,      \* bound: times a process is started
  MaxDeaths,     \* bound: processes that crash
  MaxMoves,      \* bound: rebalances that no join or leave asked for
  Retries        \* whether a sender or the producer may send an event again

\* No offset, no owner and no exit code is none of what there may be.
ChannelAssumption ==
  /\ IdsPerSession \in Nat \ {0} /\ SeenSessions \in Nat \ {0}
  /\ None \notin Nat \cup (Runtimes \X Nat)
  /\ MaxMessages \in Nat /\ MaxLives \in Nat /\ MaxDeaths \in Nat /\ MaxMoves \in Nat
  /\ Retries \in BOOLEAN

Idle == <<>>

VARIABLES
  topic,      \* the messages of each partition: the number of an event, or 0 for what is none
  committed,  \* the offsets the group has committed; none until the first commit
  pos,        \* how many messages the member that has the partition took
  owner,      \* the member each partition is given to
  members,    \* who the broker counts as in the group: processes with the number of their life
  phase,      \* where each process is
  life,       \* how often each process was started
  asked,      \* the members the broker named when the process asked
  hand,       \* the message each process folds: its session and offset, or nothing
  seen,       \* SeenEvents of each process
  lapsed,     \* what its bounds made each process forget in this life       (history)
  belief,     \* what each process folded in this life, in order
  code,       \* the exit code of each process that ended
  folded,     \* every message folded by any life, with the life
  letGo,      \* events a lane let go
  deaths,     \* processes that ended without closing
  moves       \* rebalances
vars == <<topic, committed, pos, owner, members, phase, life, asked, hand, seen, lapsed, belief,
          code, folded, letGo, deaths, moves>>

Me(r) == <<r, life[r]>>
Joined(r) == Me(r) \in members
Mine(r) == {s \in Sessions : owner[s] = Me(r)}
\* Where a partition is read from: what was committed, or else from here on.
From(s) == IF committed[s] = None THEN Len(topic[s]) ELSE committed[s]

-----------------------------------------------------------------------------
(* The broker.                                                             *)

\* A rebalance gives every partition to some member; the live ones commit what they took.
Rebalanced(who, offsets) ==
  \E to \in [Sessions -> who \cup {None}] :
    /\ \A s \in Sessions : (to[s] = None) = (who = {})
    /\ owner' = to
    /\ committed' = offsets
    /\ pos' = [s \in Sessions |-> IF to[s] = owner[s] THEN pos[s]
                                  ELSE IF offsets[s] = None THEN Len(topic[s]) ELSE offsets[s]]

\* publish(): keyed by the session. What is written by anyone else may be no event at all.
Publish(s) ==
  /\ Len(topic[s]) < MaxMessages
  /\ \E e \in {0, Len(topic[s]) + 1} \cup (IF Retries THEN ToSet(topic[s]) ELSE {}) :
       topic' = [topic EXCEPT ![s] = Append(@, e)]
  /\ \E r \in Runtimes : phase[r] \in {"started", "asked", "up"}
  /\ UNCHANGED <<committed, pos, owner, members, phase, life, asked, hand, seen, lapsed, belief,
                 code, folded, letGo, deaths, moves>>

Commit(r, s) ==
  /\ phase[r] = "up" /\ owner[s] = Me(r) /\ committed[s] # pos[s]
  /\ committed' = [committed EXCEPT ![s] = pos[s]]
  /\ UNCHANGED <<topic, pos, owner, members, phase, life, asked, hand, seen, lapsed, belief,
                 code, folded, letGo, deaths, moves>>

Move ==
  /\ moves < MaxMoves /\ \E m, n \in members : m # n
  /\ Rebalanced(members, committed)
  /\ moves' = moves + 1
  /\ UNCHANGED <<topic, members, phase, life, asked, hand, seen, lapsed, belief, code, folded, letGo, deaths>>

\* The broker gives up on a member whose process is gone.
Expire(m) ==
  /\ m \in members /\ (phase[m[1]] = "down" \/ life[m[1]] # m[2])
  /\ members' = members \ {m}
  /\ Rebalanced(members', committed)
  /\ UNCHANGED <<topic, phase, life, asked, hand, seen, lapsed, belief, code, folded, letGo, deaths, moves>>

-----------------------------------------------------------------------------
(* SeenEvents: the sessions, longest without an event first, and the ids of each, oldest first. *)

NothingSeen == [order |-> <<>>, ids |-> [s \in Sessions |-> <<>>]]
Remembered(m) == UNION {{<<s, e>> : e \in ToSet(m.ids[s])} : s \in Sessions}

Without(q, x) == IF x \in ToSet(q) THEN RemoveAt(q, CHOOSE i \in 1..Len(q) : q[i] = x) ELSE q
MovedToEnd(q, x) == Append(Without(q, x), x)

\* evictSessions(): the stalest session makes room for one that is not known.
RoomFor(m, s) ==
  IF m.ids[s] # <<>> \/ Len(m.order) < SeenSessions THEN m
  ELSE [order |-> Tail(m.order), ids |-> [m.ids EXCEPT ![Head(m.order)] = <<>>]]

\* firstTime(): asking is also remembering, and within a session the oldest id makes room.
FirstTime(r, s, e) == e \notin ToSet(seen[r].ids[s])
Asked(m, s) == [m EXCEPT !.order = MovedToEnd(@, s)]
Bounded(q) == IF Len(q) > IdsPerSession THEN Tail(q) ELSE q
Marked(m, s, e) ==
  LET room == RoomFor(m, s)
  IN  [Asked(room, s) EXCEPT !.ids = [room.ids EXCEPT ![s] = Bounded(Append(@, e))]]

\* forget(): a session none of whose ids are left goes as well.
Forgotten(m, s, e) ==
  LET left == Without(m.ids[s], e)
  IN  [order |-> IF left = <<>> THEN Without(m.order, s) ELSE m.order,
       ids |-> [m.ids EXCEPT ![s] = left]]

-----------------------------------------------------------------------------
(* The process.                                                            *)

\* start(): connected, and the topic is there. A start that fails leaves the process as it was.
Start(r) ==
  /\ phase[r] = "down" /\ life[r] < MaxLives
  /\ life' = [life EXCEPT ![r] = @ + 1]
  /\ phase' = [phase EXCEPT ![r] = "started"]
  /\ seen' = [seen EXCEPT ![r] = NothingSeen] /\ lapsed' = [lapsed EXCEPT ![r] = {}]
  /\ belief' = [belief EXCEPT ![r] = <<>>]
  /\ code' = [code EXCEPT ![r] = None]
  /\ UNCHANGED <<topic, committed, pos, owner, members, asked, hand, folded, letGo, deaths, moves>>

Refuses(who) == who # {}

\* refuseASecondRuntime(): the members it is told of; none when the broker will not say.
Ask(r) ==
  /\ phase[r] = "started"
  /\ \E named \in {members, {}} :
       IF Refuses(named)
         THEN /\ phase' = [phase EXCEPT ![r] = "down"] /\ code' = [code EXCEPT ![r] = 1]
              /\ UNCHANGED asked
         ELSE /\ phase' = [phase EXCEPT ![r] = "asked"] /\ asked' = [asked EXCEPT ![r] = named]
              /\ UNCHANGED code
  /\ UNCHANGED <<topic, committed, pos, owner, members, life, hand, seen, lapsed, belief,
                 folded, letGo, deaths, moves>>

Join(r) ==
  /\ phase[r] = "asked"
  /\ phase' = [phase EXCEPT ![r] = "up"]
  /\ members' = members \cup {Me(r)}
  /\ Rebalanced(members', committed)
  /\ UNCHANGED <<topic, life, asked, hand, seen, lapsed, belief, code, folded, letGo, deaths, moves>>

Taken(s) == pos' = [pos EXCEPT ![s] = @ + 1]

\* deliver(): refused when it is no event, let go when it was folded, handed to the loop else.
Deliver(r, s) ==
  /\ phase[r] = "up" /\ owner[s] = Me(r) /\ hand[r] = Idle /\ pos[s] < Len(topic[s])
  /\ LET e == topic[s][pos[s] + 1]
     IN  IF e = 0
           THEN Taken(s) /\ UNCHANGED <<hand, seen, lapsed>>
         ELSE IF FirstTime(r, s, e)
           THEN /\ hand' = [hand EXCEPT ![r] = <<s, pos[s] + 1>>]
                /\ seen' = [seen EXCEPT ![r] = Marked(@, s, e)]
                /\ lapsed' = [lapsed EXCEPT ![r] = @ \cup (Remembered(seen[r]) \ Remembered(seen'[r]))]
                /\ UNCHANGED pos
           ELSE Taken(s) /\ seen' = [seen EXCEPT ![r] = Asked(@, s)] /\ UNCHANGED <<hand, lapsed>>
  /\ UNCHANGED <<topic, committed, owner, members, phase, life, asked, belief, code,
                 folded, letGo, deaths, moves>>

\* The handler is done, and the message was delivered whatever became of it.
Answered(r, ok) ==
  /\ hand' = [hand EXCEPT ![r] = Idle]
  /\ IF owner[hand[r][1]] = Me(r) /\ pos[hand[r][1]] + 1 = hand[r][2]
       THEN Taken(hand[r][1]) ELSE UNCHANGED pos

Event(r) == <<hand[r][1], topic[hand[r][1]][hand[r][2]]>>

\* fold(): the lane ran it; or failed; or let it go, and it is forgotten again.
Fold(r) ==
  /\ phase[r] \in {"up", "closing"} /\ hand[r] # Idle
  /\ Answered(r, TRUE)
  /\ belief' = [belief EXCEPT ![r] = Append(@, <<hand[r], Event(r)>>)]
  /\ folded' = folded \cup {<<hand[r], Me(r)>>}
  /\ UNCHANGED <<topic, committed, owner, members, phase, life, asked, seen, lapsed, code, letGo,
                 deaths, moves>>
FoldFails(r) ==
  /\ phase[r] \in {"up", "closing"} /\ hand[r] # Idle
  /\ Answered(r, FALSE)
  /\ \/ UNCHANGED <<seen, letGo>>
     \/ /\ seen' = [seen EXCEPT ![r] = Forgotten(@, Event(r)[1], Event(r)[2])]
        /\ letGo' = letGo \cup {Event(r)}
  /\ UNCHANGED <<topic, committed, owner, members, phase, life, asked, lapsed, belief, code, folded,
                 deaths, moves>>

-----------------------------------------------------------------------------
(* Stopping.                                                               *)

\* A signal: nothing is published any more, nothing more is taken, and the close begins.
Stop(r) ==
  /\ phase[r] = "up"
  /\ phase' = [phase EXCEPT ![r] = "closing"]
  /\ UNCHANGED <<topic, committed, pos, owner, members, life, asked, hand, seen, lapsed, belief,
                 code, folded, letGo, deaths, moves>>

Ended(r, with) ==
  /\ phase' = [phase EXCEPT ![r] = "down"]
  /\ code' = [code EXCEPT ![r] = with]
  /\ hand' = [hand EXCEPT ![r] = Idle]
  /\ UNCHANGED <<topic, life, asked, seen, lapsed, belief, folded, letGo, moves>>

\* Mutant: what was folded since the last commit stays uncommitted.
OffsetsAsTheyWere(r) == committed
Offsets(r) == [s \in Sessions |-> IF s \in Mine(r) THEN pos[s] ELSE committed[s]]
\* disconnectAll(): the consumer finished its fold, commits and leaves the group.
CloseDone(r) ==
  /\ phase[r] = "closing" /\ hand[r] = Idle
  /\ members' = members \ {Me(r)}
  /\ Rebalanced(members', Offsets(r))
  /\ Ended(r, 0)
  /\ UNCHANGED deaths

Gone(r) ==
  /\ Ended(r, 1)
  /\ UNCHANGED <<committed, pos, owner, members>>
Deadline(r) == phase[r] = "closing"
\* The deadline, a second signal, or an end that would not disconnect: the process ends anyway.
EndAnyway(r) == Deadline(r) /\ Gone(r) /\ deaths' = deaths + 1
Crash(r) == deaths < MaxDeaths /\ phase[r] # "down" /\ Gone(r) /\ deaths' = deaths + 1

Init ==
  /\ topic = [s \in Sessions |-> <<>>] /\ committed = [s \in Sessions |-> None]
  /\ pos = [s \in Sessions |-> 0] /\ owner = [s \in Sessions |-> None] /\ members = {}
  /\ phase = [r \in Runtimes |-> "down"] /\ life = [r \in Runtimes |-> 0]
  /\ asked = [r \in Runtimes |-> {}] /\ hand = [r \in Runtimes |-> Idle]
  /\ seen = [r \in Runtimes |-> NothingSeen] /\ lapsed = [r \in Runtimes |-> {}]
  /\ belief = [r \in Runtimes |-> <<>>]
  /\ code = [r \in Runtimes |-> None]
  /\ folded = {} /\ letGo = {} /\ deaths = 0 /\ moves = 0

Consume(r) == (\E s \in Sessions : Deliver(r, s)) \/ Fold(r) \/ FoldFails(r)
Next ==
  \/ \E s \in Sessions : Publish(s)
  \/ \E r \in Runtimes :
       \/ Start(r) \/ Ask(r) \/ Join(r) \/ Stop(r) \/ CloseDone(r) \/ EndAnyway(r) \/ Crash(r)
       \/ Consume(r) \/ \E s \in Sessions : Commit(r, s)
  \/ \E m \in members : Expire(m)
  \/ Move
Spec == Init /\ [][Next]_vars
\* A broker hands over what is there, and a lane answers (SessionLanes).
LiveSpec == Spec /\ \A r \in Runtimes :
  /\ \A s \in Sessions : WF_vars(Deliver(r, s))
  /\ WF_vars(Fold(r) \/ FoldFails(r))
\* All that is sure of a stop is its own timer: not the broker, and not the fold.
StopSpec == Spec /\ \A r \in Runtimes : WF_vars(EndAnyway(r))

-----------------------------------------------------------------------------
(* What the channel promises to the belief, the sender and the operator. *)

\* An event is folded into one belief once, however often it is sent, handed over or moved away
\* and back, unless it is older than the memory of events that is kept (runtime.ts, fold; seen.ts,
\* "an event older than its memory folds it again").
OnceInALife ==
  \A r \in Runtimes : \A i, j \in DOMAIN belief[r] :
    belief[r][i][2] = belief[r][j][2] /\ belief[r][i][2] \notin lapsed[r] => i = j

\* A belief is built in the order of the partition, but for what a lane had let go and what the
\* memory no longer held (kafka.ts, publish: "the only place a broker promises an order").
InTopicOrder ==
  \A r \in Runtimes : \A i, j \in DOMAIN belief[r] :
    LET m == belief[r][i] n == belief[r][j]
    IN  i < j /\ m[1][1] = n[1][1] /\ {m[2], n[2]} \cap (letGo \cup lapsed[r]) = {} => m[1][2] < n[1][2]

\* One process is all that was ever started, as refuseASecondRuntime means it to be.
OneProcess == \E r \in Runtimes : \A q \in Runtimes \ {r} : life[q] = 0

\* Lives of one process that all close in time never fold a message a second time between them
\* (shutdown.ts).
CleanStopsRefoldNothing ==
  OneProcess /\ deaths = 0 => \A f, g \in folded : f[1] = g[1] => f = g

\* A process that ended with 0 has left the group, and committed all it folded unless a rebalance
\* took a partition from it: another process had it, a move, or one of two dead members.
CleanExitLeftNothing ==
  \A r \in Runtimes : code[r] = 0 =>
    /\ Me(r) \notin members
    /\ OneProcess /\ moves = 0 /\ deaths < 2 =>
         \A f \in folded : f[2] = Me(r) =>
           committed[f[1][1]] # None /\ f[1][2] <= committed[f[1][1]]

\* Two processes share the group only when the broker named neither to the other: both asked before
\* either joined, or were told nothing (kafka.ts, refuseASecondRuntime: a guard, not a lock).
SecondIsRefused ==
  \A r, q \in Runtimes : r # q /\ Joined(r) /\ Joined(q) => Me(q) \notin asked[r]

\* A process told to stop ends, whatever its fold or the broker does (shutdown.ts).
StopEnds == \A r \in Runtimes : phase[r] = "closing" ~> phase[r] = "down"

\* While one process stays up every message is taken, whatever the loop answers (kafka.ts, deliver).
TopicDrains ==
  \A s \in Sessions : \A i \in 1..MaxMessages :
    (Len(topic[s]) >= i /\ \E r \in Runtimes : owner[s] = Me(r) /\ phase[r] = "up")
      ~> (pos[s] >= i \/ \A r \in Runtimes : owner[s] # Me(r) \/ phase[r] # "up")
=============================================================================
