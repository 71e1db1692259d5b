----------------------------- MODULE CoreSessions -----------------------------
(***************************************************************************)
(* The sessions of a RuntimeCore (packages/runtime-core/src/index.ts): a   *)
(* bounded map in the order of last use, and the ingests that are chained  *)
(* on a session's queue. A run binds the session when it begins, awaits    *)
(* the brain and the capabilities, and goes on with what it bound; every   *)
(* audit record asks for the session by its name again, and so can bring   *)
(* back one that made room meanwhile. A session that comes back is a new   *)
(* life of it: its key is its name and the number of that life.            *)
(***************************************************************************)
EXTENDS Naturals, Sequences, SequencesExt

CONSTANTS
  Sessions,     \* the names events may carry
  MaxSessions,  \* MAX_SESSIONS
  MaxEvents,    \* bound: events that arrive
  MaxLives      \* bound: lives begun by a touch from outside the loop

ASSUME CeilingAssumption == MaxSessions \in Nat \ {0}

VARIABLES
  lru,       \* sessions: names, the one used longest ago first
  life,      \* the number of the last life of each name
  states,    \* what each life holds: the events folded, the queue, and whether it was hydrated
  runs,      \* runIngests that await something
  arrived,   \* events that arrived, with the names they carry
  answered   \* the events whose ingest was answered
vars == <<lru, life, states, runs, arrived, answered>>

Key(id) == <<id, life[id]>>
Fresh == [folded |-> <<>>, queue |-> <<>>, hydrated |-> FALSE]

Dequeued(held, k) == [held EXCEPT ![k].queue = Tail(@)]

\* session(): the name becomes the last one used; a new one takes the room of the oldest.
Known(id) == Contains(lru, id)
Kept == IF Len(lru) < MaxSessions THEN lru
        ELSE SubSeq(lru, Len(lru) - MaxSessions + 2, Len(lru))
Session(id) ==
  /\ lru' = IF Known(id) THEN Append(Remove(lru, id), id) ELSE Append(Kept, id)
  /\ life' = IF Known(id) THEN life ELSE [life EXCEPT ![id] = @ + 1]
States(id) == IF Known(id) THEN states
              ELSE [k \in DOMAIN states \cup {<<id, life[id] + 1>>} |->
                      IF k \in DOMAIN states THEN states[k] ELSE Fresh]
\* The key session(id) answers with.
Bound(id) == IF Known(id) THEN Key(id) ELSE <<id, life[id] + 1>>

\* ingest(): the run is chained on the queue of the life the name has now.
Ingest(id) ==
  /\ Len(arrived) < MaxEvents
  /\ Session(id)
  /\ arrived' = Append(arrived, id)
  /\ states' = [States(id) EXCEPT ![Bound(id)].queue = Append(@, Len(arrived) + 1)]
  /\ UNCHANGED <<runs, answered>>

Waits(e, k) == k \in DOMAIN states /\ states[k].queue # <<>> /\ Head(states[k].queue) = e
Busy(k) == \E r \in runs : r.queue = k

\* Mutant: a run does not wait for the one before it.
BeginsUnchained(e, k) ==
  k \in DOMAIN states /\ Contains(states[k].queue, e) /\ \A r \in runs : r.event # e
\* then(): the run before it in the chain has settled.
Begins(e, k) == Waits(e, k) /\ ~Busy(k)

\* runIngest() up to its first await, or to its end when there is nothing to deliberate.
Start(e) ==
  \E k \in DOMAIN states :
    /\ Begins(e, k)
    /\ Session(k[1])
    /\ LET b == Bound(k[1])
           held == [States(k[1]) EXCEPT ![b].folded = Append(@, e)]
       IN  \/ /\ states' = Dequeued(held, k)
              /\ answered' = answered \cup {e}
              /\ UNCHANGED runs
           \/ /\ states' = held
              /\ runs' = runs \cup {[event |-> e, queue |-> k, state |-> b,
                                     saw |-> held[b].folded, at |-> "deciding"]}
              /\ UNCHANGED answered
    /\ UNCHANGED arrived

\* The decision is written to the trail under the name, whichever life that has now.
Decide(e) ==
  \E r \in runs :
    /\ r.event = e /\ r.at = "deciding"
    /\ Session(r.state[1])
    /\ states' = States(r.state[1])
    /\ runs' = (runs \ {r}) \cup {[r EXCEPT !.at = "running"]}
    /\ UNCHANGED <<arrived, answered>>

Settled(r) == /\ runs' = runs \ {r}
              /\ answered' = answered \cup {r.event}
              /\ UNCHANGED arrived

\* The capabilities are done: what was decided lands on the life that was bound. A morph, a
\* block, a suppression and a question are each written to the trail, nothing else is.
Finish(e) ==
  \E r \in runs :
    /\ r.event = e /\ r.at = "running"
    /\ \/ Session(r.state[1]) /\ states' = Dequeued(States(r.state[1]), r.queue)
       \/ states' = Dequeued(states, r.queue) /\ UNCHANGED <<lru, life>>
    /\ Settled(r)

\* A run that throws is answered with its error, and the chain goes on.
Fail(e) ==
  \E r \in runs :
    /\ r.event = e
    /\ states' = Dequeued(states, r.queue)
    /\ Settled(r)
    /\ UNCHANGED <<lru, life>>

Outside(id) == (Known(id) \/ life[id] < MaxLives) /\ Session(id) /\ UNCHANGED <<runs, arrived, answered>>
\* memoryFor, getWorld, getBlueprint, exportMemory, importMemory and approve ask for a session.
Touch(id) == Outside(id) /\ states' = States(id)
\* hydrate(): what an earlier process believed takes the place of what was folded.
Hydrate(id) ==
  /\ Outside(id)
  /\ states' = [States(id) EXCEPT ![Bound(id)].folded = <<>>, ![Bound(id)].hydrated = TRUE]

Init ==
  /\ lru = <<>> /\ life = [id \in Sessions |-> 0] /\ states = <<>>
  /\ runs = {} /\ arrived = <<>> /\ answered = {}
Step(e) == Start(e) \/ Decide(e) \/ Finish(e)
Next ==
  \/ \E id \in Sessions : Ingest(id) \/ Touch(id) \/ Hydrate(id)
  \/ \E e \in 1..MaxEvents : Step(e) \/ Fail(e)
\* A provider is waited for no longer than its timeout, and a promise that settled is gone on with.
Spec == Init /\ [][Next]_vars /\ \A e \in 1..MaxEvents : WF_vars(Step(e))
-----------------------------------------------------------------------------
Keys == Sessions \X Nat
TypeOK ==
  /\ lru \in Seq(Sessions) /\ IsInjective(lru) /\ Len(lru) <= MaxSessions
  /\ life \in [Sessions -> Nat]
  /\ DOMAIN states \subseteq Keys
  /\ \A id \in ToSet(lru) : Key(id) \in DOMAIN states
  /\ answered \subseteq 1..Len(arrived)

\* A session that never made room is never in two runs at once (the comment on ingest).
SerialWhileHeld ==
  \A r, s \in runs : r.state = s.state /\ r # s => life[r.state[1]] > 1

\* What was decided is applied to the world it was decided about: nothing else was folded into
\* it while the brain was awaited, unless the session was resumed or had made room meanwhile.
DecidedForThisWorld ==
  \A r \in runs : life[r.state[1]] = 1 /\ ~states[r.state].hydrated
                    => states[r.state].folded = r.saw

\* A session that never made room folds its events in the order they arrived.
FoldedInOrder ==
  \A k \in DOMAIN states : life[k[1]] = 1 =>
    \A i, j \in DOMAIN states[k].folded : i < j => states[k].folded[i] < states[k].folded[j]

\* Runs of one session keep apart (the comment on ingest): until it makes room it has one at a
\* time, which is decided for the world it read, and its events are folded in their order.
RunsKeepApart == SerialWhileHeld /\ DecidedForThisWorld /\ FoldedInOrder

\* Every ingest is answered, whatever makes room while it waits, even for a life that is gone.
EveryIngestIsAnswered == \A e \in 1..MaxEvents : Len(arrived) >= e ~> e \in answered

\* "Serialize ingests per session so concurrent events cannot interleave" (the comment on
\* ingest): no two runs are ever on their way with the same session's state.
NeverInterleaved == \A r, s \in runs : r.state = s.state => r = s
=============================================================================
