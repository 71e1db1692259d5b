-------------------------------- MODULE Logs --------------------------------
(***************************************************************************)
(* The bounded stores a runtime writes every event to, and what several    *)
(* sessions leave each other in them: the event log and the snapshots      *)
(* (packages/persistence), the traces (packages/observability), and the    *)
(* indexed event store (packages/event-core).                              *)
(*                                                                         *)
(* An event is the number of its write.  A Map is the sequence of its keys *)
(* in the order they were last inserted, beside a function.                *)
(***************************************************************************)
EXTENDS Naturals, Sequences, SequencesExt, FiniteSetsExt

CONSTANTS
  Sessions,
  Kinds,         \* kinds of snapshot
  PerSession,    \* events and traces one session keeps
  MaxSessions,   \* sessions kept
  Limit,         \* events kept in all
  MaxWrites      \* bound

LogsAssumption ==
  /\ PerSession \in Nat \ {0} /\ MaxSessions \in Nat \ {0}
  /\ Limit \in Nat /\ Limit >= MaxSessions /\ MaxWrites \in Nat

VARIABLES
  written,   \* the session and the kind of snapshot of each write             (history)
  since,     \* the write since which a session has been among the MaxSessions
             \* last written to                                              (history)
  order, log, held,    \* InMemoryEventLogStore: keys, lists, held
  traceOrder, traces,  \* TraceStore
  saveOrder, saves,    \* InMemorySnapshotStore
  events, index        \* EventStore

vars == <<written, since, order, log, held, traceOrder, traces, saveOrder, saves, events, index>>

-----------------------------------------------------------------------------
(* Helpers *)

\* What is written to moves to the end of its map.
Touched(keys, s) == Append(SelectSeq(keys, LAMBDA t : t # s), s)
\* The sessions that stay when there are too many: those written to last.
Staying(keys) == IF Len(keys) > MaxSessions THEN Tail(keys) ELSE keys
LastOf(seq, n) == IF Len(seq) > n THEN SubSeq(seq, Len(seq) - n + 1, Len(seq)) ELSE seq
OnlyOf(f, keys, nothing) == [t \in Sessions |-> IF Contains(keys, t) THEN f[t] ELSE nothing]

-----------------------------------------------------------------------------
(* The event log *)

\* The first in map order of the sessions that hold the most.
QuietestOf(keys, lists) == Head(keys)
LargestOf(keys, lists) ==
  LET most == {i \in 1..Len(keys) : \A j \in 1..Len(keys) : Len(lists[keys[j]]) <= Len(lists[keys[i]])}
  IN keys[Min(most)]

LogAppendForgetsTheEvicted(s, n) ==
  LET keys == Staying(Touched(order, s))
      lists == OnlyOf([log EXCEPT ![s] = LastOf(Append(@, n), PerSession)], keys, <<>>)
      total == held + 1 - (IF Len(log[s]) = PerSession THEN 1 ELSE 0)
      loudest == LargestOf(keys, lists) IN
  IF total <= Limit
  THEN order' = keys /\ log' = lists /\ held' = total
  ELSE /\ log' = [lists EXCEPT ![loudest] = Tail(@)] /\ held' = total - 1
       /\ order' = IF Len(lists[loudest]) = 1 THEN SelectSeq(keys, LAMBDA t : t # loudest) ELSE keys
\* One event more than fits costs the largest session its oldest.
LogAppend(s, n) ==
  LET keys == Staying(Touched(order, s))
      lists == OnlyOf([log EXCEPT ![s] = LastOf(Append(@, n), PerSession)], keys, <<>>)
      total == held + 1 - (IF Len(log[s]) = PerSession THEN 1 ELSE 0)
                    - (IF Len(keys) < Len(Touched(order, s)) THEN Len(log[Head(order)]) ELSE 0)
      loudest == LargestOf(keys, lists) IN
  IF total <= Limit
  THEN order' = keys /\ log' = lists /\ held' = total
  ELSE /\ log' = [lists EXCEPT ![loudest] = Tail(@)] /\ held' = total - 1
       /\ order' = IF Len(lists[loudest]) = 1 THEN SelectSeq(keys, LAMBDA t : t # loudest) ELSE keys

(* The traces *)

TraceAppend(s, n) ==
  /\ traceOrder' = Staying(Touched(traceOrder, s))
  /\ traces' = OnlyOf([traces EXCEPT ![s] = LastOf(Append(@, n), PerSession)], traceOrder', <<>>)

(* The snapshots: the latest of each kind *)

NoSaves == [k \in Kinds |-> 0]
SnapshotSave(s, k, n) ==
  /\ saveOrder' = Staying(Touched(saveOrder, s))
  /\ saves' = OnlyOf([saves EXCEPT ![s][k] = n], saveOrder', NoSaves)

(* The event store and its index *)

StoreAppend(s, n) ==
  LET all == Append(events, n)
      mine == [index EXCEPT ![s] = Append(@, n)] IN
  IF Len(all) > Limit
  THEN events' = Tail(all) /\ index' = [mine EXCEPT ![written'[Head(all)].session] = Tail(@)]
  ELSE events' = all /\ index' = mine

-----------------------------------------------------------------------------
\* The writes of a session up to now, and the sessions written to since its last.
WritesOf(s) == {i \in 1..Len(written) : written[i].session = s}
Recent == {s \in Sessions : WritesOf(s) # {} /\
            Cardinality({written[i].session : i \in Max(WritesOf(s))..Len(written)}) <= MaxSessions}

\* An event of s, traced, after which a snapshot of kind k is saved.
Write(s, k) ==
  /\ Len(written) < MaxWrites
  /\ LET n == Len(written) + 1 IN
     /\ written' = Append(written, [session |-> s, kind |-> k])
     /\ since' = IF s \in Recent THEN since ELSE [since EXCEPT ![s] = n]
     /\ LogAppend(s, n) /\ TraceAppend(s, n) /\ SnapshotSave(s, k, n) /\ StoreAppend(s, n)

Init ==
  /\ written = <<>> /\ since = [s \in Sessions |-> 1]
  /\ order = <<>> /\ log = [s \in Sessions |-> <<>>] /\ held = 0
  /\ traceOrder = <<>> /\ traces = [s \in Sessions |-> <<>>]
  /\ saveOrder = <<>> /\ saves = [s \in Sessions |-> NoSaves]
  /\ events = <<>> /\ index = [s \in Sessions |-> <<>>]

Next == \E s \in Sessions, k \in Kinds : Write(s, k)

Spec == Init /\ [][Next]_vars

-----------------------------------------------------------------------------
(* Properties *)

\* The counter is the number of events held, which is within every bound, and the keys
\* of each map are the sessions that have something in it.
TypeOK ==
  /\ held = FoldFunction(LAMBDA l, n : Len(l) + n, 0, log) /\ held <= Limit
  /\ Len(order) <= MaxSessions /\ IsInjective(order) /\ ToSet(order) = {s \in Sessions : log[s] # <<>>}
  /\ \A s \in Sessions : Len(log[s]) <= PerSession

\* What a session wrote since it was last among the recent ones, in order.
Written(s) == SetToSortSeq({i \in WritesOf(s) : i >= since[s]}, <)

\* "A quiet session's handful of events costs nothing to keep and everything to lose"
\* (InMemoryEventLogStore): whatever the others write, a recent session keeps an unbroken
\* run of its latest events, and at least its share of the whole.
QuietSessionsAreKept ==
  \A s \in Recent :
    /\ IsSuffix(log[s], Written(s))
    /\ Len(log[s]) >= Min({Len(Written(s)), PerSession, Limit \div MaxSessions})

\* "One ring for everybody meant a busy session pushed out the traces of every quiet
\* session beside it" (TraceStore), and the snapshots of InMemorySnapshotStore likewise:
\* a recent session has the latest of its traces and the last snapshot of each kind.
RecentSessionsComeBack ==
  \A s \in Recent :
    /\ traces[s] = LastOf(Written(s), PerSession)
    /\ \A k \in Kinds : saves[s][k] = Max({0} \cup {i \in WritesOf(s) : i >= since[s] /\ written[i].kind = k})

\* The index of the event store is the log read session by session (EventStore.append
\* drops the oldest event from both, though they are two lists).
IndexIsTheLog ==
  \A s \in Sessions : index[s] = SelectSeq(events, LAMBDA n : written[n].session = s)
=============================================================================
