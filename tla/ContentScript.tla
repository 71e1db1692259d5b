----------------------------- MODULE ContentScript -----------------------------
(* The content script of one page (apps/extension/src/content.ts): what it has      *)
(* counted and noticed, and the reports it relays to a worker that may be           *)
(* restarting.  A report refused is made again; the person goes on meanwhile.       *)
EXTENDS Integers, Sequences, FiniteSets, SequencesExt, FiniteSetsExt

CONSTANTS
  None,         \* nothing
  Absences,     \* how long somebody may be away
  Shapes,       \* what the page may look like
  MaxBumps,     \* bound: interactions
  MaxAways,     \* bound: returns
  MaxLooks,     \* bound: changes of the page
  MaxIdles,     \* bound: times the person falls idle
  MaxRefusals   \* bound: messages the worker did not take

ASSUME ContentScriptAssumption ==
  /\ Absences \subseteq Nat \ {0} /\ Shapes # {} /\ None \notin Nat \cup Shapes
  /\ {MaxBumps, MaxAways, MaxLooks, MaxIdles, MaxRefusals} \subseteq Nat

VARIABLES
  bumps,     \* interactions there were
  count,     \* interactions not reported yet
  reported,  \* interactions the worker was told of (history)
  idle,      \* nothing has happened for a minute
  idles,     \* times it came to that
  idleReported,
  looks,     \* the page as it looks now, and how often it changed
  lastShape, \* the shape last reported
  away,      \* awayPending
  aways,     \* the absences there were
  cycle,     \* the tick under way: its stage and what it sent, or None
  report,    \* the report of an absence in flight (reportingAway), or None
  taken,     \* what the worker took, in order
  refusals

counters == <<bumps, count, reported, idle, idles, idleReported>>
page == <<looks, lastShape>>
absence == <<away, aways>>
vars == <<counters, page, absence, cycle, report, taken, refusals>>

Message(kind, what) == [kind |-> kind, what |-> what]
Kind(k) == {taken[i].what : i \in {j \in DOMAIN taken : taken[j].kind = k}}

Init ==
  /\ bumps = 0 /\ count = 0 /\ reported = 0 /\ idle = FALSE /\ idles = 0 /\ idleReported = FALSE
  /\ looks = [shape |-> CHOOSE s \in Shapes : TRUE, changes |-> 0] /\ lastShape = None
  /\ away = None /\ aways = {}
  /\ cycle = None /\ report = None /\ taken = <<>> /\ refusals = 0

----
(* The person.                                                                    *)
Bump ==
  /\ bumps < MaxBumps
  /\ bumps' = bumps + 1 /\ count' = count + 1
  /\ idle' = FALSE /\ idleReported' = FALSE
  /\ UNCHANGED <<reported, idles, page, absence, cycle, report, taken, refusals>>

FallsIdle ==
  /\ ~idle /\ idles < MaxIdles
  /\ idle' = TRUE /\ idles' = idles + 1
  /\ UNCHANGED <<bumps, count, reported, idleReported, page, absence, cycle, report, taken, refusals>>

PageChanges ==
  /\ looks.changes < MaxLooks
  /\ \E s \in Shapes \ {looks.shape} : looks' = [shape |-> s, changes |-> looks.changes + 1]
  /\ UNCHANGED <<counters, lastShape, absence, cycle, report, taken, refusals>>

Larger(a, b) == IF a = None \/ b > a THEN b ELSE a

\* The person is back: the longest absence nobody has heard of is kept.
Returns(length) ==
  /\ length \notin aways /\ Cardinality(aways) < MaxAways
  /\ aways' = aways \cup {length}
  /\ away' = Larger(away, length)
  /\ report' = IF report = None THEN Larger(away, length) ELSE report
  /\ UNCHANGED <<counters, page, cycle, taken, refusals>>

----
(* The worker takes a message, or is restarting and refuses it.                   *)
Takes(kind, what) == taken' = Append(taken, Message(kind, what)) /\ UNCHANGED refusals
Refuses == refusals < MaxRefusals /\ refusals' = refusals + 1 /\ UNCHANGED taken

\* What a report that was taken leaves to be told.
LeftToTell(pending, told) == IF pending = told THEN None ELSE pending

Heard ==
  /\ report # None
  /\ \/ Takes("visibility", report) /\ away' = LeftToTell(away, report)
     \/ Refuses /\ UNCHANGED away
  /\ report' = None
  /\ UNCHANGED <<counters, page, aways, cycle>>

----
(* The tick: one cycle at a time, its four reports one after another.             *)
Stage(stage, sent) == [stage |-> stage, sent |-> sent]

Tick ==
  /\ cycle = None
  /\ cycle' = Stage("interaction", IF count > 0 THEN count ELSE None)
  /\ UNCHANGED <<counters, page, absence, report, taken, refusals>>

AllOf(n, batch) == 0

\* What was counted while the batch was in flight is still to be reported.
Rest(n, batch) == n - batch

Interaction ==
  /\ cycle # None /\ cycle.stage = "interaction"
  /\ \/ cycle.sent = None /\ UNCHANGED <<count, reported, taken, refusals>>
     \/ /\ cycle.sent # None /\ Takes("interaction", cycle.sent)
        /\ count' = Rest(count, cycle.sent) /\ reported' = reported + cycle.sent
     \/ cycle.sent # None /\ Refuses /\ UNCHANGED <<count, reported>>
  /\ cycle' = Stage("idle", IF idle /\ ~idleReported THEN idles ELSE None)
  /\ UNCHANGED <<bumps, idle, idles, idleReported, page, absence, report>>

\* Reporting an absence joins a report already in flight by leaving it alone.
Idle ==
  /\ cycle # None /\ cycle.stage = "idle"
  /\ \/ cycle.sent = None /\ UNCHANGED <<idleReported, taken, refusals>>
     \/ cycle.sent # None /\ Takes("idle", cycle.sent) /\ idleReported' = TRUE
     \/ cycle.sent # None /\ Refuses /\ idleReported' = FALSE
  /\ report' = IF report = None THEN away ELSE report
  /\ cycle' = Stage("away", report = None /\ away # None)
  /\ UNCHANGED <<bumps, count, reported, idle, idles, page, absence>>

Away ==
  /\ cycle # None /\ cycle.stage = "away" /\ (cycle.sent => report = None)
  /\ cycle' = Stage("page", IF looks.shape = lastShape THEN None ELSE looks.shape)
  /\ UNCHANGED <<counters, page, absence, report, taken, refusals>>

\* The shape that was taken is remembered, once it was.
Remembers(shape) == lastShape' = shape

StillLocked == cycle' = Stage("over", None)
Unlocked == cycle' = None

Page ==
  /\ cycle # None /\ cycle.stage = "page"
  /\ \/ cycle.sent = None /\ UNCHANGED <<lastShape, taken, refusals>>
     \/ cycle.sent # None /\ Takes("page", cycle.sent) /\ Remembers(cycle.sent)
     \/ cycle.sent # None /\ Refuses /\ UNCHANGED lastShape
  /\ Unlocked
  /\ UNCHANGED <<counters, looks, absence, report>>

Next ==
  \/ Bump \/ FallsIdle \/ PageChanges \/ (\E length \in Absences : Returns(length))
  \/ Heard
  \/ Tick \/ Interaction \/ Idle \/ Away \/ Page

Spec == Init /\ [][Next]_vars

\* The timer goes on, and a message is answered one way or the other.
FairSpec == Spec /\ WF_vars(Heard) /\ WF_vars(Tick) /\ WF_vars(Interaction) /\ WF_vars(Idle) /\ WF_vars(Away) /\ WF_vars(Page)

----
TypeOK ==
  /\ count \in 0 .. MaxBumps /\ count <= bumps
  /\ {idle, idleReported} \subseteq BOOLEAN
  /\ looks.shape \in Shapes /\ lastShape \in Shapes \cup {None}
  /\ {away, report} \subseteq Absences \cup {None}
  /\ cycle = None \/ cycle.stage \in {"interaction", "idle", "away", "page"}

\* Every interaction is reported once: what the worker has taken and what is still counted
\* add up to what there was, whatever happened while a batch was in flight.
CountsAddUp == reported + count = bumps

\* The longest absence there was has been heard of or is still to be: a report that arrives
\* never wipes out a longer absence that was recorded while it was in flight.
LongestAbsenceIsKept ==
  aways # {} => Max(aways) \in Kind("visibility") \cup {away}

\* What is remembered as reported is what the worker took last: a page that was refused is
\* read again.
PageIsAsTheWorkerHasIt ==
  LET pages == {i \in DOMAIN taken : taken[i].kind = "page"}
  IN  IF pages = {} THEN lastShape = None
      ELSE \E i \in pages : (\A j \in pages : j <= i) /\ lastShape = taken[i].what

\* What the worker was told of the page adds up to what happened on it (content.ts), whatever
\* happened while a report was in flight and whichever reports were refused.
ReportsAddUp == CountsAddUp /\ LongestAbsenceIsKept /\ PageIsAsTheWorkerHasIt

\* Whatever was counted, noticed or seen is reported in the end, by a timer that goes on and
\* a worker that comes back.
EverythingIsReported ==
  <>[](count = 0 /\ away = None /\ (lastShape = looks.shape))

\* content.test.ts:104: an idle spell is reported rather than never.
NoIdleIsSilenced == idle /\ idleReported => idles \in Kind("idle")
================================================================================
