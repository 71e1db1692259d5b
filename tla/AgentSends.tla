----------------------------- MODULE AgentSends -----------------------------
(***************************************************************************)
(* The desktop agent's transitions (apps/agent: OutputTracker,             *)
(* watchPaths, watchGitBranch, createSendQueue, dropNotice) on their way   *)
(* to a runtime that acknowledges events without waiting for them (the     *)
(* wait=0 answer of /api/events).                                          *)
(*                                                                         *)
(* The test output stands for build output too, the two being tracked      *)
(* alike.  An event is what it is about, what it says, and its place in    *)
(* the order the agent handed events over in.                              *)
(***************************************************************************)
EXTENDS Naturals, Sequences, FiniteSets, FiniteSetsExt

CONSTANTS
  MaxPending,     \* createSendQueue: maxPending
  Branches,       \* branches of the watched repository
  FirstBranch,
  None,
  MaxSeen,        \* bound: things that happen on the machine
  MaxUnread,      \* bound: reads of HEAD in the middle of a checkout
  MaxFailures,    \* bound: sends that fail, are refused or time out
  MaxLate,        \* bound: timed out sends that arrive after all
  MaxLetGo,       \* bound: events the runtime lets go
  MaxRestarts     \* bound: restarts of the runtime

ASSUME AgentSendsAssumption ==
  /\ MaxPending \in Nat \ {0} /\ FirstBranch \in Branches
  /\ None \notin Branches \cup {"failing", "passing"}

VARIABLES
  tests, branch,          \* what the last run said; what HEAD says
  told, last,             \* OutputTracker.tests; the branch check last saw
  saving, checking,       \* a save's debounce timer; the timer of a change of HEAD
  queue, dropped, alive,  \* the sends, the first in flight; the queue's count; the promise chain
  heard, said,            \* dropsHeard; the losses the notices have named, added up
  late,                   \* sends given up on that are still on their way
  received, letGo,        \* the runtime: what has arrived; its count of what it let go
  handed, refused, unheard, gone,   \* events handed over; answered with an error; received but
                                    \* not known to be; let go over all restarts       (history)
  overdue,                          \* received after they were given up on            (history)
  stale, hidden,                    \* restarted since the last answer that could be read; the
                                    \* losses no count will tell of any more            (history)
  seen, unread, failures, restarts  \* for the bounds

machine == <<tests, branch, told, last, saving, checking, seen, unread>>
sends == <<queue, dropped, alive, handed>>
notices == <<heard, said, stale, hidden>>
runtime == <<late, received, letGo, gone, restarts>>
counts == <<refused, unheard, overdue, failures>>
vars == <<machine, sends, notices, runtime, counts>>

Event(about, is) == [about |-> about, is |-> is, n |-> handed + 1]

-----------------------------------------------------------------------------
(* The queue takes what the senses hand it; at its ceiling the newest is dropped. *)

Racing(q, e) == <<e>> \o q
InLine(q, e) == Append(q, e)
AtCeiling(q) == Len(q) >= MaxPending
Hand(e) ==
  /\ handed' = handed + 1
  /\ IF AtCeiling(queue)
     THEN dropped' = dropped + 1 /\ UNCHANGED queue
     ELSE queue' = InLine(queue, e) /\ UNCHANGED dropped
  /\ UNCHANGED alive

\* A first success is not news; a recovery is.
News(was, o) == was # o /\ (o = "failing" \/ was = "failing")
Forgets(was, o) == was
Remembers(was, o) == o
Line(o) ==
  /\ seen < MaxSeen /\ seen' = seen + 1
  /\ tests' = o /\ told' = Remembers(told, o)
  /\ IF News(told, o) THEN Hand(Event("tests", o)) ELSE UNCHANGED sends
  /\ UNCHANGED <<branch, last, saving, checking, unread, notices, runtime, counts>>

\* A burst of saves is one event: every save starts the timer again.
Save ==
  /\ seen < MaxSeen /\ seen' = seen + 1
  /\ saving' = TRUE
  /\ UNCHANGED <<tests, branch, told, last, checking, unread, sends, notices, runtime, counts>>
SaveSettles ==
  /\ saving /\ saving' = FALSE
  /\ Hand(Event("file", "saved"))
  /\ UNCHANGED <<tests, branch, told, last, checking, seen, unread, notices, runtime, counts>>

Checkout(b) ==
  /\ seen < MaxSeen /\ seen' = seen + 1
  /\ branch # b /\ branch' = b /\ checking' = TRUE
  /\ UNCHANGED <<tests, told, last, saving, unread, sends, notices, runtime, counts>>
\* check: nothing is sent for a HEAD that cannot be read, or that is where it was.
Check ==
  /\ checking /\ checking' = FALSE
  /\ \E b \in {branch, None} :
       /\ b = None => unread < MaxUnread
       /\ unread' = IF b = None THEN unread + 1 ELSE unread
       /\ IF b \in {None, last} THEN UNCHANGED <<sends, last>>
          ELSE last' = b /\ Hand(Event("branch", b))
  /\ UNCHANGED <<tests, branch, told, saving, seen, notices, runtime, counts>>

-----------------------------------------------------------------------------
(* One send at a time: the first of the queue is in flight. *)

Sending == queue # <<>> /\ alive
Sent == queue' = Tail(queue) /\ UNCHANGED handed

\* dropNotice: one line when the count has gone up; a count that went down is followed.
NoticeOfSome(reported) == said' = IF reported > heard + 1 THEN said + (reported - heard) ELSE said
Notice(reported) == said' = IF reported > heard THEN said + (reported - heard) ELSE said

\* The losses that no answer has told of yet.
Unread == IF stale THEN letGo ELSE letGo - heard
\* Of the count of a runtime that restarted, what is not above the old one.
Behind(reported) == IF ~stale THEN 0 ELSE IF reported > heard THEN heard ELSE reported

\* The runtime acknowledges with what this session has lost, counted after queueing the event
\* may have pushed an older one out; an answer that is no count is followed by nothing.
Arrives(pushes) ==
  /\ pushes => gone < MaxLetGo
  /\ letGo' = IF pushes THEN letGo + 1 ELSE letGo
  /\ gone' = IF pushes THEN gone + 1 ELSE gone
Delivered(pushes, readable) ==
  /\ Sending /\ Sent
  /\ received' = Append(received, Head(queue)) /\ Arrives(pushes)
  /\ IF readable
     THEN /\ Notice(letGo') /\ heard' = letGo'
          /\ hidden' = hidden + Behind(letGo') /\ stale' = FALSE
     ELSE UNCHANGED notices
  /\ UNCHANGED <<machine, dropped, alive, late, restarts, counts>>

\* An answer that is an error is printed and nothing more.
Refused ==
  /\ Sending /\ Sent /\ failures < MaxFailures /\ failures' = failures + 1
  /\ refused' = refused + 1
  /\ UNCHANGED <<machine, dropped, alive, notices, runtime, unheard, overdue>>

\* A send that fails is counted, and the handler that says so may throw: neither ends the queue.
\* Neither a refusal nor a failure is tried again.
Counted(n) == n + 1
GoesOn(throws) == TRUE
Fails(throws) ==
  /\ Sending /\ Sent /\ failures < MaxFailures /\ failures' = failures + 1
  /\ dropped' = Counted(dropped) /\ alive' = GoesOn(throws)
  /\ UNCHANGED <<machine, notices, runtime, refused, unheard, overdue>>

\* After five seconds the send is given up, whatever has become of it.
TimesOut(arrived) ==
  /\ Sending /\ Sent /\ failures < MaxFailures /\ failures' = failures + 1
  /\ dropped' = Counted(dropped)
  /\ IF arrived
     THEN received' = Append(received, Head(queue)) /\ unheard' = unheard + 1 /\ UNCHANGED late
     ELSE late' = late \cup {Head(queue)} /\ UNCHANGED <<received, unheard>>
  /\ UNCHANGED <<machine, alive, notices, letGo, gone, restarts, refused, overdue>>
ArrivesLate(e) ==
  /\ overdue < MaxLate /\ overdue' = overdue + 1
  /\ late' = late \ {e} /\ received' = Append(received, e) /\ unheard' = unheard + 1
  /\ UNCHANGED <<machine, sends, notices, letGo, gone, restarts, refused, failures>>

\* A runtime that restarts, or gives up this session's count for another's, counts from nothing
\* again: what no answer told of stays untold.
Restart ==
  /\ restarts < MaxRestarts /\ restarts' = restarts + 1
  /\ letGo' = 0
  /\ hidden' = hidden + Unread /\ stale' = TRUE
  /\ UNCHANGED <<machine, sends, heard, said, late, received, gone, counts>>

-----------------------------------------------------------------------------
Init ==
  /\ tests = None /\ branch = FirstBranch /\ told = None /\ last = FirstBranch
  /\ saving = FALSE /\ checking = FALSE
  /\ queue = <<>> /\ dropped = 0 /\ alive = TRUE
  /\ heard = 0 /\ said = 0 /\ stale = FALSE /\ hidden = 0
  /\ late = {} /\ received = <<>> /\ letGo = 0
  /\ handed = 0 /\ refused = 0 /\ unheard = 0 /\ overdue = 0 /\ gone = 0
  /\ seen = 0 /\ unread = 0 /\ failures = 0 /\ restarts = 0

Answered ==
  \/ \E pushes, readable \in BOOLEAN : Delivered(pushes, readable)
  \/ Refused
  \/ \E throws \in BOOLEAN : Fails(throws)
  \/ \E arrived \in BOOLEAN : TimesOut(arrived)

Next ==
  \/ \E o \in {"failing", "passing"} : Line(o)
  \/ Save \/ SaveSettles
  \/ \E b \in Branches : Checkout(b)
  \/ Check
  \/ Answered
  \/ \E e \in late : ArrivesLate(e)
  \/ Restart

Spec == Init /\ [][Next]_vars
\* A send is answered or given up after five seconds.
FairSpec == Spec /\ WF_vars(Answered)

-----------------------------------------------------------------------------
(* Properties *)

TypeOK ==
  /\ tests \in {None, "failing", "passing"} /\ told \in {None, "failing", "passing"}
  /\ branch \in Branches /\ last \in Branches
  /\ Len(queue) <= MaxPending /\ dropped \in Nat /\ alive \in BOOLEAN
  /\ heard \in Nat /\ said \in Nat /\ letGo \in Nat /\ stale \in BOOLEAN /\ hidden \in Nat

\* Nothing overtakes anything: what reaches the runtime reaches it in the order it was handed over,
\* whatever was dropped, refused or failed in between.
InOrder ==
  overdue = 0 => \A i, j \in DOMAIN received : i < j => received[i].n < received[j].n

\* Every event handed over is waiting, has arrived, was refused, or is counted, and none is twice.
AllAccountedFor ==
  handed + unheard = Len(queue) + Len(received) + dropped + refused

\* What the runtime last heard about something.
Belief(about, first) ==
  LET of == {i \in DOMAIN received : received[i].about = about}
  IN  IF of = {} THEN first ELSE received[Max(of)].is
\* With nothing lost and nothing under way the runtime believes what is so: that tests fail exactly
\* when the last run failed, and the branch that is checked out, however often they went back and
\* forth inside a debounce.
SettledBeliefIsTrue ==
  queue = <<>> /\ late = {} /\ ~checking /\ dropped + refused + unread + gone = 0
  => /\ (Belief("tests", "passing") = "failing") <=> (tests = "failing")
     /\ Belief("branch", FirstBranch) = branch

\* The notices never name more losses than there were, over restarts of the runtime and answers
\* that could not be read.
NeverOverstated == said <= gone

\* A loss at the runtime is named once an answer has been read since, and named once: the notices
\* add up to all there were, but for those no answer has told of yet and those a restart of the
\* runtime hides, whose count begins again at nothing (shape.ts, dropNotice).
EveryReadLossIsNamed ==
  /\ said + hidden + Unread = gone
  /\ restarts = 0 /\ heard = letGo => said = gone

\* What is lost is counted: each event handed over is waiting, has arrived, was refused or is in
\* the queue's own count (which only the line about a failed send prints), and what the runtime
\* let go of is in a notice (shape.ts, createSendQueue and dropNotice).
LossesAreTold == AllAccountedFor /\ EveryReadLossIsNamed

\* Whatever becomes of one send, the next gets its turn.
QueueDrains == queue # <<>> ~> queue = <<>>

\* shape.ts:106: "a recovery must never overtake the failure it recovers from".
RecoveryNeverOvertakes ==
  \A i, j \in DOMAIN received :
    i < j /\ received[i].about = received[j].about => received[i].n < received[j].n
\* shape.ts:153: "How many this agent did not deliver: refused at the ceiling, or failed on the way."
DroppedIsWhatWasNotDelivered == queue = <<>> /\ late = {} => dropped >= handed - Len(received)
\* index.ts:80: the acknowledgement "carries what this session has lost".
EveryLossIsSaid == heard = letGo /\ handed > 0 /\ queue = <<>> => said = gone
=============================================================================
