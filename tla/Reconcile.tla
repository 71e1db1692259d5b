----------------------------- MODULE Reconcile -----------------------------
(***************************************************************************)
(* How the body keeps up with the world when the guard makes it wait:      *)
(* runIngest and scheduleReconcile in apps/runtime/src/runtime.ts, the     *)
(* loop's runIngest in packages/runtime-core/src/index.ts, and what decides*)
(* whether an event is deliberated on (significance-engine) and what the   *)
(* deterministic brain asks for (intelligence/src/deterministic.ts).       *)
(*                                                                         *)
(* One session.  Its world is whether a problem is open, its body whether  *)
(* the incident is on it.  An incident that comes too soon after the last  *)
(* morph is held, and a timer puts a tick in the session's own lane, which *)
(* lets its oldest waiting event go at the ceiling like any other.  The    *)
(* person's own undo and redo are left out: they choose to be out of step. *)
(***************************************************************************)
EXTENDS Naturals, Sequences

CONSTANTS
  Limit,      \* SessionQueues.limit
  MaxEvents   \* bound: events that arrive from outside

ReconcileAssumption == Limit \in Nat \ {0} /\ MaxEvents \in Nat

\* An opener of warning severity, one of critical severity, a closer, a sign of
\* what the person is doing, anything else; and the tick.
Kinds == {"open", "critical", "close", "behavior", "other"}
Idle == [job |-> "none", deliberate |-> "unknown"]

VARIABLES
  problem,   \* whether a problem is open in the world
  shown,     \* whether the incident is on the body
  cooling,   \* whether lastMorphAt is within the cooldown
  timer,     \* whether a reconcile timer is armed
  waiting,   \* the lane's backlog
  running,   \* the event the loop is on, and whether it deliberates on it
  sent       \* how many events arrived

vars == <<problem, shown, cooling, timer, waiting, running, sent>>

Begun(job) == [job |-> job, deliberate |-> "unknown"]

\* SessionQueues.run and pump.
Enqueue(job) ==
  IF running = Idle
  THEN running' = Begun(job) /\ UNCHANGED waiting
  ELSE /\ waiting' = Append(IF Len(waiting) >= Limit THEN Tail(waiting) ELSE waiting, job)
       /\ UNCHANGED running

Arrive(kind) ==
  /\ sent < MaxEvents
  /\ sent' = sent + 1
  /\ Enqueue(kind)
  /\ UNCHANGED <<problem, shown, cooling, timer>>

\* The reflex judges the event against the world before it, then the event is
\* folded into the world.  An event of no problem may be significant or not.
Fold ==
  /\ running # Idle /\ running.deliberate = "unknown"
  /\ \E deliberate \in CASE running.job \in {"open", "critical"} -> {TRUE}
                         [] running.job = "tick" -> {problem}
                         [] running.job = "close" -> {problem, TRUE}
                         [] running.job = "behavior" -> {TRUE}
                         [] OTHER -> BOOLEAN :
       running' = [running EXCEPT !.deliberate = IF deliberate THEN "yes" ELSE "no"]
  /\ problem' = CASE running.job \in {"open", "critical"} -> TRUE
                  [] running.job = "close" -> FALSE
                  [] OTHER -> problem
  /\ UNCHANGED <<shown, cooling, timer, waiting, sent>>

\* What the brain asks for and the body does not show yet.
Wanted ==
  IF running.deliberate # "yes" THEN "nothing"
  ELSE IF problem THEN (IF shown THEN "nothing" ELSE "surface_incident")
  ELSE IF running.job = "close" THEN (IF shown THEN "restore_normal" ELSE "nothing")
  ELSE IF running.job = "behavior" THEN "augment" ELSE "nothing"

\* De-escalation is never held, and nothing is on an event that is critical.
Held ==
  Wanted \in {"surface_incident", "augment"} /\ cooling /\ running.job # "critical"
Applied == Wanted # "nothing" /\ ~Held

\* A pending tick survives events that change nothing; a morph cancels it and
\* a hold arms it.
TimerOfNewest == Held
TimerAfter == IF Applied THEN FALSE ELSE timer \/ Held

\* The loop ends on this event, and the lane starts the next.
JudgeAndRest ==
  /\ running.deliberate # "unknown"
  /\ shown' = IF Applied /\ Wanted # "augment" THEN Wanted = "surface_incident" ELSE shown
  /\ cooling' = (cooling \/ Applied)
  /\ timer' = TimerAfter
  /\ running' = Idle
  /\ UNCHANGED <<problem, waiting, sent>>
Judge ==
  /\ running.deliberate # "unknown"
  /\ shown' = IF Applied /\ Wanted # "augment" THEN Wanted = "surface_incident" ELSE shown
  /\ cooling' = (cooling \/ Applied)
  /\ timer' = TimerAfter
  /\ IF waiting = <<>>
     THEN running' = Idle /\ UNCHANGED waiting
     ELSE running' = Begun(Head(waiting)) /\ waiting' = Tail(waiting)
  /\ UNCHANGED <<problem, sent>>

Cool ==
  /\ cooling /\ cooling' = FALSE
  /\ UNCHANGED <<problem, shown, timer, waiting, running, sent>>

\* The timer fires: the tick is an event of the lane like any other.
Fire ==
  /\ timer /\ timer' = FALSE
  /\ Enqueue("tick")
  /\ UNCHANGED <<problem, shown, cooling, sent>>

Init ==
  /\ problem = FALSE /\ shown = FALSE /\ cooling = FALSE /\ timer = FALSE
  /\ waiting = <<>> /\ running = Idle /\ sent = 0

Next == (\E kind \in Kinds : Arrive(kind)) \/ Fold \/ Judge \/ Cool \/ Fire

Spec == Init /\ [][Next]_vars

\* The loop ends on every event, time passes and timers fire; nothing has to
\* arrive.
Fairness == WF_vars(Fold) /\ WF_vars(Judge) /\ WF_vars(Cool) /\ WF_vars(Fire)

FairSpec == Spec /\ Fairness

-----------------------------------------------------------------------------
(* Properties *)

TypeOK ==
  /\ {problem, shown, cooling, timer} \subseteq BOOLEAN
  /\ waiting \in Seq(Kinds \cup {"tick"}) /\ Len(waiting) <= Limit
  /\ running \in [job : Kinds \cup {"tick", "none"}, deliberate : {"unknown", "yes", "no"}]
  /\ running = Idle => waiting = <<>>
  /\ sent \in 0..MaxEvents

\* An idle session is never out of step with nothing to bring it back: either
\* the body shows what the world is, or a timer is armed.
QuietMeansCaughtUp == running = Idle => (shown = problem) \/ timer

\* "A morph held purely on timing must not leave the body out of step with the
\* world forever" (runtime.ts:356): a problem that stays open is shown in the
\* end, and one that stays closed is not.
CatchesUp ==
  /\ (problem /\ ~shown) ~> (shown \/ ~problem)
  /\ (shown /\ ~problem) ~> (~shown \/ problem)
=============================================================================
