----------------------------- MODULE WorldModel -----------------------------
(***************************************************************************)
(* What the runtime believes of one session, and the reflexes that read    *)
(* it: reduce (packages/world-model), evaluateSignificance and the         *)
(* presence (packages/significance-engine), inferIntent                    *)
(* (packages/intent-engine), in the order runIngest calls them.            *)
(*                                                                         *)
(* An event is a record of its type, source and severity (a rank of 0 to   *)
(* 4) and of what the readers of payloads make of its payload: a name      *)
(* that is cleaned and cut, or None; a duration; how a request ended.  The *)
(* counters nothing reads (interactions, requests, undos) and the words of *)
(* a problem are left out.                                                 *)
(***************************************************************************)
EXTENDS Integers, FiniteSets, Sequences, SequencesExt

CONSTANTS
  None,          \* a name that is not there
  RecentLimit,   \* RECENT_EVENTS_LIMIT
  HostLimit,     \* how many failing hosts are remembered
  KeyLimit,      \* how many recent keys and entities
  FileLimit,     \* how many files
  MaxSensors,    \* MAX_SENSORS
  NoveltyWindow, \* noveltyWindow
  Returning,     \* returningAfterSeconds
  Idling,        \* idleAfterSeconds
  SwitchingKeys, \* switchingKeys
  Exploring      \* exploringEntities

WorldAssumption ==
  /\ {RecentLimit, HostLimit, KeyLimit, FileLimit, MaxSensors, NoveltyWindow} \subseteq Nat \ {0}
  /\ {Returning, Idling, Exploring} \subseteq Nat \ {0}
  /\ SwitchingKeys \in Nat

\* SEVERITY_RANK
Critical == 4
Warning == 3

Openers ==
  [type \in {"development.server_error", "development.build_failed",
             "development.test_failed", "security.vulnerability_detected"} |->
     CASE type = "development.server_error" -> [kind |-> "runtime_error", critical |-> TRUE]
       [] type = "development.build_failed" -> [kind |-> "build_failure", critical |-> FALSE]
       [] type = "development.test_failed" -> [kind |-> "test_failure", critical |-> FALSE]
       [] OTHER -> [kind |-> "security_alert", critical |-> TRUE]]
Closers ==
  [type \in {"development.server_recovered", "development.build_succeeded",
             "development.test_passed", "security.vulnerability_patched"} |->
     CASE type = "development.server_recovered" -> "runtime_error"
       [] type = "development.build_succeeded" -> "build_failure"
       [] type = "development.test_passed" -> "test_failure"
       [] OTHER -> "security_alert"]

\* An event with nothing in its payload.
Event(type, source, severity) ==
  [type |-> type, source |-> source, severity |-> severity,
   name |-> None, amount |-> 0, flag |-> FALSE, layers |-> <<>>]

\* A request fails with an error or a status of 500, succeeds below 400; a status
\* between, or none, says nothing of the host.  amount is the hundreds of the status.
Failed(e) == e.flag \/ e.amount >= 5
Succeeded(e) == ~Failed(e) /\ e.amount > 0 /\ e.amount < 4

LastOf(q, n) == IF Len(q) > n THEN SubSeq(q, Len(q) - n + 1, Len(q)) ELSE q
FirstOf(q, n) == IF Len(q) > n THEN SubSeq(q, 1, n) ELSE q
But(q, x) == SelectSeq(q, LAMBDA y : y # x)
KindsOf(problems) == {problems[i].kind : i \in DOMAIN problems}

-----------------------------------------------------------------------------
(* reduce *)

\* emptyWorldState
EmptyWorld ==
  [recent |-> <<>>, activity |-> FALSE, problems |-> <<>>,
   processes |-> [p \in {"API", "host"} |-> "unknown"],
   idle |-> 0, away |-> 0, last |-> None, repeats |-> 0, keys |-> <<>>, entities |-> <<>>,
   failing |-> <<>>, files |-> <<>>, sensing |-> [s \in {} |-> <<>>],
   goal |-> None, typing |-> FALSE, focused |-> None, intent |-> None]

\* Reconcile ticks stay out of the novelty window.
Remembered(w, e) ==
  IF e.type = "runtime.reconcile" THEN w.recent
  ELSE LastOf(Append(w.recent, e.type), RecentLimit)

\* The hosts that fail, the most recent failure first.
Failing(w, e) ==
  IF Failed(e) THEN FirstOf(<<e.name>> \o But(w.failing, e.name), HostLimit)
  ELSE IF Succeeded(e) THEN But(w.failing, e.name) ELSE w.failing

Opened(w, kind, critical) ==
  IF kind \in KindsOf(w.problems) THEN w.problems
  ELSE Append(w.problems, [kind |-> kind, critical |-> critical])
Closed(w, kind) == SelectSeq(w.problems, LAMBDA p : p.kind # kind)

\* Problems are opened once per kind; the network's is closed by the success that
\* leaves no failing host.
Problems(w, e) ==
  CASE e.type \in DOMAIN Openers -> Opened(w, Openers[e.type].kind, Openers[e.type].critical)
    [] e.type \in DOMAIN Closers -> Closed(w, Closers[e.type])
    [] e.type = "network.request" /\ Failed(e) -> Opened(w, "network_failure", FALSE)
    [] e.type = "network.request" /\ Succeeded(e) /\ Failing(w, e) = <<>> -> Closed(w, "network_failure")
    [] OTHER -> w.problems

Processes(w, e) ==
  CASE e.type = "development.server_error" -> [w.processes EXCEPT !["API"] = "failed"]
    [] e.type = "development.server_recovered" -> [w.processes EXCEPT !["API"] = "healthy"]
    [] e.type = "system.resource_warning" -> [w.processes EXCEPT !["host"] = "degraded"]
    [] OTHER -> w.processes

\* A named action or file: how often in a row, and the last few of them.
Acted(w, name) ==
  [w EXCEPT !.repeats = IF name = w.last THEN @ + 1 ELSE 1,
            !.last = name,
            !.keys = LastOf(Append(@, name), KeyLimit)]

\* The switch over the sensing events.
Behaved(w, e) ==
  CASE e.type = "user.interaction" -> [w EXCEPT !.idle = 0, !.away = 0]
    [] e.type = "user.idle" -> [w EXCEPT !.idle = e.amount]
    [] e.type = "user.visibility" -> [w EXCEPT !.away = IF e.flag THEN e.amount ELSE 0]
    [] e.type = "user.action" /\ e.name # None -> [Acted(w, e.name) EXCEPT !.away = 0]
    [] e.type = "user.opened_file" /\ e.name # None ->
         [Acted(w, e.name) EXCEPT !.entities = LastOf(Append(But(@, e.name), e.name), KeyLimit),
                                  !.files = LastOf(Append(But(@, e.name), e.name), FileLimit)]
    [] e.type = "network.request" -> [w EXCEPT !.failing = Failing(w, e)]
    [] OTHER -> w

\* A sensor says what it observes, or that it observes nothing.
Sensed(w, e) ==
  IF e.layers = <<>> THEN [s \in DOMAIN w.sensing \ {e.name} |-> w.sensing[s]]
  ELSE IF e.name \in DOMAIN w.sensing \/ Cardinality(DOMAIN w.sensing) < MaxSensors
  THEN [s \in DOMAIN w.sensing \cup {e.name} |-> IF s = e.name THEN e.layers ELSE w.sensing[s]]
  ELSE w.sensing

\* The second switch: what events say of the context.
Noted(w, e) ==
  CASE e.type = "sensor.layers_changed" -> [w EXCEPT !.sensing = Sensed(w, e)]
    [] e.type = "user.changed_goal" /\ e.name # None -> [w EXCEPT !.goal = e.name]
    [] e.type = "user.focus_changed" -> [w EXCEPT !.typing = e.flag, !.focused = e.name]
    [] OTHER -> w

Reduce(w, e) ==
  [Noted(Behaved(w, e), e) EXCEPT
     !.recent = Remembered(w, e),
     !.activity = @ \/ e.source = "development",
     !.problems = Problems(w, e),
     !.processes = Processes(w, e)]

-----------------------------------------------------------------------------
(* inferIntent *)

\* isSwitching: the last n keys alternate among at most three.
IsSwitching(keys, n) ==
  LET tail == LastOf(keys, n) IN
  /\ n >= 2 /\ Len(keys) >= n
  /\ \A i \in 2..n : tail[i] # tail[i - 1]
  /\ Cardinality(ToSet(tail)) <= 3

InferIntent(w) ==
  IF w.away >= Returning THEN "returning"
  ELSE IF w.idle >= Idling THEN "idle"
  ELSE IF w.repeats >= 3 THEN "stuck"
  ELSE IF w.problems # <<>> THEN "debugging"
  ELSE IF IsSwitching(w.keys, SwitchingKeys) THEN "switching"
  ELSE IF Len(w.entities) >= Exploring THEN "exploring"
  ELSE "focused"

-----------------------------------------------------------------------------
(* evaluateSignificance, on the world before the event *)

Clamp01(n) == IF n < 0 THEN 0 ELSE IF n > 10000 THEN 10000 ELSE n

\* The score, in ten-thousandths.
Score(w, e) ==
  LET relevance == IF w.activity /\ e.source = "development" THEN 2000
                   ELSE IF e.source = "user" THEN 1000 ELSE 0
      same == Len(SelectSeq(w.recent, LAMBDA type : type = e.type))
      novelty == IF same >= NoveltyWindow THEN 0 ELSE 1500 - (1500 * same) \div NoveltyWindow
      problem == IF e.type \in DOMAIN Openers THEN 3000
                 ELSE IF e.type \in DOMAIN Closers THEN (IF w.problems # <<>> THEN 3000 ELSE 900)
                 ELSE 0
  IN  Clamp01(875 * e.severity + relevance + novelty + problem)

\* The third time in a row, counting this one.
Repeated(w, name) == name # None /\ w.last = name /\ w.repeats + 1 >= 3

BehaviorSignal(w, e) ==
  \/ e.type = "user.visibility" /\ e.flag /\ e.amount >= Returning
  \/ e.type \in {"user.action", "user.opened_file"} /\ Repeated(w, e.name)
  \/ e.type = "user.idle" /\ e.amount >= Idling

\* Mutant: only the opening is noticed.
NetworkSignalOnOpening(w, e) ==
  e.type = "network.request" /\ Failed(e) /\ "network_failure" \notin KindsOf(w.problems)
\* A host starts failing, or the last one that failed recovers.
NetworkSignal(w, e) ==
  /\ e.type = "network.request"
  /\ LET open == "network_failure" \in KindsOf(w.problems) IN
     IF Failed(e) THEN ~open ELSE Succeeded(e) /\ open /\ w.failing = <<e.name>>

Reflex(w, e) ==
  \/ Score(w, e) >= 6000
  \/ BehaviorSignal(w, e)
  \/ NetworkSignal(w, e)
  \/ e.type = "runtime.reconcile" /\ w.problems # <<>>
  \/ e.severity = Critical
  \/ e.type \in DOMAIN Openers
  \/ e.type \in DOMAIN Closers /\ w.problems # <<>>

\* runIngest: an intent that turns to switching is itself worth deliberating on.
Deliberates(before, e, after) ==
  Reflex(before, e) \/ (before.intent # after.intent /\ after.intent = "switching")

\* nextPresence, before anything is decided.
NextPresence(presence, deliberates) ==
  IF deliberates THEN "evaluating" ELSE IF presence = "acting" THEN "acting" ELSE "observing"

\* The fold of one event: reduce, then the intent of the world it leaves.
Intending(w) == [w EXCEPT !.intent = InferIntent(w)]
Folded(w, e) == Intending(Reduce(w, e))
=============================================================================
