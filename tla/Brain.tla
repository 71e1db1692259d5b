-------------------------------- MODULE Brain --------------------------------
(***************************************************************************)
(* What the runtime does about an event it deliberates on: the decision    *)
(* (packages/intelligence/src/deterministic.ts, or a provider's, validated *)
(* by packages/decision-engine), what of its plan may run at the level of  *)
(* autonomy (packages/permission-engine), and which outputs the registered *)
(* capabilities answer with (packages/capability-core).                    *)
(***************************************************************************)
EXTENDS WorldModel, Blueprints

CONSTANTS
  Tools,       \* the discovered tools: [id -> [risk, needs]]
  Granted      \* the permissions that were granted

BrainAssumption == \A id \in DOMAIN Tools : Tools[id].needs # {}

-----------------------------------------------------------------------------
(* Capabilities *)

\* builtinCapabilities: the risk each declares, and the fields of its output that a
\* component may be bound to.
Remedies == {"development.revert_diff", "security.update_dependency"}
BuiltinRisk ==
  [id \in {"system.get_status", "workspace.get_state", "development.read_logs",
           "development.read_build_state", "development.read_test_state", "data.inspect",
           "ui.focus_component", "memory.search", "memory.store", "network.inspect_shape",
           "security.scan_dependencies"} \cup Remedies |->
     IF id \in Remedies THEN "external_effect"
     ELSE IF id = "memory.store" THEN "safe_write" ELSE "read"]
Outputs ==
  {<<"workspace.get_state", field>> : field \in {"summary", "summaryTpl", "juggling", "jugglingTpl", "stuckRows"}}
  \cup {<<"development.read_logs", "lines">>, <<"network.inspect_shape", "rows">>,
        <<"security.scan_dependencies", "rows">>}

\* The registry: an id that is taken keeps what it meant, and one nobody registered
\* is held to reach outside.
Registered == DOMAIN BuiltinRisk \cup DOMAIN Tools
RiskOf(id) ==
  IF id \in DOMAIN BuiltinRisk THEN BuiltinRisk[id]
  ELSE IF id \in DOMAIN Tools THEN Tools[id].risk ELSE "external_effect"
PermissionsOf(id) == IF id \in DOMAIN Tools \ DOMAIN BuiltinRisk THEN Tools[id].needs ELSE {}

-----------------------------------------------------------------------------
(* Permission *)

AutoMinLevel == [read |-> 2, safe_write |-> 3, external_effect |-> 4]
CanAutoRun(risk, level) == risk \in DOMAIN AutoMinLevel /\ level >= AutoMinLevel[risk]
Classify(risk, level) ==
  IF CanAutoRun(risk, level) THEN "authorized"
  ELSE IF level < 2 THEN "denied" ELSE "needs_approval"

\* Mutant: what a tool says it needs is not read.
OutcomeIgnoringNeeds(id, level) == Classify(RiskOf(id), level)
\* A permission that was not granted holds back what would have run on its own.
Outcome(id, level) ==
  LET outcome == Classify(RiskOf(id), level) IN
  IF outcome = "authorized" /\ PermissionsOf(id) \ Granted # {} THEN "needs_approval" ELSE outcome

EvaluatePlan(plan, level) ==
  [outcome \in {"authorized", "needs_approval", "denied"} |->
     SelectSeq(plan, LAMBDA id : Outcome(id, level) = outcome)]

-----------------------------------------------------------------------------
(* The deterministic brain *)

PlanFor(kind) ==
  CASE kind = "network_failure" -> <<"network.inspect_shape", "workspace.get_state">>
    [] kind = "security_alert" ->
         <<"security.scan_dependencies", "workspace.get_state", "security.update_dependency">>
    [] OTHER ->
         <<"development.read_logs", "development.read_build_state", "data.inspect", "development.revert_diff">>

\* The first critical problem, or the first.
Primary(problems) ==
  LET critical == SelectSeq(problems, LAMBDA p : p.critical) IN
  IF critical # <<>> THEN critical[1] ELSE problems[1]

Decision(intent, variant, plan) ==
  [intent |-> intent, variant |-> variant, confidence |-> "enough", plan |-> plan]

\* deterministicDecision: an open problem first, then a resolution, then the person.
Deterministic(before, e, after) ==
  IF after.problems # <<>>
  THEN Decision("surface_incident", Primary(after.problems).kind, PlanFor(Primary(after.problems).kind))
  ELSE IF e.type \in DOMAIN Closers \/ NetworkSignal(before, e) THEN Decision("restore_normal", None, <<>>)
  ELSE IF after.intent \in AugmentKinds THEN Decision("augment", after.intent, <<"workspace.get_state">>)
  ELSE Decision("none", None, <<>>)

\* DecisionEngine.evaluate: a provider's decision when it is valid, else the brain's.
Answers == {"valid", "invalid", "failed"}
Decided(answer, theirs, ours) == IF answer = "valid" THEN theirs ELSE ours

-----------------------------------------------------------------------------
(***************************************************************************)
(* runIngest from end to end on one session: the world, the decision, what *)
(* runs and what is asked, the patch, the guard, the body, and the tick    *)
(* the host sends itself when a morph was only too early.  The person may  *)
(* undo the newest morph, answer what is asked and change the level of     *)
(* autonomy.                                                               *)
(***************************************************************************)
CONSTANTS
  Script,     \* the families of events of this run
  Provided,   \* whether there is a provider besides the deterministic brain
  Levels,     \* the levels the person chooses from, the first one to begin with
  Answering,  \* whether the person answers what is asked
  MaxEvents   \* bound: events ingested

VARIABLES
  world, presence, tree, level,
  back,          \* the newest morph: its intent and its inverse; or none
  sinceMorph, sinceMajor,
  retry,         \* when the host ticks, or Never
  asked,         \* the questions: [decision, id] -> pending or approved
  last,          \* the last step: the intent applied, what ran, what needed asking
  overruled,     \* the person took the newest morph back          (history)
  count

vars == <<world, presence, tree, level, back, sinceMorph, sinceMajor, retry, asked, last, overruled, count>>

-----------------------------------------------------------------------------
(* What may happen *)

Troubles ==
  {Event(type, "development", IF Openers[type].critical THEN Critical ELSE Warning) :
     type \in {"development.server_error", "development.build_failed"}}
  \cup {Event(type, "development", 1) : type \in {"development.server_recovered", "development.build_succeeded"}}
  \cup {[Event("network.request", "external", 1) EXCEPT !.name = "h", !.amount = a] : a \in {2, 5}}
Alerts ==
  {Event("security.vulnerability_detected", "development", Critical),
   Event("security.vulnerability_patched", "development", 1)}
Returns == {[Event("user.visibility", "user", 1) EXCEPT !.flag = TRUE, !.amount = Returning]}

Events == UNION {CASE f = "troubles" -> Troubles [] f = "alerts" -> Alerts [] OTHER -> Returns : f \in Script}

\* The valid decision a provider answers with, which plans a tool, what nobody registered and a
\* write, and may be named as the last one was.
Theirs == IF Provided THEN {Decision("none", None, <<"mcp.read", "unheard.of", "memory.store">>)} ELSE {}

Nothing == [applied |-> "none", ran |-> <<>>, needed |-> {}, by |-> 0]
Ticking == Event("runtime.reconcile", "system", 0)

Init ==
  /\ world = EmptyWorld /\ presence = "observing" /\ tree = DevBody
  /\ level = Levels[1] /\ back = <<>>
  /\ sinceMorph = Never /\ sinceMajor = Never /\ retry = Never
  /\ asked = [q \in {} |-> "pending"] /\ last = Nothing /\ overruled = FALSE /\ count = 0

\* The id a provider gives each of its decisions; the brain names its own after the event.
Reused == 0

\* A recovery waits for nothing.
HowAsked(e, d) ==
  LET down == d.intent = "restore_normal" IN
  Asked(d.confidence, IF e.severity = Critical THEN "critical" ELSE "other", Nobody,
        sinceMorph, sinceMajor, IF down THEN 0 ELSE Cooldown, IF down THEN 0 ELSE MajorDwell)

\* What is planned, bound to the outputs of the capabilities that ran.
Planned(d, ran) ==
  ResolvePatchBindings(PlanMorph(tree, d.intent, d.variant, 1), {o \in Outputs : Contains(ran, o[1])})

\* The part of runIngest after the decision d, identified by who made it: the plan, how
\* it is asked for, what the guard leaves of it and what applying that does.
Act(e, d, name) ==
  \E plan \in {EvaluatePlan(d.plan, level)}, how \in {HowAsked(e, d)} :
  \E guard \in {GuardPatch(tree, Planned(d, plan["authorized"]), how)} :
  \E done \in {ApplyPatch(tree, guard.patch)} :
  LET needed == {<<name, plan["needs_approval"][i]>> : i \in DOMAIN plan["needs_approval"]}
      opened == needed \ DOMAIN asked
      applies == guard.patch # <<>> /\ done.ok
  IN
  /\ asked' = [q \in DOMAIN asked \cup opened |-> IF q \in opened THEN "pending" ELSE asked[q]]
  /\ last' = [applied |-> IF applies THEN d.intent ELSE "none", ran |-> plan["authorized"],
              needed |-> needed, by |-> level]
  /\ IF applies
     THEN /\ tree' = done.tree /\ back' = <<[inverse |-> done.inverse, intent |-> d.intent]>>
          /\ overruled' = (overruled /\ d.intent = "augment")
          /\ sinceMorph' = 0 /\ sinceMajor' = IF d.intent = "restore_normal" THEN sinceMajor ELSE 0
          /\ presence' = "acting"
     ELSE /\ UNCHANGED <<tree, back, overruled, sinceMorph, sinceMajor>>
          /\ presence' = IF opened # {} THEN "waiting_for_approval" ELSE "evaluating"
  /\ retry' = IF applies THEN Never
              ELSE IF RetryAfter(guard, how) # Never THEN RetryAfter(guard, how)
              ELSE IF e = Ticking THEN Never ELSE retry

\* What may be decided, with its name: the brain alone, or whatever a provider answers.
Courses(ours) ==
  {<<ours, count + 1>>}
  \cup {<<Decided(a, d, ours), IF a = "valid" THEN Reused ELSE count + 1>> : a \in Answers, d \in Theirs}

Ingest(e) ==
  \E next \in {Folded(world, e)} :
  /\ world' = next /\ count' = count + 1
  /\ UNCHANGED level
  /\ IF Deliberates(world, e, next)
     THEN \E choice \in Courses(Deterministic(world, e, next)) : Act(e, choice[1], choice[2])
     ELSE /\ presence' = NextPresence(presence, FALSE) /\ last' = Nothing
          /\ retry' = IF e = Ticking THEN Never ELSE retry
          /\ UNCHANGED <<tree, back, sinceMorph, sinceMajor, asked, overruled>>

Happens == count < MaxEvents /\ \E e \in Events : Ingest(e)

Later(since) == IF since = Never THEN Never ELSE IF since < MajorDwell THEN since + 1 ELSE since
\* Time passes, up to the tick that is due.
Passes ==
  /\ retry # 0
  /\ sinceMorph # Later(sinceMorph) \/ sinceMajor # Later(sinceMajor) \/ retry # Never
  /\ sinceMorph' = Later(sinceMorph) /\ sinceMajor' = Later(sinceMajor)
  /\ retry' = IF retry = Never THEN Never ELSE retry - 1
  /\ last' = Nothing
  /\ UNCHANGED <<world, presence, tree, level, back, asked, overruled, count>>
Reconciles == retry = 0 /\ count < MaxEvents + 2 /\ Ingest(Ticking)

Undo ==
  /\ back # <<>> /\ back' = <<>>
  /\ tree' = ApplyPatch(tree, back[1].inverse).tree
  /\ overruled' = (overruled \/ back[1].intent # "augment")
  /\ sinceMorph' = Never /\ sinceMajor' = Never /\ last' = Nothing
  /\ UNCHANGED <<world, presence, level, retry, asked, count>>
\* An approval stands in the way of the same question, a refusal is forgotten.
Approve(q) == asked[q] = "pending" /\ asked' = [asked EXCEPT ![q] = "approved"]
Reject(q) == asked' = [r \in DOMAIN asked \ {q} |-> asked[r]]
Answer(q) ==
  /\ Approve(q) \/ Reject(q)
  /\ last' = Nothing
  /\ UNCHANGED <<world, presence, tree, level, back, sinceMorph, sinceMajor, retry, overruled, count>>
SetLevel(l) ==
  /\ l # level /\ level' = l /\ last' = Nothing
  /\ UNCHANGED <<world, presence, tree, back, sinceMorph, sinceMajor, retry, asked, overruled, count>>

Next ==
  \/ Happens \/ Passes \/ Reconciles \/ Undo
  \/ \E q \in DOMAIN asked : Answering /\ Answer(q)
  \/ \E l \in ToSet(Levels) : SetLevel(l)
Spec == Init /\ [][Next]_vars

-----------------------------------------------------------------------------
\* The body follows the world: unless the person took a morph back, or a tick is due,
\* an incident is shown exactly while a problem is open - through the reflex, the
\* decision, the planner, the guard and its waits, whatever opens or closes when.
BodyFollowsProblems ==
  ~overruled /\ retry = Never => (("incident" \in Ids(tree)) <=> (world.problems # <<>>))

\* "The morphed workspace shows LIVE diagnostics, not placeholder content"
\* (runtime-core): what a morph brings in reads only capabilities its own plan ran.
ShownIsLive ==
  [][last'.applied # "none" /\ last'.by >= 2 =>
       \A n \in Ids(tree') \ Ids(tree) : tree'.look[n].content # Unsaved =>
          tree'.look[n].content[1] # "reads"]_vars

\* "An ungranted name only ever holds one back, never lets one through"
\* (permission.ts): nothing a decision plans reaches outside on its own below full
\* autonomy, nor uses a tool whose permission was not granted at any level.
NothingUnaskedRuns ==
  \A id \in ToSet(last.ran) :
    /\ id \in Registered => PermissionsOf(id) \subseteq Granted
    /\ RiskOf(id) = "external_effect" => last.by = 4

\* "A non-auto capability is needs_approval (an ApprovalRequest is created)"
\* (AUTONOMY_AND_SECURITY.md): what a step had to ask for is a question that waits.
EveryNeedIsAsked == \A q \in last.needed : asked[q] = "pending"

\* "suggestive - may recommend, cannot apply" (autonomy.ts): below the adaptive level no
\* morph is applied.
SuggestionsAreNotApplied == last.applied # "none" => last.by >= 2

\* Each problem opens on the layout of its kind (blueprints.ts): the incident shown is
\* of a kind that is open.
ShownKindIsOpen ==
  ~overruled /\ retry = Never /\ "incident" \in Ids(tree) =>
     \E kind \in KindsOf(world.problems) : tree.look["incident"].content = Titled(kind)
=============================================================================
