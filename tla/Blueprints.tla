----------------------------- MODULE Blueprints -----------------------------
(***************************************************************************)
(* The bodies the runtime knows how to show and the patches it can ask     *)
(* for: developmentBlueprint, the incident panel of each kind of problem,  *)
(* the context cards (packages/ui-registry/src/blueprints.ts), the planner *)
(* that turns an intent into a patch (morphology.ts) and the bindings that *)
(* are filled in before it is guarded (runtime-core/src/index.ts).         *)
(*                                                                         *)
(* A component's content is what it is for: it shows something, it reads a *)
(* capability's output - placeholder until the capability ran, live after  *)
(* it - or it is a button that asks for a capability or undoes a card.     *)
(* The words, sizes and colours are left out, the title that tells one     *)
(* context card from another is not.                                       *)
(***************************************************************************)
EXTENDS MorphGuard

Shows(type) == <<"shows", type>>
Titled(kind) == <<"titled", kind>>
Reads(capability, field) == <<"reads", capability, field>>
Live(capability, field) == <<"live", capability, field>>
Asks(capability) == <<"asks", capability>>
Undoes(id) == <<"undoes", id>>

\* A component with what stands in it, in order.
Node(id, content, children) ==
  FoldLeft(LAMBDA t, c : Graft(t, id, Len(t.kids[id]) + 1, c), Leaf(id, content), children)
Plain(id, type) == Leaf(id, Shows(type))

\* developmentBlueprint: an editor with unsaved work, beside the files.
DevBody ==
  Node("workspace", Shows("Stack"), <<
    Node("topbar", Shows("Row"), <<Plain("title", "Heading"), Plain("workspace-mode", "Badge")>>),
    Node("main", Shows("SplitPane"), <<Plain("files", "FileExplorer"), Leaf("editor", Unsaved)>>),
    Node("devstatus", Shows("Panel"), <<Plain("build-state", "Badge"), Plain("test-state", "Badge")>>)>>)

-----------------------------------------------------------------------------
(* The incident panel of each kind *)

IncidentKinds == {"runtime_error", "build_failure", "test_failure", "security_alert", "network_failure"}

UndoButton == Leaf("action-undo-morph", Undoes("incident"))
ActionPanel(buttons) == Node("incident-actions", Shows("ActionPanel"), Append(buttons, UndoButton))
\* ACTIONS
DevelopmentActions == ActionPanel(<<Leaf("action-revert", Asks("development.revert_diff"))>>)

Assessment ==
  Node("incident-assessment", Shows("Card"),
       <<Plain("incident-assessment-text", "Markdown"), Plain("incident-confidence", "Progress")>>)
Timeline == Plain("incident-timeline", "Timeline")
Diff == Plain("incident-diff", "DiffViewer")

Incident(kind, rows, actions) ==
  Node("incident", Titled(kind), <<Node("incident-grid", Shows("Grid"), rows), actions>>)

BuildFailurePanel ==
  Incident("build_failure", <<Plain("incident-logs", "LogViewer"), Diff, Assessment, Timeline>>,
           DevelopmentActions)
TestFailurePanel ==
  Incident("test_failure", <<Plain("incident-tests", "Table"), Diff, Assessment, Timeline>>,
           DevelopmentActions)
NetworkFailurePanel ==
  Incident("network_failure",
           <<Leaf("incident-hosts", Reads("network.inspect_shape", "rows")), Assessment, Timeline>>,
           ActionPanel(<<>>))
SecurityAlertPanel ==
  Incident("security_alert",
           <<Leaf("incident-vuln", Reads("security.scan_dependencies", "rows")), Assessment, Timeline>>,
           ActionPanel(<<Leaf("action-update-dep", Asks("security.update_dependency"))>>))
RuntimeErrorPanel ==
  Incident("runtime_error",
           <<Leaf("incident-logs", Reads("development.read_logs", "lines")), Diff,
             Plain("incident-services", "Table"), Assessment, Timeline, Plain("incident-chart", "Chart")>>,
           DevelopmentActions)

\* incidentPanel
IncidentPanel(kind) ==
  CASE kind = "build_failure" -> BuildFailurePanel
    [] kind = "test_failure" -> TestFailurePanel
    [] kind = "network_failure" -> NetworkFailurePanel
    [] kind = "security_alert" -> SecurityAlertPanel
    [] OTHER -> RuntimeErrorPanel

\* A situation seen before is marked as recurring, first in the panel.
Recurrence ==
  Node("incident-recurrence", Shows("Row"),
       <<Plain("incident-recurrence-badge", "Badge"), Plain("incident-recurrence-count", "Badge")>>)

Marked(panel, recurrence) ==
  IF recurrence >= 2 THEN Graft(panel, "incident", 1, Recurrence) ELSE panel

IncidentPatch(kind, recurrence) ==
  <<SignalOp("collapse", "files"), AddOp("workspace", 3, Marked(IncidentPanel(kind), recurrence)),
    SignalOp("highlight", "incident")>>

RecoveryPatch == <<RemoveOp("incident"), SignalOp("expand", "files")>>

-----------------------------------------------------------------------------
(* The context cards *)

AugmentKinds == {"returning", "stuck", "switching"}

ContextText(kind) ==
  CASE kind = "stuck" -> Plain("context-text", "Markdown")
    [] kind = "switching" -> Leaf("context-text", Reads("workspace.get_state", "juggling"))
    [] OTHER -> Leaf("context-text", Reads("workspace.get_state", "summary"))
Dismiss == Leaf("context-dismiss", Undoes("context"))
ContextCard(kind) ==
  Node("context", Titled(kind),
       IF kind = "stuck"
       THEN <<ContextText(kind), Leaf("context-facts", Reads("workspace.get_state", "stuckRows")), Dismiss>>
       ELSE <<ContextText(kind), Dismiss>>)

AugmentPatch(kind) == <<AddOp("workspace", 2, ContextCard(kind)), SignalOp("highlight", "context")>>

-----------------------------------------------------------------------------
(* planMorph *)

AsIncidentKind(variant) == IF variant \in IncidentKinds THEN variant ELSE "runtime_error"
AsAugmentKind(variant) == IF variant \in {"stuck", "switching"} THEN variant ELSE "returning"

\* Nothing is planned where the body already shows it: the empty patch.
NoPatch == <<>>

\* One context card at a time; another kind takes the place of the one shown.
Augment(t, kind) ==
  IF "context" \notin Ids(t) THEN AugmentPatch(kind)
  ELSE IF t.look["context"].content = Titled(kind) THEN NoPatch
  ELSE <<ReplaceOp("context", ContextCard(kind))>>

PlanMorph(t, intent, variant, recurrence) ==
  LET incident == "incident" \in Ids(t) IN
  CASE intent = "surface_incident" /\ ~incident -> IncidentPatch(AsIncidentKind(variant), recurrence)
    [] intent = "restore_normal" /\ incident -> RecoveryPatch
    [] intent = "augment" -> Augment(t, AsAugmentKind(variant))
    [] OTHER -> NoPatch

\* resolvePatchBindings: what reads a field of a capability's output shows it, when
\* the capability ran and the field is on its output.
Filled(c, outputs) ==
  [c EXCEPT !.look = [n \in Ids(c) |->
     IF c.look[n].content \in {Reads(o[1], o[2]) : o \in outputs}
     THEN [c.look[n] EXCEPT !.content = Live(@[2], @[3])] ELSE c.look[n]]]
ResolvePatchBindings(patch, outputs) ==
  [i \in DOMAIN patch |->
     IF patch[i].op \in {"add", "replace"}
     THEN [patch[i] EXCEPT !.component = Filled(@, outputs)] ELSE patch[i]]
=============================================================================
