# Particle AI, specified, checked and proved

TLA+ modules of Particle AI (the TypeScript monorepo beside this directory), the
TLC configurations that check them on small instances, and proofs, checked by
TLAPS, of what holds for every instance.

    tlc -workers 2 -config Intake.cfg MCIntake.tla
    tlapm SessionLanes_proofs.tla

`PROJECT.json` lists the runs, which lines each definition stands for, the
hazards the properties are for, and for every property a plausible bug that
breaks it. Those bugs are definitions too: one that stands beside another and
is used by none (`PumpedNewest` beside `Pumped`) is the same definition with a
bug in it.

Contents: 1 the system, 2 the modules, 3 the runs, 4 where the code and its
words part, 5 what is proved, 6 what is not modelled, 7 what comes next.

## 1. The system

A *sensor* (the agent on a machine, the browser extension, the web page itself)
sends events. The *runtime* folds each into a belief about the person's world,
decides whether it matters, asks a brain what to do, runs the capabilities that
need no consent, and reshapes the *body* - a tree of components every connected
page draws. The person can take any change back, and the runtime learns from it.

    sensor -> HTTP route or broker -> duplicate memory -> session lane
           -> loop: significance -> world -> decision -> permission/capability
                    -> plan -> guard -> apply
           -> snapshots, trail, broadcast -> bodies
    person -> undo / redo / approve / reject / resume    (outside the lane)

The web page may also run the same loop by itself, over a log it keeps in the
browser, and be switched to a runtime and back.

| Component | State | Operations | What must be true of it |
|---|---|---|---|
| Session lanes, `queue.ts` | a backlog and a running flag per session, losses per session | `run`, `pump`, `remember` | order within a session, nothing vanishes, no lane stalls, losses are not overstated |
| Duplicate memory, `seen.ts` | ids per session, bounded both ways | `firstTime`, `forget` | an event is folded once; one that was let go is accepted again |
| Session runtime, `runtime.ts` | lanes, memory, timers, stores, listeners | `fold`, `ingest`, `undo`, `redo`, `approve`, `reject`, `resume` | the body catches up with the world; a reversal persists its lesson |
| Loop, `runtime-core` | per session: world, body, history, redo stack, memory, timing, a queue; an LRU of sessions | `ingest`, `undo`, `redo`, `hydrate`, `importMemory`, `approve`, `reject` | undo and redo fit the body they meet; lessons balance; consent is used once; runs of a session are serial |
| Morph engine | none (pure), and `MorphHistory` | `applyPatch`, `guardPatch`, `computeDiff` | an inverse restores the tree; ids stay unique; unsaved work stays; a diff lands |
| UI registry | none (pure) | `planMorph` and the patches | a plan is never impossible; a button undoes its own card |
| World model, significance, intent | none (pure) | `reduce`, `evaluateSignificance`, `inferIntent` | a problem is open until what opened it is over; no change goes unnoticed |
| Decision engine, brains, router | none; the network | `evaluate`, `decide`, `route` | always a valid decision, from the fallback if need be; what is private stays here |
| Permission engine | approvals, autonomy, trail | `create`, `approve`, `reject`, `delete` | a decision is final, an open question goes last, nothing unasked runs |
| Capability core, MCP adapter | registry | `register`, `execute` | two tools are two capabilities; an id keeps its meaning |
| Memory | weights, episodes, patterns | `reinforce`, `load`, `observe`, `takeSuggestions` | weights never below zero, offered once |
| Event bus, shutdown | offsets, a broker's group; a deadline | `publish`, `subscribe`, `deliver`, `close` | folded once in a life; one runtime per group; a stop ends |
| Persistence, event core, observability | bounded logs, latest snapshots | `append`, `save`, `list` | a busy session takes nothing from a quiet one; the latest of each kind |
| Agent | send queue, read queue, schedule of captures | `send`, `push`, `claim` | order of transitions; every event and every picture is accounted for, a loss is told of |
| Screen capture | none; a process or a socket | `captureWindow`, `capture` | one answer, a picture only where the file is there |
| Browser extension | consent, queue, counts, hosts | `observe`, `report`, `relay` | nothing observed without consent, nothing counted is lost, no secret is named |
| Web body | socket, cards, log, restore gate, clock | `connect`, `switch`, `restore`, `decide` | one socket feeds the body; a reload restores the session; the gate opens |

What is hard here is not computation but order. One process serves many
sessions on one thread; it interleaves at every `await` and at every microtask.
Undo, redo, approvals and resumes do not take the session's lane. The broker may
repeat and delay. Every store has a ceiling, and what a ceiling pushes out may
still be needed. Timers race with what they were armed for. The process, the
page and the extension's worker stop between any two writes.

## 2. The modules

| Module | Models | Of |
|---|---|---|
| `SessionLanes`, `OnceOnly` | the intake: lanes, losses, duplicate memory; what it promises one event | `apps/runtime`: `queue.ts`, `seen.ts`, `fold`/`submit`/`ingest` of `runtime.ts` |
| `Reconcile` | a body held back by the cooldown, and the tick that brings it back | `runIngest`/`scheduleReconcile` of `runtime.ts` |
| `Snapshots` | who saves what beside whom, over a pool of connections | `runIngest`/`persistReversal`/`resume` of `runtime.ts`, `persistence/src/pg.ts` |
| `Channel` | processes behind a broker, and how they stop | `event-bus/src/kafka.ts`, `shutdown.ts` |
| `CoreSessions` | the sessions of the loop: the LRU, the queues, the awaits | `runtime-core/src/index.ts` |
| `MorphTree`, `MorphDiff`, `MorphGuard` | `applyPatch`, `computeDiff`, `guardPatch` | `packages/morph-engine` |
| `Blueprints` | bodies, cards, patches and the planner | `packages/ui-registry`, the bindings in `runtime-core` |
| `WorldModel` | the belief, the reflexes and the intent | `world-model`, `significance-engine`, `intent-engine` |
| `Brain` | decision, autonomy, capabilities; the loop end to end | `intelligence/src/deterministic.ts`, `permission-engine`, `capability-core`, `runIngest` of the core |
| `MorphSession` | one body: morph, dismissal, undo, redo, lessons, snapshots, resume | `runtime-core`, `history.ts`, `memory/src/stores.ts` |
| `Approvals` | questions, their plans, and answers | `permission-engine/src/approvals.ts`, `approve`/`reject` of the core |
| `Memory` | preferences and patterns; what a session learns, saves, loses and resumes | `packages/memory`, the core, `runtime.ts` |
| `Logs` | the bounded stores every event is written to | `persistence`, `observability`, `event-core` |
| `Routing` | which brain is asked, and what becomes of its answer | `intelligence`: `router.ts`, `anthropic.ts`, `openai.ts`, `http.ts`; `decision-engine` |
| `Tools` | what other processes offer and what it is registered as | `mcp-adapter`, `capability-core/src/registry.ts` |
| `Connection` | a body's socket, its reconnects and its switches | `apps/web`: `runtimeClient.ts`, `useRuntimeConnection.ts`; `server.ts` |
| `Cards` | the cards on which several bodies are asked | the same, and `Workspace.tsx` |
| `Workspace` | the body with a core of its own: log, history, restore gate, clock | `apps/web`: `Workspace.tsx`, `useSessionRestore.ts`, `session.ts`, `replayClock.ts` |
| `AgentSends` | the agent's send queue and its notices of loss | `apps/agent`: `shape.ts`, `signals.ts`, `index.ts` |
| `AgentScreen` | the agent's captures and the one model that reads them | `apps/agent`, `screen-capture`, `intelligence/src/screen.ts` |
| `Cameras`, `OnePicture` | taking one picture with either backend; what a camera promises | `screen-capture`, `screen-capture-obs` |
| `Sensing` | what the body shows as being sensed | `apps/agent`, `apps/extension`, `world-model` |
| `BrowserSensor` | the extension's worker, its consent and its lives | `apps/extension`: `background.ts`, `options.ts`, `shape.ts` |
| `ContentScript` | the reports of one page's content script | `content.ts` |
| `NetworkShaper`, `PageLayer` | which requests are told of; what is said of a page | `shape.ts`, `page.ts` |

A module `x_proofs` holds the theorems about `x`, and about machines that the MC module of
`x` runs beside it. The modules compose by
`EXTENDS` where the code calls: `MorphGuard` and `MorphDiff` stand on
`MorphTree`, `Blueprints` on `MorphGuard`, `Brain` on `WorldModel` and
`Blueprints`, which it puts into one loop. Where components only share a promise
they stay apart and the promise is an action: a save is one step in `Memory` and
several in `Snapshots`; a lane is an answer of the loop in `Channel` and a queue
in `SessionLanes`.

### What TLC runs: the MC modules

Eight modules put the components on instances for TLC. Each `EXTENDS` one
component (the one with proofs, so that TLC also evaluates what the proofs
assume of its constants) and `INSTANCE`s others with small values:

| Module | Of the system | Base | And |
|---|---|---|---|
| `MCIntake` | how events reach a session | `SessionLanes` | the lanes of two sessions, `Reconcile` |
| `MCRuntime` | what the runtime keeps of its sessions | `CoreSessions` | `Snapshots`, `Memory`, `Logs` |
| `MCDecisions` | what is decided and who consents | `Approvals` | `Cards`, `Brain`, `Routing`, `Tools` |
| `MCSenders` | the senses that send, and the broker | `AgentSends` | `BrowserSensor`, `NetworkShaper`, `Channel` |
| `MCScreen` | what is read of a person's screen and page | `AgentScreen` | `PageLayer` |
| `MCLive` | what must eventually happen | `Cameras` | a small instance of eleven components |
| `MCBrowser` | the body, and what a person takes back | `ContentScript` | `Workspace`, `Connection`, `MorphSession` |
| `MCBody` | what a session believes and shows | `Sensing`, `Blueprints` | `WorldModel`, `MorphTree`, `MorphGuard`, `MorphDiff` |

The components in such a module share no variable, so their product would show
nothing that each of them alone does not. `part` names the one that moves in a
behaviour; the others stay as they began. A property of such a module is the
conjunction of the component properties that answer one question, and where a
component property is false of an instance that does not move (a body nobody
told anything) `part` guards it. `WorldModel`, `MorphTree`, `MorphGuard` and
`Blueprints` hold operators only; the steps that apply them are in `MCBody`.

### The intake: SessionLanes

`lanes[s]` is the `Lane` of a session: what waits and what runs. A lane with
neither is the code's absent Map entry. `Submit` is the body of
`SessionQueues.run`, in one step because nothing in it is awaited: count, drop
the oldest, push, pump. `Finish` is the `finally` in `pump`. `seenOrder` and
`seenIds` are `SeenEvents.bySession`, its order kept because evictions read it.

The one gap between two steps that matters is between the lane rejecting an
event and the `catch` in `fold` that forgets it: the catch runs in a later
microtask, and the same task may accept more events before it. `unsettled`
holds those handlers, `Forget` is one of them running, and `Burst` bounds how
many events may come in between. The ticket on a job, `settled`, `lost` and
`lapsed` are history: only properties read them.

`OnceOnly` says what a sender may rely on: an event is taken, then run once or
let go; a copy of one in hand, or remembered as run, changes nothing. TLC checks
that every step of `SessionLanes` is a step of it or none.

### The broker: Channel

A session is a partition, since `publish` keys messages by session. `topic` and
`committed` are the broker's and external; `pos` is how far a member has read,
`hand` the message being folded, `seen` the `SeenEvents` of that process: so many
sessions in the order of their last event, so many ids of each. What its two bounds
made it forget is in `lapsed`, a history variable. A process is started, asks who is in the group (`refuseASecondRuntime`), joins, is
up, stops, or dies. `Move` is a rebalance nobody here asked for. `folded` and
`belief` say what was folded by which life. `MCSenders` runs it three times: one
process that is restarted or serves two sessions (`Alone`), and two processes of one
life each (`Meeting`), with room in their memories for all that comes and without.

### The loop: CoreSessions, Brain, MorphSession, Approvals, Reconcile

`CoreSessions.lru` is the core's Map in its order of use. Every touch of a
session by name is `Session`, which may begin a new life of it and let another
go; a run keeps the life it bound at its first step, as the closure in
`runIngest` does. Its awaits are steps: `deciding` while the brain answers,
`running` while capabilities do.

`Brain` is `runIngest` without those awaits: the event is judged against the
world before it, folded in, decided on, its capabilities run or asked about, the
patch planned, bound, guarded and applied. `Theirs` is what a provider may decide
instead of the deterministic brain: one plan that leaves the body as it is and holds a
tool, a write and a capability nobody registered, under a new id or the last one's.

`MorphSession.s` is the loop's `SessionState` for undo and redo. A morph, an
undo and a redo are one step each: from planning to applying the loop awaits
nothing, and the routes call it synchronously. `past` and `ahead` remember the
bodies the stacks were pushed over, and only properties read them. The body is
the development blueprint cut down to the ids that patches name and the
siblings their indexes count; `Blueprints` has the whole of it.

In `Approvals`, `records` is the store's Map in its order and `plans` is
`pendingExecutions`. A question is numbered by when it was asked, since ids are
built from a decision id that a model chooses and may come again.

`Reconcile` is one session with one problem. `Fold` judges the event against the
world before it and folds it in; `Judge` is the rest of the loop, the timer it
arms or cancels, and the lane pumping its next event.

### Bodies: MorphTree, MorphGuard, MorphDiff, Blueprints

A tree is its root, the children of each id and the content of each id. `Step`
is one turn of `applyPatch`'s loop, and a patch folds it over its operations, so
a failure anywhere yields nothing. Positions count from one; an absent index is
one past the end, as `splice` makes of it. `GuardPatch` returns what may be
applied, and why not and for how long if not. `ComputeDiff` is four passes over
the walks of the two trees, in the code's order. In `Blueprints` a component's
content is what it is for: it shows something, reads a capability's output, or
is a button; words, sizes and colours are left out.

### The belief: WorldModel

`Reduce` is `reduce`, one definition per kind of event; `Score` is the sum of
`evaluateSignificance`, in ten-thousandths; `Reflex` and
`Deliberates` say what is looked at twice. Names are what the readers of payloads make of them: a name that
is cleaned and cut, or none. `down` and `declared` are history.

### What is learned and kept: Memory, Snapshots, Logs

The tables of `Memory` keep the order their keys came in, because that
order breaks a tie at the ceiling. The module is one session over lives of the
process: what an applied morph, a dismissal and its taking back teach, when a
suggestion goes out and when its mark is saved.

In `Snapshots` a save is two statements, and `Connections` of them are in hand
at once; `overtaken` remembers that one ran before another handed over earlier. The lane's saver waits for its own; a reversal's does not wait for
anybody (`void (async () => ...)`). A kill may come between any two statements.

`Logs` is one write to all the stores, as one event makes it.

### Thinking: Routing, Tools

`env` is what the environment says; `Route` is the router's; a turn of a provider
ends in one of the ways its adapter tells apart; `Evaluate` makes a decision of
it. In `Tools` a name is its characters by code, since ids are built from them.

### The web body: Connection, Cards, Workspace

Every switch to the runtime makes a client; each has its socket, its timer, and
frames on their way. `asked` is the one `getUI` under way. In `Cards` a question
goes out over sockets and in the answer to the event that caused it, and these
race. In `Workspace` the core is cut down to what the page depends on: whether
the body is behind the world, what can be undone, one pattern, one lesson.
`restoring` is the rest of the log while the gate is shut, `replayAt` the replay
clock. A reload keeps what was saved and nothing else.

### The sensors

`AgentSends`: `queue` is the promise chain, its head in flight; an answer may be
an acknowledgement with a count of losses, an error, a failure, one nobody can
read, or none within five seconds, after which the event may still arrive
(`late`). The properties compare what the notices said with three things: losses no
answer has told of yet (`Unread`), losses a restart of the runtime hides because its
count begins again below the one heard (`hidden`), and all there were (`gone`).
`AgentScreen`: a reading of the window may claim the camera, the
picture is told of, queued for the one model, and may be gone when it is read.
`Cameras` goes into that camera: a process that prints lines and is killed at
its deadline, or a talk with OBS over a socket, step by step of its protocol.

`Sensing`: processes declare layers under a name, and the belief keeps the last
declaration of each name. `BrowserSensor` is one worker over several lives; what
it holds is gone with it, what is stored is not. The reads of `chrome.storage`
are assumed to be answered in the order they were made. What is observed is checked
against consent and put in line in one step, but for a return to a window: it is
checked, waits for storage twice, and may be sent after consent was taken back
(`returns`). The queue drops its newest at `MaxPending`, a declaration too (`unsaid`). `ContentScript` is the
page beside it: one timer whose four reports go one after another, and a report
of an absence that may already be in flight. `NetworkShaper` is the sample of
requests with the two maps of times; `PageLayer` shapes a page twice, at the page
and where the worker relays it.

## 3. The runs

Eight runs pass, all states visited.

| Run | States | What moves (`part`), on what instance | What it shows |
|---|---|---|---|
| `Intake` | 72,904 | *one*: a session, five events in any order and repeatedly, a lane of 2, seven hand-overs, up to one event between a loss and its handler. *two*: two sessions with room for one in the memory and in the map of losses, lanes of 1, three events. *body*: a lane of 6, five events. | Events of a session run in order, a lane with work never rests, an event is in exactly one place, a refusal has its reason, and the intake implements `OnceOnly` (`KeepsThePromise`). Sessions that push each other out overstate nothing and let no second copy through (`MemoriesOfTwo`). An idle session is in step or has a timer (`QuietMeansCaughtUp`). |
| `Runtime` | 2,508,242 | *core*: two names, room for one, three events. *snapshots*: a pool of two, two reversers, three steps, two lives, no failure. *failures*: the same pool, savers and steps, one life, one failure, statements in turn. *memory*: two situations, room for two preferences and one pattern, weights to 2, five steps, two lives. *logs*: three sessions, room for two, three events each, four in all. | Runs keep apart until a session makes room (`RunsKeepApart`), overlapping savers leave one row of a kind and the newest, and until a statement overtakes an earlier one never a body without its lesson (`SnapshotsAgree`), weights are lessons taught less lessons handed back (`MemoryAddsUp`), the bounded stores agree on what they keep (`LogsAgree`). |
| `Decisions` | 93,629 | *consent*: three ids, a ceiling of 2, five questions. *cards*: two bodies, one question. *brain*: eight kinds of event, three of them. *model*: a provider that plans a tool, a write and something unknown, or fails, under a new id or its last, at all four levels of autonomy. *routing*: every environment. *tools*: two servers, listings of up to three tools. | Consent runs once and an open question can be answered (`ConsentIsKept`) and goes last (`OpenQuestionsGoLast`); settled cards go (`CardsAreSettled`); the body follows the problems and nothing unasked runs (`BrainServesTheWorld`); what is private stays (`RoutingIsSound`); a tool's id keeps its meaning (`ToolsKeepTheirMeaning`). |
| `Senders` | 1,667,093 | *agent*: a queue of 2, four things seen, one failure, one late arrival, one restart, two let go. *worker*: one tab, a queue of 2, two changes of consent, two things observed, two wakes. *network*: two hosts with room for one, time to 3, two lives. *channel*: one runtime with a memory of one id and one session, three messages in one session over two lives, or two in each of two sessions in one; one death. *pair*: two runtimes with room for two ids, two messages, two rebalances. *forgetful*: the same with room for one, one rebalance. | Transitions arrive in order (`InOrder`), every event is counted and a loss the runtime told of is named once (`LossesAreTold`), a settled belief is true (`SettledBeliefIsTrue`); consent is followed (`ConsentIsFollowed`); outages are told (`OutagesAreTold`); nothing the memory still holds is folded twice in a life or out of order, two share a group only if the broker named neither, a process alone that closes in time leaves nothing behind (`DeliveredOnceInOrder`). |
| `Screen` | 788,581 | *screen*: two listed programs, an interval of 2, a queue of 2, four pictures, time to 4. *page*: every page of up to three boxes and four buttons. | No program is photographed too often (`OnePerInterval`), no picture goes astray (`PicturesAreKept`), no secret of a page is named (`PageIsToldSafely`). |
| `Live` | 59,443 | twelve components, each as small as its question allows, under `Fairness`. | Either camera implements `OnePicture`; everybody who waits in the runtime, in a body or at a sensor waits for an end. |
| `Browser` | 950,779 | *page*: two absences, two shapes, one refusal. *workspace*: a log of 3, four events, two loads, and two undos or a clock set back once. *connection*: two clients, two attempts, three bodies. *history*: a session's steps over all three kinds, stacks of 2, each lesson taught once, nothing stored. *resume*: two kinds, stacks of 2, weights to 2, saved and resumed. | Reports add up (`ReportsAddUp`), a reload restores what was stamped in order, and measures no negative time however it was stamped (`ReloadRestores`), one socket feeds the body and has its attempts before it (`BodyIsTheServers`), the stacks fit the body (`StacksFit`), lessons balance (`LessonsBalance`). |
| `Body` | 656,316 | *sensors*: two agents and a browser, room for two, four starts. *belief*: every sequence of four events over two hosts and three sensors. *person*: every five of the events of a person. *tree*: trees of four, every patch of two steps. *guard*: a body of five, patches of one and two, every wait and focus. *plans*: every morph, undo and dismissal. *diff*: every pair of bodies of up to four. | The indicator is true (`IndicatorIsTrue`), the belief is sound (`BeliefIsSound`), patches and their inverses land (`PatchesLand`), morphs touch neither unsaved work nor what is typed in (`MorphsAreSafe`). |

Four runs end in a violation, of one property each, and section 4 says what they
show: `Reconcile_full` (`CatchesUp`), `Snapshots_undone` (`UndoneStaysUndone`),
`CoreSessions_evicted` (`NeverInterleaved`), `MorphSession_stale`
(`StaleClickIsHarmless`).

Why the bounds are enough. Every ceiling in the code (100 waiting, 1,000 ids,
500 sessions, 50 undos, 500 approvals, 500 preferences, 500 pending sends, five failing
hosts) is a constant of its module, set to one, two or three, so that it is reached early and
repeatedly; the code compares lengths with a ceiling and does nothing that depends
on its size. The duplicate memory stands in two modules, in `SessionLanes` beside the
lane and in `Channel` behind the broker, and is bounded in both. The number of actors is the least at which the interleaving in
question exists: two clients for a switch, two bodies for a card, two reversals
beside each other for the pool, two runtimes for a group. Five steps of a person are
what it takes for a pattern to be suggested, pushed out of its table with its mark, and
suggested again. Failures, restarts and
losses are bounded by one or two: each is a step that may come anywhere, and what
a second one can do to the first is covered where the code keeps something between
them (the count of losses, the memory of ids). Time goes far enough for every
interval to pass once with a step before and after it. Where a proof exists
(section 5) the bound is only the run's.

No symmetry set is used. Where values differ in nothing but their names (events of
one session, approval ids, situations, sessions of a log) the MC module asks that
they be named in the order in which they first come, which leaves one behaviour of
each class.

Deadlock is not checked: senders may stop and the bounds stop them, in every
instance. That nobody waits for ever is what the properties of `Live` are for.

### Fairness

Only `Live` and the run `Reconcile_full` assume any. `Fairness` of `MCLive` asks of
each component what the code's scheduling guarantees and no more, and only while
that component moves:

* lanes: a run that started settles, a rejected promise reaches its handler. The
  second is JavaScript's. The first is an assumption: calls to a provider are aborted
  after thirty seconds (`http.ts`), but a capability or a database that never answers
  is not. Such a run stops its own session's lane and no other; the safety properties
  do not rest on it.
* body: the same of the loop, that the cooldown passes, and that an armed timer
  fires. No event has to arrive.
* core: the promises of a run settle, each event's on its own.
* delivery: a broker hands over what is there and a lane answers. stopping: of a
  stop nothing but its own timer.
* socket: timers fire, a socket opens or fails, and a question asked over HTTP is
  answered or fails. The last is an assumption: `getUI` has no timeout
  (`runtimeClient.ts:405`), and `SwitchEnds` rests on it. Nothing makes a connection succeed: `GetsThere` excepts a client
  that gave up.
* workspace: the replay goes on and the events behind the gate are let through. They
  are promises of the page. No user and no clock is fair.
* sends: a send is answered or given up after five seconds.
* screen, camera: the deadline of a capture and the limit of a model's call. Neither
  the process, nor OBS, nor the model has to answer.
* page: the interval goes on, and a message is answered one way or the other. That
  the worker takes it in the end follows from the bound on refusals.
* routing: the timer of a request, and the brain in this process.

## 4. Where the code and its words part

Four runs show it, with the words quoted in `PROJECT.json`:

* `Reconcile_full`: a lane at its ceiling lets the reconcile tick go like any event,
  silently (`runtime.ts:190`), and nothing arms another (`runtime.ts:356`).
* `Snapshots_undone`: reversals save without waiting for each other or for the
  ingest, over a pool; an undo can be overwritten by what was taken before it. It takes
  a statement that runs before one handed over earlier: until then, over the same pool,
  it cannot (`SnapshotsAgree`).
* `CoreSessions_evicted`: a run chained on a session that made room begins on the new
  life of that name, beside a run of that life's own queue (`index.ts:344`).
  `SerialWhileHeld` shows it takes an eviction.
* `MorphSession_stale`: the second click on a dismissed card takes the dismissal back
  and its lesson with it. `StaleClickOnlyUndoesDismissal` shows it is the only such
  case.

Others were met while modelling. Each is a definition beside the properties of its
module, saying what the words say; no run of the project checks it, and it can be
checked by naming it in a configuration.

| Definition | The words | What the code does |
|---|---|---|
| `SessionLanes!OneCopyAtMost` | `runtime.ts:132` | a session pushed out of the duplicate memory, or a lane configured longer than it (`queue.ts:12`, `seen.ts:24`), lets a second copy through while the first waits |
| `Approvals!ApprovalIsFinal` | `approvals.ts:80` | a refusal after an approval deletes the approved record; what was approved still ran once |
| `Memory!RestartNeverReoffers` | `importMemory` | a suggestion goes out before its mark is saved |
| `Brain!EveryNeedIsAsked` | `AUTONOMY_AND_SECURITY.md` | of a decision that reuses an id nothing is asked again (`index.ts:420`); no property that holds speaks of it |
| `Brain!SuggestionsAreNotApplied` | `autonomy.ts` | the level holds back capabilities, not morphs |
| `Brain!ShownKindIsOpen` | `blueprints.ts` | of two problems the panel of the closed one may stay |
| `Routing!UnfinishedIsNamed` | `failure.ts` | the OpenAI adapter does not see that a turn was cut |
| `Routing!LoginIsAWayIn` | `.env.example` | a login alone makes no brain |
| `Connection!StatusIsTheSockets` | `useRuntimeConnection` | an old client's close event says the new one is down |
| `Connection!ConnectedHasAClient` | `useRuntimeConnection` | mounted twice, an embedded body has no client |
| `Cards!NoSettledCard` | `docs/STATUS.md` | an answer that comes late puts a settled card back |
| `Workspace!NoLessonComesBack` | `docs/STATUS.md:1436` | "go back" hands a lesson back and does not save it |
| `Workspace!StripMatchesTheStack` | `useSessionRestore.ts:157` | the strip outgrows the undo stack |
| `Workspace!RestoredThoughSetBack` | `replayClock.ts:7` | a clock set back between two events makes the replay judge the second later than it was; `RestoredIsTheSession` excepts logs that are not stamped in order |
| `Workspace!NothingStampedWhileReplaying` | `session.ts:59` | a live event can carry a replayed time |
| `Workspace!CountsAreReal` | `useSessionRestore.ts:98` | counts of an offered pattern grow by a reload |
| `AgentSends!RecoveryNeverOvertakes` | `shape.ts:106` | a send that was given up may arrive after its successor |
| `AgentSends!DroppedIsWhatWasNotDelivered` | `shape.ts:153` | an event the runtime refused is not counted |
| `AgentSends!EveryLossIsSaid` | `index.ts:80` | losses after a restart go unsaid until they exceed those said before; `EveryReadLossIsNamed` counts exactly those as `hidden` |
| `AgentScreen!EveryPictureIsReported` | agent `index.ts:248` | a capture killed after it saved leaves a picture unnamed |
| `Sensing!EverySenseIsShown` | `CONCEPT_V2.md:107` | two agents share a name |
| `Sensing!NothingShownIsOff` | `worldstate.ts:248` | a layer that ends is not taken back |
| `BrowserSensor!NotKnowingIsNotPermission` | `background.ts:57` | a change of consent whose look-up fails leaves the old consent |
| `BrowserSensor!WhatArrivesIsShown` | `background.ts:119` | a declaration is sent once, and may fail or be dropped at the queue's ceiling; a return checked before a layer was turned off is told after (`background.ts:128`) |
| `BrowserSensor!NoLayerComesBack` | `options.ts:41` | a stale options page writes its whole form |
| `ContentScript!NoIdleIsSilenced` | `content.test.ts:104` | an idle report in flight silences the next spell |
| `NetworkShaper!FailingIsBounded` | `boundaries.test.ts:148` | the set of failing hosts has no bound |

Two of them are of lines nothing else here speaks of: a reader of windows that ends
(agent `index.ts:210`) leaves its layer shown, and nothing bounds the hosts that
fail (`apps/extension/src/shape.ts:423`).

And some are in words only, where saying more would need a definition of what should
happen: more hosts may fail than are remembered, and the problem closes with one of
them still down (`world-model/src/index.ts:200`); a recovery, and a cosmetic patch,
is let through in part when some of its operations are held by low confidence, and
counts as applied (`morph-engine/src/guard.ts:112`); in a `computeDiff`, props that
went stay and a change of type makes later removals fail (`diff.ts`; nothing in the
loop calls it); tools whose names hold characters past U+00FF may share an id, and
the second is refused (`mcp-adapter`).

## 5. What is proved

For any constants that satisfy the assumption named in the module
(`ConstantsAssumption`, `NoJobAssumption`, `ApprovalsAssumption`,
`CeilingAssumption`, `AgentSendsAssumption`, `ScreenAssumption`,
`CamerasAssumption`, `ContentScriptAssumption`, `SensingAssumption`, and of the history
`LimitsAssumption` and `NoneAssumption`) and nothing else, but for two theorems about the
intake and two about `Reconcile` that name their hypotheses. Each module of proofs states an inductive invariant, shows that `Init`
implies it and that each action keeps it, one lemma an action, and derives the
properties. Five of the modules extend the MC module of their component, because they
prove about an instance it makes as well (`Body!`, `Wire!`, `Undone!`, `Card!`, `Pool!`,
`Broker!`, `Worker!`): the constants of that instance are constants of the MC module, so the theorem
is for all their values and the run for those of the `.cfg`. What such a machine assumes of its constants
(`ReconcileAssumption`, `ConnectionAssumption`, `CardsAssumption`,
`SnapshotsAssumption`, `ChannelAssumption`) is a hypothesis written
in the theorem. `PartsAssumption` of an MC module is cited by one lemma only, `Limits`,
which takes from it what the history assumes of its ceilings: that they are not zero, that
the body a session starts with is within the limits, and that the absent value is none of
the others. TLC evaluates it in the run.

`SessionLanes_proofs`

* `TypeCorrect`: `Spec => []TypeOK`. It is inductive as it stands; the work is in
  lemmas about `Without`, `Queued`, `Pumped` and `Mark`, one per operator.
* `NoLaneStalls`: `Spec => []NoStalledLane`.
* `EventsRunInOrder`: `Spec => []RunsInOrder`. `RunsInOrder` speaks of what waits,
  runs and was run, and is not inductive: a new job must get a ticket above all
  those, and the next job pumped must be above the run. `OrderInv` adds that no
  ticket is above the count of those handed out, that what was run is below what
  waits, and that an idle lane is empty; `OrderInvariant` proves it.
* `NothingIsLostUncounted`: `NothingVanishes`. The tickets of a lane, with the one that
  runs, are an unbroken range ending at the last ticket handed out; what is let go is
  its lower end and what was run is below that.
* `RefusalsAreJust`: `RefusedWasTaken`, from where each remembered id can be: in hand,
  run, or with a handler not yet told. `IdsOnce` says the memory holds each id once,
  in the order of its list.
* `TollIsTrue`: `LossesAreTrue`, a count never above the losses and below them only
  while the map is full, which needs that the map's order lists exactly its keys.
* `OneCopy`: `OneCopyInHand`, if `MemoryOutlastsLane`: a session remembers more ids
  than a lane, its running event and a burst can hold (`IdsPerSession > Limit + Burst +
  1`). `MemoryInv` counts: what is on a session's hands is followed in the memory by
  few newer ids, so an id that is pushed out was run. `OnePlaceInv` then has an event
  at one place only. As shipped the hypothesis holds: 1000 ids (`seen.ts:24`) and 100
  waiting (`queue.ts:12`). `DM_EVENT_QUEUE_MAX` raises the second alone, and past the
  first the theorem does not apply.
* `IntakeImplementsOnceOnly`: with that hypothesis, `Spec /\ [](lapsed = {}) =>
  KeepsThePromise`, the refinement of `OnceOnly`, step by step: `Submit` of a fresh event
  takes it, of a remembered one stutters; `Finish` runs it; `Forget` lets it go.
  `lapsed` holds the events whose session was pushed out of the memory whole.
* `NoMemoryLapses`: none is, if there is `RoomForEverySession`, since the order of the
  memory lists sessions once each. `PromiseIsKept` puts the two together: under both
  hypotheses `Spec => KeepsThePromise`, with no reservation.
* `QuietBodiesAreCaughtUp` (of `Reconcile`): `QuietMeansCaughtUp`, an idle session shows
  its world or has a timer. Idleness says nothing of what waits, so the invariant says
  that a body out of step always has something coming: a tick in the lane, a timer, or
  the job that runs and has yet to judge. It holds while the lane has room for a tick
  (`[]RoomInTheLane`), and only then: `Reconcile_full` shows the tick being let go.
* `FewEventsLeaveRoom`: without that reservation, if no more events arrive than the lane
  holds, since every tick is owed to an arrival: jobs that wait or run, and the timer,
  are together never more than the events that arrived.

`Approvals_proofs`

* `ConsentInvariant`: `Spec => []ConsentInv`, from which the others follow. That
  consent runs once (`ConsentRunsOnce`) is not inductive: it needs that the plan an
  approval runs was not run or refused before. So `ConsentInv` says how the two maps
  fit: an id has one record; an open record's plan is its own question's; an approved
  record has no plan; a plan that waits is of a question asked under that id and not
  answered; and what was answered was asked, so a new question's number is new.
* `ConsentIsUsedOnce`, `OpenQuestionsCanBeAnswered`, `CeilingsHold`,
  `ApprovalsTypeCorrect`: `ConsentRunsOnce`, `PendingHasItsPlan`, `WithinCeilings` and
  `TypeOK`, always. The ceiling of the plans is a counting argument: what a sweep leaves
  has a record each. `ConsentIsKeptAlways` is their conjunction `ConsentIsKept`, which
  the run checks.
* `OpenQuestionsAreEvictedLast`: the action property `OpenQuestionsGoLast`. A refusal
  that lets an open question go is seen in `refused`, since `ConsentInv` keeps it out
  of there before; and `Evicted` finds a decided record when there is one.
* `CardsFollowTheirQuestions` (of `Cards`): `CardsAreSettled`, two invariants and an
  action property. A body that has not an open question's card has it on its way. A card
  of a settled question has the word that settles it on its way, behind every copy of the
  card that still travels, unless a socket was cut or the body's answer came late.

`CoreSessions_proofs`

* `CoreInvariant`: `Spec => []CoreInv`. The invariant is stated of what is held, the
  lives, the runs and the number of events as parameters (`Fits`), because every step
  begins with a touch that may begin a life, and the rest of the step is about the
  state after that touch. Its parts: a name's last life is held, and lives only grow;
  a queue rises; a run serves the head of its queue, alone, on that life or a later
  one; what a first life folded is older than what waits.
* `OneRunAtATime`, `WorldsAreDecidedOn`, `EventsAreFoldedInOrder`: `SerialWhileHeld`,
  `DecidedForThisWorld`, `FoldedInOrder`. Two runs on one first life would be served
  by the same queue, and a queue serves one. `RunsAreKeptApart` is their conjunction
  `RunsKeepApart`.
* `TheNewestRowsAreKept` (of `Snapshots`, over any pool): `OneRowPerKind` and
  `NewestIsKept`, with savers that fail and processes that die. What is inductive
  (`TableInv`) is about rows that are still too many: of two rows of a kind the newer
  one's saver has its delete before it (`OldRowsGo`), and the row that delete was for
  is there, or a newer one (`DeletesFit`). So a delete takes the newest row of no kind.
* `SavesInTurnKeepLessons`: `SnapshotsAgree`, over a pool of any size. `LessonIsKept` and
  `UndoneStaysUndone` hold until a statement runs before one handed over earlier
  (`overtaken`), and `TurnInv` says why the order of a reversal's two saves is enough
  till then. Savers take turns, so who began later is never ahead (`TurnsKept`), and the
  last step's body is stored last (`LastBodyIsNewest`). A lesson that was stored stays
  in the newest memory, since no memory about to be stored is without it (`Learned`).
  That nothing was overtaken says of a step that it ran the oldest statement in hand
  (`NothingOvertakenYet`). The other case is `Snapshots_undone`, over the same pool.

`AgentSends_proofs`

* `SendInvariant`, and from it `SendsTypeCorrect` (`TypeOK`), `SendsAreAccountedFor`
  (`AllAccountedFor`), `SendsArriveInOrder` (`InOrder`), `NoticesNeverOverstate`
  (`NeverOverstated`). Order needs that what arrived is older than what waits, as long
  as nothing came in late.
* `ReadLossesAreNamed`: `LossesAreTold`. Its second half is an equation, `said + hidden +
  Unread = gone`: what the notices named, what a restart hides and what no answer has
  told of yet are all the losses there were. An answer moves all of `Unread` into `said`,
  or the part a restarted count is behind into `hidden`; a restart moves `Unread` into
  `hidden`. So with no restart the notices have named every loss, once, whenever the
  count last heard is the runtime's. It says nothing of the queue's own ceiling: what is
  dropped there is in `dropped`, and the code prints that count only with the next
  failed send.
* `SettledBeliefsAreTrue`: `SettledBeliefIsTrue`. What the runtime last heard is about
  `received` alone, and says nothing while events wait; `BeliefInv` is about all that
  was sent, `AllSent == received \o queue`, which a delivery leaves as it was and a
  new event extends at the end. While nothing was dropped or refused it says last of the
  branch what the agent saw last, and of the tests whether the last run failed.
* `EventsAreDeliveredOnceInOrder` (of `Channel`, with any number of runtimes, partitions,
  lives, deaths and rebalances): `DeliveredOnceInOrder`, five invariants in one. The
  order of a belief cannot rest on offsets, which a rebalance takes back to what was
  committed. It rests on the memory instead (`CoverFits`): of a partition a process reads,
  and of a message it believes or holds, every earlier message above the floor (the
  committed offset) is none, or remembered, or was let go, or was forgotten at a bound of
  the memory (`lapsed`). So what it is handed and neither remembers nor forgot comes
  after all it believes; what it forgot is folded again, as `seen.ts` says it is. A step
  that delivers nothing and takes no floor back (`Quiet`) keeps all of it, and ten of the
  fourteen actions are such steps. Of a process that is alone `AloneInv` says that with
  no death its lives go on where the one before them stopped, and with one that it keeps
  its partitions until it has committed. A second dead member can take a partition from
  it once more, which is why `CleanExitLeftNothing` speaks of fewer than two deaths.
* `ConsentIsAlwaysFollowed` (of `BrowserSensor`, with any options pages and any number of
  choices, events, lives and failed look-ups): `ConsentIsFollowed`. The worker's queue
  holds declarations among what was observed, and the invariant is about all of it
  (`Told`): what is observed is within the last declaration ahead of it, and the last of
  all declares the consent, unless the queue dropped that one at its ceiling (`unsaid`).
  A return that was checked is of a layer still allowed (`ReturnsAllowed`), since taking
  consent back moves it to those that were overtaken. While a look-up is on its way the
  consent may be old, so `LooksAtStore` is about the last of those: it is of what is stored, unless
  it failed. The same of the notices behind a script (`ScriptLooksAtStore`). That a queue
  loses its head, or gets what was held back at its end, changes no declaration ahead of
  anything: `AheadOfTail`, `AheadStays`.

`AgentScreen_proofs`

* `ScreenInvariant`, and from it `ScreenTypeCorrect` (`TypeOK`),
  `NoProgramIsPhotographedTooOften` (`OnePerInterval`), `PicturesAreAccountedFor`
  (`EveryPictureIsAccountedFor`), `PicturesAreReadInOrder` (`ReadInOrder`). Numbers of
  pictures rise through the queue, and the one being read is below all that wait; a
  claim is not before any picture of its program.
* `TheNewestWait`: `NewestKept`, what waits is an end of what was told. It is kept by
  a new picture because the queue is appended to and shortened at its front.
  `NoPictureGoesAstray` is the conjunction `PicturesAreKept`.

`Cameras_proofs`

* `CamerasTakeOnePicture`: `Spec => ImplementsOnePicture`, the refinement of
  `OnePicture`, with `answer` and `file` mapped to themselves. It rests on
  `SettledIsDeaf`: who has answered has neither a process nor a socket left, so
  nothing is written after. `OnlyTheChosenCameraRuns` and `ObsLeavesNothing` are
  `OnlyWhatWasChosen` and `RefusedLeavesNothing`.

`ContentScript_proofs`

* `TheLongestAbsenceIsKept`: `LongestAbsenceIsKept`. The invariant has a longest
  absence as a witness, taken by the worker or still in `away`, whatever was reported
  while it came. `ScriptTypeCorrect` is `TypeOK`: a batch in flight is never above the
  count it will be taken off, which is why the subtraction stays a count.
* `EveryInteractionIsReportedOnce`: `CountsAddUp`. The history variable `reported` adds up
  what the worker took, so that the property needs no sum over the messages.
* `ThePageIsAsReported`: `PageIsAsTheWorkerHasIt`, from the last message about the page
  and where it is among those taken. `TheReportsAddUp` is `ReportsAddUp`.
* `ThePageIsTheServers` (of `Connection`): `BodyIsTheServers`, the six safety properties
  of the page's socket. That one socket feeds the body needs to know of every other
  client that it was disconnected by hand and has no socket that could bring anything;
  that a settled body is the server's needs the patches on their way to end with the
  server's body, and with none on its way the page to show it or to have asked for it.
* `InverseRestores` (of `MorphTree`): for any tree within the limits and any patch that
  applies to it, the inverse that `applyPatch` recorded applies to what the patch made and
  gives back exactly the tree there was. `IsTree` says what a tree is: ids with children
  and looks, one place for each and none for the root, no way down that goes on forever,
  and every id reached from the root. Then, from below: splicing in and splicing out undo
  each other (`SpliceInOut`, `SpliceOutIn`); so do taking a subtree out and putting it in
  (`CutUndoesGraft`, `GraftUndoesCut`), and both leave a tree; each of the ten operations
  is undone by its inverse (`OpUndone`); and what a patch has piled up leads back from
  wherever it has come to (`WellSofar`, `StepBack`). `subtreeIds` recurses down the
  children and `applyPatch` along its operations. The first gives what every set closed
  under children has: of the ids where it did not, one would have no such child
  (`BelowIsReach`). The second arrives: of the numbers of operations after which it had
  not, none is the least (`UptoExists`).
* `TheStacksFit` (of `MorphSession`): `StacksFit`. The invariant `SessionOK` says of every
  entry of either stack that it is a link between two bodies within the limits, the one it
  was pushed over and the one after it, which is the next entry's or the body shown
  (`UndoLink`, `RedoLink`, `Undoable`, `Redoable`). A link is an inverse as
  `InverseRestores` gives it, so undo makes a redo entry of it that is a link the other
  way. What is pushed off the far end of a stack at its ceiling takes no other with it
  (`UndoPushed`, `RedoPushed`). A saved session is one whose body stands, and a resumed one
  has empty stacks. That any morph is a patch the lemmas are about comes from `planMorph`
  and the guard (`PlanIsPlain`, `GuardedIsPlain`).
* `TheLessonsBalance` (of `MorphSession`): `LessonsBalance`. A weight covers what may
  still be handed back of its lesson, counted over both stacks (`Covered`), which every
  push and pop changes by one at most. An undo that hands a lesson back leaves the entry
  that teaches it anew, and the other way about (`ThereAndBack`). A click on a card that is
  gone can only find an owner that says it brought or took that card (`Says`), and whose
  body no longer has it: the newest such step is a dismissal.

`Sensing_proofs`

* `TheLastWordIsShown`, `ABrowserIsShownTruly`, `SensingTypeCorrect`:
  `ShownIsTheLastWord`, `BrowserIsShownTruly`, `TypeOK`. That a browser is shown truly
  once all is quiet needs to be known while it is not: the last declaration on its way
  is always of what it observes (`LastWordOf`). The count of sensors is a theorem about
  finite sets: a name is added only where there is room. `TheIndicatorIsTrue` is
  `IndicatorIsTrue`.

Only model-checked. Liveness, since fairness is outside the prover: the three
properties of `Live` that are not a refinement. What the guard, the diff and the
blueprints compute (`PatchesLand` but for the inverses, `MorphsAreSafe`), the LRU's order
in `CoreSessions` (`TypeOK`), the tables of `Memory` (`MemoryAddsUp`): their operators walk
and fold several fields at once, and a proof would begin with a lemma for each walk.
The pure checks over finite tables (`RoutingIsSound`, `BrainServesTheWorld`,
`ToolsKeepTheirMeaning`, `PageIsToldSafely`), where TLC has seen every case there is.
`MemoriesOfTwo` is `LossesAreTrue` and `OneCopyInHand` of an instance of two sessions, so
`TollIsTrue` and `OneCopy` are about it too. The state machines no theorem is about are
`Workspace`, `NetworkShaper` and `Logs`. The outages of `NetworkShaper` and the
index of `Logs` are stated with `SelectSeq`, of which the prover knows no definition.

Induction over data has no theorem of the library to cite here, since those take an
operator as a parameter. Where a function is recursive (`FlattenSeq`, `applyPatch`,
`subtreeIds`, what the guard lets through) the proofs show instead that the numbers for
which it is not what it should be have no least.

## 6. What is not modelled

* Drawing and wording: `Renderer.tsx`, the inspector, the panels and settings of the
  page, `i18n.ts`, the words of cards, prompts and logs. They decide nothing.
* Wire formats: the shape of HTTP answers and frames (`server.ts`, `ui-protocol`), the
  bodies of providers' requests, the schemas of `contracts`. What is refused as
  malformed is an input that never arrives in the modules.
* Access control of the server, and the reading of configuration other than what
  decides which brain or camera there is.
* Device I/O: the drawing of a window, decoding of PNG, the watching of files, the
  text of paths and titles the agent cleans.
* Records for people only: the audit list, the logger, the episodes of memory.
* The work of a capability. It is an await in `CoreSessions`, an output or none in
  `Brain`, and the time between claim and announcement in `Cards`.
* What becomes of a log whose replay failed (`useSessionRestore.ts:167`): no text of
  the repository says what should, so `LogOnlyGrows` leaves it out.

## 7. What comes next

In the order of what matters: that what the guard lets through keeps unsaved work
(`MorphsAreSafe`), for which the lemmas about trees are there; that a restored log replays
to the session in `Workspace`; `Channel` driving `SessionLanes` in one composition.
