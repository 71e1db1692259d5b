----------------------------- MODULE BrowserSensor -----------------------------
(* The worker of the browser extension (apps/extension/src/background.ts) with     *)
(* the options page that chooses its layers and the content script of one page.    *)
(* The browser throws the worker away when it is idle and starts it on the next    *)
(* event: what the worker holds is gone, what is stored is not.                    *)
EXTENDS Integers, Sequences, SequencesExt

CONSTANTS
  Browsing, Page,  \* the layers: that of the tabs is on by default, as is that of the
                   \* interactions, which it stands for too; the page layer is off
  Tabs,          \* open options pages
  None,          \* no answer yet
  Failed,        \* storage would not answer
  MaxPending,    \* createSendQueue: maxPending
  MaxChanges,    \* bound: choices made in the options page
  MaxEvents,     \* bound: things observed
  MaxWakes,      \* bound: lives of the worker
  MaxFailures    \* bound: reads of storage that fail

BrowserSensorAssumption ==
  /\ None # Failed /\ Browsing # Page /\ MaxPending \in Nat \ {0}
  /\ {MaxChanges, MaxEvents, MaxWakes, MaxFailures} \subseteq Nat

Layers == {Browsing, Page}
Default == {Browsing}

VARIABLES
  stored,   \* the consent in storage
  form,     \* what each options page shows
  chosen,   \* the layers as the person last set each of them
  changes,
  life,     \* the worker: asleep, reading (before consent has been read), awake
  consent,  \* what the worker may observe
  reads,    \* the reads of storage on their way back to the worker, in order
  notices,  \* changes of storage the worker was told of and has not looked up
  missed,   \* a change was told of and the look-up failed
  held,     \* observations waiting for consent to be read
  returns,  \* returns to a window: waiting for consent, checked against it, overtaken by its change
  outbox,   \* what the worker sends, in order: declarations and observations
  unsaid,   \* the declaration of what is observed now was dropped at the ceiling     (history)
  said,     \* the last declaration taken off the queue in this life, arrived or not
  shown,    \* the last declaration the runtime took
  strays,   \* layers of events that arrived while the indicator did not show them
  script,   \* the content script: its first read, the changes behind it, its consent
  wakes, failures, observed

store == <<stored, form, chosen, changes>>
worker == <<life, consent, reads, notices, missed, held, returns, wakes>>
wire == <<outbox, unsaid, said, shown, strays>>
vars == <<store, worker, wire, script, failures, observed>>

Declaration(layers) == [declares |-> TRUE, layers |-> layers, excused |-> FALSE]
\* An observation is excused when what covers it was dropped, or taken back since it was allowed.
Observation(layer, late) == [declares |-> FALSE, layers |-> {layer}, excused |-> unsaid \/ late]

NoReturns == [waiting |-> 0, checked |-> 0, overtaken |-> 0]

Init ==
  /\ stored = Default /\ form = [t \in Tabs |-> Default] /\ chosen = Default /\ changes = 0
  /\ life = "asleep" /\ consent = {} /\ reads = <<>> /\ notices = 0 /\ missed = FALSE /\ held = <<>>
  /\ returns = NoReturns /\ outbox = <<>> /\ unsaid = FALSE /\ said = {} /\ shown = {} /\ strays = {}
  /\ script = [read |-> None, ready |-> FALSE, behind |-> <<>>, page |-> FALSE]
  /\ wakes = 0 /\ failures = 0 /\ observed = 0

----
(* The worker.  Nothing runs before the first read of consent has been applied.   *)
Starts ==
  /\ life = "asleep" /\ wakes < MaxWakes
  /\ life' = "reading" /\ wakes' = wakes + 1
  /\ consent' = {} /\ missed' = FALSE
  /\ reads' = <<None>>

Stays == UNCHANGED <<life, wakes, consent, missed, reads>>

Wakes ==
  /\ Starts
  /\ UNCHANGED <<store, notices, held, returns, wire, script, failures, observed>>

\* Storage answers the first read it has not answered, with what is stored or not at all.
Answer ==
  \E i \in DOMAIN reads :
    /\ reads[i] = None /\ \A j \in 1 .. i - 1 : reads[j] # None
    /\ \/ reads' = [reads EXCEPT ![i] = stored] /\ UNCHANGED failures
       \/ failures < MaxFailures /\ failures' = failures + 1 /\ reads' = [reads EXCEPT ![i] = Failed]
    /\ UNCHANGED <<store, life, consent, notices, missed, held, returns, wakes, wire, script, observed>>

\* What an observation becomes once consent is known.
Admitted(layer, allowed) == IF layer \in allowed THEN <<Observation(layer, FALSE)>> ELSE <<>>
AdmittedAll(layers, allowed) == FlattenSeq([i \in DOMAIN layers |-> Admitted(layers[i], allowed)])

FallsToDefault(value) == IF value = Failed THEN Default ELSE value

\* Storage that would not answer is no permission.
FirstConsent(value) == IF value = Failed THEN {} ELSE value

\* The queue: at its ceiling the newest is dropped, whatever it is.
Room(box) == MaxPending - Len(box)
InLine(box, items) == box \o IF Len(items) <= Room(box) THEN items ELSE SubSeq(items, 1, Room(box))

\* The first answer: consent is set and declared, and what waited for it goes on.
Ready ==
  /\ life = "reading" /\ Head(reads) # None
  /\ LET allowed == FirstConsent(Head(reads)) IN
     /\ consent' = allowed
     /\ outbox' = InLine(InLine(outbox, <<Declaration(allowed)>>), AdmittedAll(held, allowed))
     /\ returns' = [NoReturns EXCEPT !.checked = IF Browsing \in allowed THEN returns.waiting ELSE 0]
  /\ life' = "awake" /\ reads' = Tail(reads) /\ held' = <<>>
  /\ UNCHANGED <<store, notices, missed, unsaid, said, shown, strays, script, wakes, failures, observed>>

\* A change is looked up behind the first read, always.
AfterTheFirstRead == life = "awake"

LooksUp ==
  /\ notices > 0 /\ AfterTheFirstRead
  /\ notices' = notices - 1 /\ reads' = Append(reads, None)
  /\ UNCHANGED <<store, life, consent, missed, held, returns, wire, script, wakes, failures, observed>>

Declares(allowed) ==
  /\ outbox' = InLine(outbox, <<Declaration(allowed)>>)
  /\ unsaid' = (Room(outbox) = 0)

\* Returns that were allowed before consent was taken back.
Overtaken ==
  [waiting |-> returns.waiting, checked |-> 0, overtaken |-> returns.overtaken + returns.checked]

\* A later answer: consent is set and declared; a look-up that failed changes nothing.
Applies ==
  /\ life = "awake" /\ reads # <<>> /\ Head(reads) # None
  /\ IF Head(reads) = Failed
     THEN missed' = TRUE /\ UNCHANGED <<consent, outbox, unsaid, returns>>
     ELSE /\ missed' = FALSE /\ consent' = Head(reads) /\ Declares(Head(reads))
          /\ returns' = IF Browsing \in Head(reads) THEN returns ELSE Overtaken
  /\ reads' = Tail(reads)
  /\ UNCHANGED <<store, life, notices, held, said, shown, strays, script, wakes, failures, observed>>

\* Something happens in the browser, or a content script reports it: it wakes the worker.
Happens ==
  /\ observed < MaxEvents
  /\ observed' = observed + 1
  /\ IF life = "asleep" THEN Starts ELSE Stays
  /\ UNCHANGED <<store, notices, unsaid, said, shown, strays, script, failures>>

Observes(layer) ==
  /\ Happens /\ UNCHANGED returns
  /\ IF life = "awake"
     THEN outbox' = InLine(outbox, Admitted(layer, consent)) /\ UNCHANGED held
     ELSE held' = Append(held, layer) /\ UNCHANGED outbox

\* The person comes back to a window: consent is checked, and then storage is asked twice how
\* long they were away.
ComesBack ==
  /\ Happens /\ UNCHANGED <<outbox, held>>
  /\ returns' = IF life # "awake" THEN [returns EXCEPT !.waiting = @ + 1]
                ELSE IF Browsing \in consent THEN [returns EXCEPT !.checked = @ + 1] ELSE returns

\* Storage has answered: the return is sent, or is none.
ReturnIsTold(how) ==
  /\ life = "awake" /\ returns[how] > 0
  /\ returns' = [returns EXCEPT ![how] = @ - 1]
  /\ \/ outbox' = InLine(outbox, <<Observation(Browsing, how = "overtaken")>>)
     \/ UNCHANGED outbox
  /\ UNCHANGED <<store, life, consent, reads, notices, missed, held, wakes, unsaid, said, shown, strays,
                 script, failures, observed>>

ReadsPage == script.page /\ Observes(Page)

\* The browser throws the worker away, and everything it held.
Sleeps ==
  /\ life # "asleep"
  /\ life' = "asleep" /\ consent' = {} /\ missed' = FALSE
  /\ reads' = <<>> /\ notices' = 0 /\ held' = <<>> /\ outbox' = <<>> /\ said' = {}
  /\ returns' = NoReturns /\ unsaid' = FALSE
  /\ UNCHANGED <<store, shown, strays, script, wakes, failures, observed>>

----
(* The queue: one post at a time, in order, and none of them is repeated.          *)
Taken(item) == IF item.declares THEN said' = item.layers ELSE UNCHANGED said

Arrives ==
  /\ outbox # <<>>
  /\ Taken(Head(outbox))
  /\ IF Head(outbox).declares
     THEN shown' = Head(outbox).layers /\ UNCHANGED strays
     ELSE strays' = strays \cup (Head(outbox).layers \ shown) /\ UNCHANGED shown
  /\ outbox' = Tail(outbox)
  /\ UNCHANGED <<store, worker, unsaid, script, failures, observed>>

IsLost ==
  /\ outbox # <<>>
  /\ Taken(Head(outbox))
  /\ outbox' = Tail(outbox)
  /\ UNCHANGED <<store, worker, unsaid, shown, strays, script, failures, observed>>

----
(* The options page writes its whole form; the worker and the script are told.     *)
Toggle(layers, layer) == IF layer \in layers THEN layers \ {layer} ELSE layers \cup {layer}

Chooses(tab, layer) ==
  /\ changes < MaxChanges /\ changes' = changes + 1
  /\ form' = [form EXCEPT ![tab] = Toggle(@, layer)]
  /\ stored' = form'[tab]
  /\ chosen' = IF layer \in form'[tab] THEN chosen \cup {layer} ELSE chosen \ {layer}
  /\ notices' = notices + 1
  /\ script' = [script EXCEPT !.behind = Append(@, Page \in form'[tab])]
  /\ IF life = "asleep" THEN Starts ELSE Stays
  /\ UNCHANGED <<held, returns, wire, failures, observed>>

\* The content script: anything but an explicit yes is no.
ScriptAnswer ==
  /\ script.read = None
  /\ \/ script' = [script EXCEPT !.read = Page \in stored] /\ UNCHANGED failures
     \/ failures < MaxFailures /\ failures' = failures + 1 /\ script' = [script EXCEPT !.read = FALSE]
  /\ UNCHANGED <<store, worker, wire, observed>>

ScriptReady ==
  /\ script.read # None /\ ~script.ready
  /\ script' = [script EXCEPT !.ready = TRUE, !.page = script.read]
  /\ UNCHANGED <<store, worker, wire, failures, observed>>

BehindTheRead == script.ready

ScriptChanges ==
  /\ script.behind # <<>> /\ BehindTheRead
  /\ script' = [script EXCEPT !.page = Head(script.behind), !.behind = Tail(@)]
  /\ UNCHANGED <<store, worker, wire, failures, observed>>

Next ==
  \/ Wakes \/ Answer \/ Ready \/ LooksUp \/ Applies \/ Sleeps
  \/ Observes(Browsing) \/ ReadsPage \/ ComesBack
  \/ \E how \in {"checked", "overtaken"} : ReturnIsTold(how)
  \/ Arrives \/ IsLost
  \/ \E tab \in Tabs, layer \in Layers : Chooses(tab, layer)
  \/ ScriptAnswer \/ ScriptReady \/ ScriptChanges

Spec == Init /\ [][Next]_vars

----
TypeOK ==
  /\ {stored, consent, chosen, said, shown, strays} \subseteq SUBSET Layers
  /\ form \in [Tabs -> SUBSET Layers]
  /\ life \in {"asleep", "reading", "awake"}
  /\ returns \in [{"waiting", "checked", "overtaken"} -> Nat] /\ unsaid \in BOOLEAN
  /\ Len(outbox) <= MaxPending
  /\ life = "asleep" => reads = <<>> /\ held = <<>> /\ outbox = <<>> /\ returns = NoReturns
  /\ life = "reading" => outbox = <<>> /\ Len(reads) = 1
  /\ notices \in 0 .. MaxChanges
  /\ script.page \in BOOLEAN

\* Nothing is on its way to the worker: it has heard of every change of storage.
Settled == life = "awake" /\ reads = <<>> /\ notices = 0

\* A worker that has heard of everything observes exactly what storage says, or, when the
\* reading of it failed, nothing at all: neither an answer that was overtaken by a change
\* nor a failed read turns a layer back on.
SettledConsentIsTheChoice == Settled /\ ~missed => consent \in {stored, {}}

\* What the runtime has been told, or has failed to be told, ahead of an item of the queue.
DeclaredAhead(n) ==
  LET ds == {i \in 1 .. n - 1 : outbox[i].declares}
  IN IF ds = {} THEN said ELSE outbox[CHOOSE i \in ds : \A j \in ds : j <= i].layers

\* Whatever the worker sends is of a layer it declared last before sending it, in the same life:
\* nothing observed overtakes the declaration that covers it, and nothing observed after a layer was
\* turned off follows the declaration that it is off. Two things are excused, as the code has them:
\* a return to a window, allowed before the layer was turned off and told after storage has answered
\* twice (background.ts:128-137), and what is observed after the queue dropped the declaration of
\* it at its ceiling, until the next one (shape.ts, createSendQueue).
DeclaredBeforeItIsSent ==
  \A i \in DOMAIN outbox :
    ~outbox[i].declares /\ ~outbox[i].excused => outbox[i].layers \subseteq DeclaredAhead(i)

\* The worker observes what it last declared, no more and no less, unless that declaration was
\* dropped at the ceiling.
ObservesWhatItDeclared == life = "awake" /\ ~unsaid => consent = DeclaredAhead(Len(outbox) + 1)

\* The content script that has heard of everything reads pages only if storage says so.
ScriptKeepsToTheChoice ==
  script.ready /\ script.behind = <<>> => (script.page => Page \in stored)

\* background.ts:57-61: not knowing is not permission.
NotKnowingIsNotPermission == Settled => consent \subseteq stored

\* background.ts:119: what arrives is of a layer the indicator shows.
WhatArrivesIsShown == strays = {}

\* options.ts:41: a layer is on in storage only if the person last turned it on.
NoLayerComesBack == stored \subseteq chosen
================================================================================
