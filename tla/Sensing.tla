-------------------------------- MODULE Sensing --------------------------------
(* What the body shows as being sensed: each sensor declares its layers in an     *)
(* event, the belief keeps the last declaration under the sensor's name.          *)
EXTENDS Integers, Sequences, FiniteSets

CONSTANTS
  Agents,       \* processes of the desktop agent: all of them declare themselves as Agent
  Browsers,     \* workers of the browser extension: all of them declare themselves as Extension
  Agent, Extension, Web,  \* the names sensors declare
  Windows, Screen, Files, Page, Tabs,  \* layers
  MaxSensors,   \* MAX_SENSORS
  MaxOutbox,    \* bound: declarations on their way, per process
  MaxStarts     \* bound: starts and changes of consent

ASSUME SensingAssumption ==
  /\ Agents \cap Browsers = {} /\ IsFiniteSet(Browsers)
  /\ Agent # Extension /\ Agent # Web /\ Extension # Web
  /\ MaxSensors \in Nat \ {0} /\ MaxOutbox \in Nat \ {0} /\ MaxStarts \in Nat

Processes == Agents \cup Browsers
Names == {Agent, Extension, Web}
NameOf(p) == IF p \in Agents THEN Agent ELSE Extension

\* What a process may observe: the screen is photographed only where windows are read.
Senses(p) ==
  IF p \in Agents THEN {s \in SUBSET {Files, Windows, Screen} : Screen \in s => Windows \in s}
                  ELSE SUBSET {Tabs, Page}

VARIABLES
  observes,  \* what each process observes now
  outbox,    \* the declarations each process has on their way, in order
  missed,    \* the processes whose last declaration did not arrive
  sensing,   \* WorldState.sensing
  heard,     \* the last declaration taken from each name
  starts

vars == <<observes, outbox, missed, sensing, heard, starts>>

Init ==
  /\ observes = [p \in Processes |-> {}]
  /\ outbox = [p \in Processes |-> <<>>]
  /\ missed = {}
  /\ sensing = << >> /\ heard = [n \in Names |-> {}]
  /\ starts = 0

Declares(p, layers) ==
  /\ starts < MaxStarts /\ Len(outbox[p]) < MaxOutbox
  /\ observes' = [observes EXCEPT ![p] = layers]
  /\ outbox' = [outbox EXCEPT ![p] = Append(@, layers)]
  /\ starts' = starts + 1
  /\ UNCHANGED <<missed, sensing, heard>>

\* An agent starts with the senses somebody chose for it, and declares them once.
AgentStarts(p) ==
  /\ observes[p] = {} /\ outbox[p] = <<>>
  /\ \E layers \in Senses(p) \ {{}} : Declares(p, layers)

\* The worker declares what consent allows when it wakes and whenever consent changes.
Says(p, layers) == Declares(p, layers)
ConsentChanges(p) == \E layers \in Senses(p) : Says(p, layers)

\* The reader of windows ends, and takes the screen layer with it.
ReaderStops(p) ==
  /\ Windows \in observes[p]
  /\ observes' = [observes EXCEPT ![p] = @ \ {Windows, Screen}]
  /\ UNCHANGED <<outbox, missed, sensing, heard, starts>>

\* The agent is stopped: nothing is said of it.
AgentStops(p) ==
  /\ observes[p] # {}
  /\ observes' = [observes EXCEPT ![p] = {}]
  /\ outbox' = [outbox EXCEPT ![p] = <<>>]
  /\ UNCHANGED <<missed, sensing, heard, starts>>

\* A sensor may be added while there is room, and a sensor already there always has its place.
RoomOnlyIfFewer(name) == Cardinality(DOMAIN sensing) < MaxSensors
Room(name) == name \in DOMAIN sensing \/ Cardinality(DOMAIN sensing) < MaxSensors

Without(f, name) == [n \in DOMAIN f \ {name} |-> f[n]]

\* The belief takes a declaration; one without layers takes the sensor out.
Fold(name, layers) ==
  sensing' = IF layers = {} THEN Without(sensing, name)
             ELSE IF Room(name) THEN [n \in DOMAIN sensing \cup {name} |-> IF n = name THEN layers ELSE sensing[n]]
             ELSE sensing

Arrives(p) ==
  /\ outbox[p] # <<>>
  /\ Fold(NameOf(p), Head(outbox[p]))
  /\ heard' = [heard EXCEPT ![NameOf(p)] = Head(outbox[p])]
  /\ outbox' = [outbox EXCEPT ![p] = Tail(@)]
  /\ missed' = missed \ {p}
  /\ UNCHANGED <<observes, starts>>

\* The page of the body declares its own layers, once, when it opens.
PageOpens ==
  /\ heard[Web] = {}
  /\ Fold(Web, {Tabs})
  /\ heard' = [heard EXCEPT ![Web] = {Tabs}]
  /\ UNCHANGED <<observes, outbox, missed, starts>>

\* A declaration that fails on the way is not repeated.
IsLost(p) ==
  /\ outbox[p] # <<>>
  /\ outbox' = [outbox EXCEPT ![p] = Tail(@)]
  /\ missed' = missed \cup {p}
  /\ UNCHANGED <<observes, sensing, heard, starts>>

Next ==
  \/ \E p \in Agents : AgentStarts(p) \/ ReaderStops(p) \/ AgentStops(p)
  \/ \E p \in Browsers : ConsentChanges(p)
  \/ \E p \in Processes : Arrives(p) \/ IsLost(p)
  \/ PageOpens

Spec == Init /\ [][Next]_vars

----
Shown == UNION {sensing[n] : n \in DOMAIN sensing}
Observed == UNION {observes[p] : p \in Processes}
AllHeard == \A p \in Processes : outbox[p] = <<>>

TypeOK ==
  /\ \A p \in Processes : observes[p] \in Senses(p) /\ Len(outbox[p]) <= MaxOutbox
  /\ DOMAIN sensing \subseteq Names
  /\ Cardinality(DOMAIN sensing) <= MaxSensors
  /\ missed \subseteq Processes

\* The indicator never shows an older declaration than the last one taken: a sensor that is
\* shown can always revise what it says, at the ceiling of sensors too, and one that revoked
\* its layers is not shown.
ShownIsTheLastWord == \A n \in DOMAIN sensing : sensing[n] = heard[n] /\ sensing[n] # {}

\* A browser whose declarations have all been taken is shown, if it is shown at all, as
\* observing exactly what it observes, however often consent changed and whatever was lost.
BrowserIsShownTruly ==
  \A p \in Browsers :
    outbox[p] = <<>> /\ p \notin missed /\ Extension \in DOMAIN sensing
      => sensing[Extension] = observes[p] \/ Cardinality(Browsers) > 1

\* The indicator does not lie (worldstate.ts): it shows what each sensor said last, and of a
\* browser that was heard out exactly what it observes.
IndicatorIsTrue == ShownIsTheLastWord /\ BrowserIsShownTruly

\* CONCEPT_V2.md:107: what is observed is shown, once every declaration has arrived.
EverySenseIsShown == AllHeard => Observed \subseteq Shown

\* worldstate.ts:248: nothing is shown as sensed that is not.
NothingShownIsOff == AllHeard => Shown \subseteq Observed
================================================================================
