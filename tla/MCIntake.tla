------------------------------ MODULE MCIntake ------------------------------
(***************************************************************************)
(* How events reach a session: the lanes of one session (SessionLanes,     *)
(* and its refinement of OnceOnly), the lanes of two sessions whose        *)
(* memories push each other out, and what a lane that is full does to the  *)
(* body that follows (Reconcile).                                          *)
(*                                                                         *)
(* Each of them is an instance of its own and they share nothing, so one   *)
(* of them moves in each behaviour, the one `part` names, and the others   *)
(* stay as they began: their product would show nothing more.  The other   *)
(* MC modules are made in the same way.                                    *)
(***************************************************************************)
EXTENDS SessionLanes

CONSTANTS
  s1, s2,
  LaneLimit,    \* Limit of Reconcile
  MaxArrivals   \* MaxEvents of Reconcile

VARIABLES
  part,  \* the component that moves in this behaviour
  \* the lanes of two sessions
  twoLanes, twoLossOrder, twoLosses, twoDroppedTotal, twoSeenOrder, twoSeenIds,
  twoUnsettled, twoTickets, twoSettled, twoLost, twoLapsed,
  \* the body and its timer
  problem, shown, cooling, timer, bodyLane, running, sent

twoVars == <<twoLanes, twoLossOrder, twoLosses, twoDroppedTotal, twoSeenOrder, twoSeenIds,
             twoUnsettled, twoTickets, twoSettled, twoLost, twoLapsed>>
bodyVars == <<problem, shown, cooling, timer, bodyLane, running, sent>>

OwnerOf == [e \in Events |-> s1]

\* Events of one session differ in nothing but their names, so that they are named in the order
\* in which they first arrive.
InTurn == \E n \in 0..Cardinality(Events) :
  {j.event : j \in InHand(s1) \cup Members(settled[s1]) \cup lost[s1]} \ {Tick} = 1..n

Two == INSTANCE SessionLanes WITH
  Sessions <- {s1, s2}, Events <- 1..3, SessionOf <- <<s1, s1, s2>>, Limit <- 1,
  IdsPerSession <- 4, SeenSessions <- 1, LossSessions <- 1, Burst <- 0, MaxTickets <- 3,
  lanes <- twoLanes, lossOrder <- twoLossOrder, losses <- twoLosses,
  droppedTotal <- twoDroppedTotal, seenOrder <- twoSeenOrder, seenIds <- twoSeenIds,
  unsettled <- twoUnsettled, tickets <- twoTickets, settled <- twoSettled, lost <- twoLost,
  lapsed <- twoLapsed

Body == INSTANCE Reconcile WITH
  Limit <- LaneLimit, MaxEvents <- MaxArrivals, waiting <- bodyLane

InTurnOfTwo ==
  LET jobs == Two!InHand(s1) \cup Members(twoSettled[s1]) \cup twoLost[s1]
  IN  2 \in {j.event : j \in jobs} => 1 \in {j.event : j \in jobs}

ASSUME PartsAssumption == Two!ConstantsAssumption /\ Two!NoJobAssumption /\ Body!ReconcileAssumption

AllInit ==
  /\ part \in {"one", "two", "body"}
  /\ Init
  /\ Two!Init
  /\ Body!Init

AllNext ==
  /\ UNCHANGED part
  /\ \/ part = "one" /\ Next /\ InTurn' /\ UNCHANGED <<twoVars, bodyVars>>
     \/ part = "two" /\ Two!Next /\ InTurnOfTwo' /\ UNCHANGED <<vars, bodyVars>>
     \/ part = "body" /\ Body!Next /\ UNCHANGED <<vars, twoVars>>

allVars == <<part, vars, twoVars, bodyVars>>
AllSpec == AllInit /\ [][AllNext]_allVars

-----------------------------------------------------------------------------
\* Two sessions push each other out of the losses that are told and of the memory of ids: no
\* count is too large (queue.ts, remember), and no second copy stands beside the first, but for a
\* session whose whole memory was evicted under it (runtime.ts:132).
MemoriesOfTwo == Two!LossesAreTrue /\ Two!OneCopyInHand

\* An idle session is in step, or a timer will bring it there (runtime.ts:356).
QuietMeansCaughtUp == Body!QuietMeansCaughtUp
=============================================================================
