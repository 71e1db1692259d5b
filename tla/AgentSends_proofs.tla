--------------------------- MODULE AgentSends_proofs ---------------------------
(***************************************************************************)
(* Theorems about AgentSends, for every length of the queue, any branches  *)
(* and any number of failures, time outs, losses and restarts: what the    *)
(* agent hands over is accounted for, arrives in order, the losses it      *)
(* names are losses there were, and with nothing lost and nothing under    *)
(* way the runtime believes what is so.                                    *)
(*                                                                         *)
(* And theorems about Channel, for any runtimes and partitions, bounds of  *)
(* their memory and number of lives, deaths and rebalances: a life folds   *)
(* what the broker hands it once and in order while it remembers it, and a *)
(* process alone that closes in time leaves nothing behind.                *)
(*                                                                         *)
(* And a theorem about BrowserSensor, for any options pages and any number *)
(* of choices, events, lives and failed reads: consent is followed.        *)
(***************************************************************************)
EXTENDS MCSenders, TLAPS, SequenceTheorems, WellFoundedInduction

-----------------------------------------------------------------------------
(* The inductive invariant *)

Events ==
  [about : {"tests", "file", "branch"},
   is : {"failing", "passing", "saved"} \cup Branches,
   n : Nat]

SendTypes ==
  /\ TypeOK
  /\ queue \in Seq(Events) /\ received \in Seq(Events) /\ late \subseteq Events
  /\ handed \in Nat /\ refused \in Nat /\ unheard \in Nat /\ overdue \in Nat /\ gone \in Nat
  /\ restarts \in Nat

QueueInOrder ==
  /\ \A i, j \in 1..Len(queue) : i < j => queue[i].n < queue[j].n
  /\ \A i \in 1..Len(queue) : queue[i].n <= handed

\* While nothing has come in after it was given up, what arrived is older than what waits.
ReceivedInOrder ==
  overdue = 0 =>
    /\ \A i, j \in 1..Len(received) : i < j => received[i].n < received[j].n
    /\ \A i \in 1..Len(received) : received[i].n <= handed
    /\ \A i \in 1..Len(received) : \A j \in 1..Len(queue) : received[i].n < queue[j].n

\* The notices, what is hidden and what is unread are all the losses there were; a count that was
\* read is not above the runtime's, until that starts again.
NoticesCatchUp ==
  /\ said + hidden + Unread = gone
  /\ ~stale => heard <= letGo
  /\ restarts = 0 => hidden = 0 /\ ~stale

SendInv ==
  /\ SendTypes
  /\ AllAccountedFor
  /\ QueueInOrder
  /\ ReceivedInOrder
  /\ NoticesCatchUp

-----------------------------------------------------------------------------
(* What the queue does *)

LEMMA NumbersAreNumbers ==
  ASSUME NEW q \in Seq(Events), NEW i \in 1..Len(q)
  PROVE  q[i] \in Events /\ q[i].n \in Nat
<1>1. q[i] \in Events
  OBVIOUS
<1> QED
  BY <1>1 DEF Events

LEMMA OneMoreEach ==
  ASSUME NEW h \in Nat, NEW u \in Nat, NEW q \in Nat, NEW r \in Nat, NEW d \in Nat, NEW f \in Nat,
         h + u = q + r + d + f
  PROVE  (h + 1) + u = (q + 1) + r + d + f
OBVIOUS

\* An event handed over is queued behind all others, or counted.
LEMMA HandKeeps ==
  ASSUME SendInv, NEW e \in Events, e.n = handed + 1, Hand(e),
         UNCHANGED <<received, refused, unheard, overdue>>
  PROVE  /\ queue' \in Seq(Events) /\ Len(queue') <= MaxPending
         /\ dropped' \in Nat /\ alive' \in BOOLEAN /\ handed' \in Nat
         /\ AllAccountedFor' /\ QueueInOrder' /\ ReceivedInOrder'
<1> USE AgentSendsAssumption DEF SendInv, SendTypes, TypeOK
<1>1. handed' = handed + 1 /\ handed' \in Nat /\ alive' \in BOOLEAN
  BY DEF Hand
<1>2. CASE Len(queue) >= MaxPending
  <2>1. dropped' = dropped + 1 /\ queue' = queue
    BY <1>2 DEF Hand, AtCeiling
  <2>2. AllAccountedFor'
    <3>1. /\ Len(queue) \in Nat /\ Len(received) \in Nat /\ dropped \in Nat /\ refused \in Nat
          /\ unheard \in Nat /\ handed \in Nat
      BY LenProperties
    <3>2. handed + unheard = Len(queue) + Len(received) + dropped + refused
      BY DEF AllAccountedFor
    <3>3. UNCHANGED <<received, refused, unheard>>
      OBVIOUS
    <3>4. (handed + 1) + unheard = Len(queue) + Len(received) + (dropped + 1) + refused
      BY ONLY <3>1, <3>2
    <3> QED
      BY ONLY <1>1, <2>1, <3>3, <3>4 DEF AllAccountedFor
  <2>3. \A n \in Nat : n <= handed => n <= handed'
    BY <1>1
  <2>4. QueueInOrder'
    BY <1>1, <2>1, <2>3, NumbersAreNumbers DEF QueueInOrder
  <2>5. ReceivedInOrder'
    BY <1>1, <2>1, <2>3, NumbersAreNumbers DEF ReceivedInOrder
  <2> QED
    BY <1>1, <2>1, <2>2, <2>4, <2>5
<1>3. CASE ~(Len(queue) >= MaxPending)
  <2>1. dropped' = dropped /\ queue' = Append(queue, e)
    BY <1>3 DEF Hand, AtCeiling, InLine
  <2>2. /\ queue' \in Seq(Events) /\ Len(queue') = Len(queue) + 1 /\ Len(queue') <= MaxPending
        /\ \A i \in 1..Len(queue) : queue'[i] = queue[i]
        /\ queue'[Len(queue) + 1] = e
    BY <1>3, <2>1
  <2>3. AllAccountedFor'
    <3>1. /\ Len(queue) \in Nat /\ Len(received) \in Nat /\ dropped \in Nat /\ refused \in Nat
          /\ unheard \in Nat /\ handed \in Nat
      BY LenProperties
    <3>2. handed + unheard = Len(queue) + Len(received) + dropped + refused
      BY DEF AllAccountedFor
    <3>3. handed' = handed + 1 /\ Len(queue') = Len(queue) + 1 /\ dropped' = dropped
      BY <1>1, <2>1, <2>2
    <3>4. handed' + unheard = Len(queue') + Len(received) + dropped' + refused
      BY <3>1, <3>2, <3>3, OneMoreEach
    <3>5. UNCHANGED <<received, refused, unheard>>
      OBVIOUS
    <3> QED
      BY <3>4, <3>5 DEF AllAccountedFor
  <2>4. \A i \in 1..Len(queue') : i \in 1..Len(queue) \/ i = Len(queue) + 1
    BY <2>2
  <2>5. \A n \in Nat : n <= handed => n <= handed' /\ n < e.n
    BY <1>1
  <2>6. e.n <= handed'
    BY <1>1
  <2>7. QueueInOrder'
    <3>1. \A i \in 1..Len(queue') : queue'[i].n <= handed'
      BY <2>2, <2>4, <2>5, <2>6, NumbersAreNumbers DEF QueueInOrder
    <3>2. ASSUME NEW i \in 1..Len(queue'), NEW j \in 1..Len(queue'), i < j
          PROVE  queue'[i].n < queue'[j].n
      <4>1. i \in 1..Len(queue)
        BY <2>2, <3>2
      <4>2. CASE j \in 1..Len(queue)
        BY <2>2, <3>2, <4>1, <4>2 DEF QueueInOrder
      <4>3. CASE j = Len(queue) + 1
        BY <2>2, <2>5, <4>1, <4>3, NumbersAreNumbers DEF QueueInOrder
      <4> QED
        BY <2>4, <4>2, <4>3
    <3> QED
      BY <3>1, <3>2 DEF QueueInOrder
  <2>8. ReceivedInOrder'
    <3> SUFFICES ASSUME overdue = 0
                 PROVE  /\ \A i, j \in 1..Len(received) : i < j => received[i].n < received[j].n
                        /\ \A i \in 1..Len(received) : received[i].n <= handed'
                        /\ \A i \in 1..Len(received) : \A j \in 1..Len(queue') :
                             received[i].n < queue'[j].n
      BY DEF ReceivedInOrder
    <3>1. \A i \in 1..Len(received) : received[i].n \in Nat /\ received[i].n <= handed
      BY NumbersAreNumbers DEF ReceivedInOrder
    <3>2. ASSUME NEW i \in 1..Len(received), NEW j \in 1..Len(queue')
          PROVE  received[i].n < queue'[j].n
      <4>1. CASE j \in 1..Len(queue)
        BY <2>2, <4>1 DEF ReceivedInOrder
      <4>2. CASE j = Len(queue) + 1
        BY <2>2, <2>5, <3>1, <4>2
      <4> QED
        BY <2>4, <4>1, <4>2
    <3> QED
      BY <2>5, <3>1, <3>2 DEF ReceivedInOrder
  <2> QED
    BY <1>1, <2>1, <2>2, <2>3, <2>7, <2>8
<1> QED
  BY <1>2, <1>3

\* The first of the queue is done with.
LEMMA SentKeeps ==
  ASSUME SendInv, Sending, Sent
  PROVE  /\ Head(queue) \in Events
         /\ queue' \in Seq(Events) /\ Len(queue') = Len(queue) - 1
         /\ handed' = handed
         /\ \A i \in 1..Len(queue') : queue'[i] = queue[i + 1]
         /\ QueueInOrder'
<1> USE DEF SendInv, SendTypes
<1>1. queue \in Seq(Events) /\ queue # <<>> /\ queue' = Tail(queue) /\ handed' = handed
  BY DEF Sending, Sent
<1>2. /\ Head(queue) \in Events /\ queue' \in Seq(Events) /\ Len(queue') = Len(queue) - 1
      /\ \A i \in 1..Len(queue') : queue'[i] = queue[i + 1]
  BY <1>1, HeadTailProperties
<1>3. \A i \in 1..Len(queue') : i + 1 \in 1..Len(queue)
  BY <1>1, <1>2
<1>4. Len(queue') \in Nat /\ \A i, j \in 1..Len(queue') : i < j => i + 1 < j + 1
  BY <1>2
<1>5. \A i, j \in 1..Len(queue') : i < j => queue'[i].n < queue'[j].n
  <2> SUFFICES ASSUME NEW i \in 1..Len(queue'), NEW j \in 1..Len(queue'), i < j
               PROVE  queue'[i].n < queue'[j].n
    OBVIOUS
  <2>1. queue'[i] = queue[i + 1] /\ queue'[j] = queue[j + 1] /\ i + 1 < j + 1
    BY <1>2, <1>4
  <2>2. i + 1 \in 1..Len(queue) /\ j + 1 \in 1..Len(queue)
    BY <1>3
  <2> QED
    BY <2>1, <2>2 DEF QueueInOrder
<1>6. \A i \in 1..Len(queue') : queue'[i].n <= handed'
  BY <1>1, <1>2, <1>3 DEF QueueInOrder
<1> QED
  BY <1>1, <1>2, <1>5, <1>6 DEF QueueInOrder

\* A send that does not arrive leaves the order as it was.
LEMMA LostKeepsOrder ==
  ASSUME SendInv, Sending, Sent, UNCHANGED <<received, overdue>>
  PROVE  ReceivedInOrder'
<1>1. queue' \in Seq(Events) /\ Len(queue') = Len(queue) - 1 /\ handed' = handed
      /\ \A i \in 1..Len(queue') : queue'[i] = queue[i + 1] /\ i + 1 \in 1..Len(queue)
  BY SentKeeps DEF SendInv, SendTypes
<1> QED
  BY <1>1 DEF ReceivedInOrder, SendInv, SendTypes

\* A send that arrives is newer than all that did, and older than all that wait.
LEMMA ArrivedKeepsOrder ==
  ASSUME SendInv, Sending, Sent, received' = Append(received, Head(queue)), UNCHANGED overdue
  PROVE  /\ received' \in Seq(Events) /\ Len(received') = Len(received) + 1
         /\ ReceivedInOrder'
<1> USE DEF SendInv, SendTypes
<1>1. /\ Head(queue) \in Events /\ Head(queue) = queue[1] /\ 1 \in 1..Len(queue)
      /\ queue' \in Seq(Events) /\ Len(queue') = Len(queue) - 1 /\ handed' = handed
      /\ \A i \in 1..Len(queue') : queue'[i] = queue[i + 1] /\ i + 1 \in 1..Len(queue) /\ 1 < i + 1
  BY SentKeeps DEF Sending
<1>2. /\ received' \in Seq(Events) /\ Len(received') = Len(received) + 1
      /\ \A i \in 1..Len(received) : received'[i] = received[i]
      /\ received'[Len(received) + 1] = Head(queue)
      /\ \A i \in 1..Len(received') : i \in 1..Len(received) \/ i = Len(received) + 1
  BY <1>1
<1>3. ASSUME overdue = 0
      PROVE  \A i \in 1..Len(received') : /\ received'[i].n <= handed'
                                          /\ \A j \in 1..Len(queue') : received'[i].n < queue'[j].n
  <2> SUFFICES ASSUME NEW i \in 1..Len(received')
               PROVE  /\ received'[i].n <= handed'
                      /\ \A j \in 1..Len(queue') : received'[i].n < queue'[j].n
    OBVIOUS
  <2>1. CASE i \in 1..Len(received)
    <3>1. received'[i] = received[i] /\ received[i].n <= handed
          /\ \A j \in 1..Len(queue) : received[i].n < queue[j].n
      BY <1>2, <1>3, <2>1 DEF ReceivedInOrder
    <3> QED
      BY <1>1, <3>1
  <2>2. CASE i = Len(received) + 1
    <3>1. received'[i] = queue[1] /\ queue[1].n <= handed
          /\ \A j \in 1..Len(queue) : 1 < j => queue[1].n < queue[j].n
      BY <1>1, <1>2, <2>2 DEF QueueInOrder
    <3> QED
      BY <1>1, <3>1
  <2> QED
    BY <1>2, <2>1, <2>2
<1>4. ASSUME overdue = 0
      PROVE  \A i, j \in 1..Len(received') : i < j => received'[i].n < received'[j].n
  BY <1>1, <1>2, <1>4 DEF ReceivedInOrder, QueueInOrder
<1> QED
  BY <1>2, <1>3, <1>4 DEF ReceivedInOrder

\* What is named and what is hidden are all there was.
Balanced(named, under, lost) == named \in Nat /\ under \in Nat /\ named + under = lost

\* An answer that is read names what the count went up by; of the count of a runtime that restarted
\* it hides what is not above the old one.
LEMMA NamesAnew ==
  \A named, under, reported, known, lost \in Nat :
    named + under + reported = lost
    => /\ reported > known => Balanced(named + (reported - known), under + known, lost)
       /\ ~(reported > known) => Balanced(named, under + reported, lost)
BY DEF Balanced

LEMMA NamesMore ==
  \A named, under, reported, known, lost \in Nat :
    named + under + (reported - known) = lost /\ known <= reported
    => /\ reported > known => Balanced(named + (reported - known), under, lost)
       /\ ~(reported > known) => Balanced(named, under, lost)
BY DEF Balanced

-----------------------------------------------------------------------------
(* Every step keeps the invariant *)

LEMMA InvariantHoldsAtFirst == Init => SendInv
<1> SUFFICES ASSUME Init PROVE SendInv
  OBVIOUS
<1>1. <<>> \in Seq(Events) /\ Len(<<>>) = 0
  OBVIOUS
<1>2. TypeOK
  <2>1. stale \in BOOLEAN
    BY Zenon DEF Init
  <2> QED
    BY <1>1, <2>1, AgentSendsAssumption DEF Init, TypeOK
<1>3. SendTypes
  BY <1>1, <1>2 DEF Init, SendTypes
<1> QED
  BY <1>1, <1>3 DEF Init, SendInv, AllAccountedFor, QueueInOrder, ReceivedInOrder, NoticesCatchUp,
     Unread

\* What happens on the machine hands over at most one event.
LEMMA MachineKeeps ==
  ASSUME SendInv,
         \/ \E o \in {"failing", "passing"} : Line(o)
         \/ Save \/ SaveSettles \/ (\E b \in Branches : Checkout(b)) \/ Check
  PROVE  SendInv'
<1> USE DEF SendInv
<1>1. UNCHANGED <<heard, said, stale, hidden, late, received, letGo, gone, restarts, refused, unheard,
                  overdue>>
  BY DEF Line, Save, SaveSettles, Checkout, Check, notices, runtime, counts
<1>2. /\ tests' \in {None, "failing", "passing"} /\ told' \in {None, "failing", "passing"}
      /\ branch' \in Branches /\ last' \in Branches
  BY DEF Line, Remembers, Save, SaveSettles, Checkout, Check, SendTypes, TypeOK
<1>3. \/ \E e \in Events : e.n = handed + 1 /\ Hand(e)
      \/ UNCHANGED sends
  <2>1. ASSUME NEW o \in {"failing", "passing"}, Line(o)
        PROVE  UNCHANGED sends \/ (Hand(Event("tests", o)) /\ Event("tests", o) \in Events)
    BY <2>1 DEF Line, Event, Events, SendTypes
  <2>2. ASSUME SaveSettles
        PROVE  Hand(Event("file", "saved")) /\ Event("file", "saved") \in Events
    BY <2>2 DEF SaveSettles, Event, Events, SendTypes
  <2>3. ASSUME Check
        PROVE  UNCHANGED sends \/ (Hand(Event("branch", branch)) /\ Event("branch", branch) \in Events)
    BY <2>3 DEF Check, Event, Events, SendTypes, TypeOK
  <2>4. \A about, is : Event(about, is).n = handed + 1
    BY DEF Event
  <2> QED
    BY <2>1, <2>2, <2>3, <2>4 DEF Save, Checkout
<1>4. CASE \E e \in Events : e.n = handed + 1 /\ Hand(e)
  <2>1. /\ queue' \in Seq(Events) /\ Len(queue') <= MaxPending
        /\ dropped' \in Nat /\ alive' \in BOOLEAN /\ handed' \in Nat
        /\ AllAccountedFor' /\ QueueInOrder' /\ ReceivedInOrder'
    BY <1>1, <1>4, HandKeeps
  <2> QED
    BY <1>1, <1>2, <2>1 DEF SendTypes, TypeOK, NoticesCatchUp, Unread
<1>5. CASE UNCHANGED sends
  BY <1>1, <1>2, <1>5 DEF sends, SendTypes, TypeOK, AllAccountedFor, QueueInOrder, ReceivedInOrder,
     NoticesCatchUp, Unread
<1> QED
  BY <1>3, <1>4, <1>5

LEMMA DeliveredKeeps ==
  ASSUME SendInv, NEW pushes \in BOOLEAN, NEW readable \in BOOLEAN, Delivered(pushes, readable)
  PROVE  SendInv'
<1> USE DEF SendInv
<1>1. /\ Sending /\ Sent /\ received' = Append(received, Head(queue))
      /\ UNCHANGED <<tests, branch, told, last, dropped, alive, late, restarts, refused, unheard, overdue>>
  BY DEF Delivered, machine, counts
<1>2. /\ queue' \in Seq(Events) /\ Len(queue') = Len(queue) - 1 /\ handed' = handed /\ QueueInOrder'
      /\ received' \in Seq(Events) /\ Len(received') = Len(received) + 1 /\ ReceivedInOrder'
  BY <1>1, SentKeeps, ArrivedKeepsOrder
<1>3. AllAccountedFor'
  <2>1. dropped' = dropped /\ refused' = refused /\ unheard' = unheard
    BY <1>1
  <2>2. Len(queue) \in Nat /\ Len(received) \in Nat
    BY DEF SendTypes
  <2>3. handed + unheard = Len(queue) + Len(received) + dropped + refused
    BY DEF AllAccountedFor
  <2>4. handed' + unheard' = Len(queue') + Len(received') + dropped' + refused'
    <3>1. /\ handed \in Nat /\ unheard \in Nat /\ dropped \in Nat /\ refused \in Nat
      BY DEF SendTypes, TypeOK
    <3>2. handed + unheard = (Len(queue) - 1) + (Len(received) + 1) + dropped + refused
      BY ONLY <2>2, <2>3, <3>1
    <3> QED
      BY ONLY <1>2, <2>1, <3>2
  <2> QED
    BY <2>4 DEF AllAccountedFor
<1>4. /\ heard' \in Nat /\ said' \in Nat /\ letGo' \in Nat /\ gone' \in Nat
      /\ stale' \in BOOLEAN /\ hidden' \in Nat /\ NoticesCatchUp'
  <2>0. heard \in Nat /\ said \in Nat /\ hidden \in Nat /\ letGo' \in Nat /\ gone' \in Nat
    BY DEF Delivered, Arrives, SendTypes, TypeOK
  <2>1. /\ said + hidden + (IF stale THEN letGo' ELSE letGo' - heard) = gone'
        /\ ~stale => heard <= letGo'
        /\ restarts = 0 => hidden = 0 /\ ~stale
    BY DEF Delivered, Arrives, NoticesCatchUp, Unread, SendTypes, TypeOK
  <2>2. CASE readable
    <3>0. stale' = FALSE /\ ~stale'
      BY <2>2, Zenon DEF Delivered
    <3>1. /\ heard' = letGo'
          /\ said' = IF letGo' > heard THEN said + (letGo' - heard) ELSE said
          /\ hidden' = hidden + Behind(letGo')
      BY <2>2 DEF Delivered, Notice
    <3>2. said' \in Nat /\ hidden' \in Nat /\ said' + hidden' = gone'
      <4>1. CASE stale
        <5>1. hidden' = hidden + IF letGo' > heard THEN heard ELSE letGo'
          BY <3>1, <4>1 DEF Behind
        <5>2. said + hidden + letGo' = gone'
          BY <2>1, <4>1
        <5>3. /\ letGo' > heard => Balanced(said + (letGo' - heard), hidden + heard, gone')
              /\ ~(letGo' > heard) => Balanced(said, hidden + letGo', gone')
          BY ONLY <2>0, <5>2, NamesAnew
        <5>4. Balanced(said', hidden', gone')
          BY ONLY <3>1, <5>1, <5>3
        <5> QED
          BY ONLY <5>4 DEF Balanced
      <4>2. CASE ~stale
        <5>1. hidden' = hidden
          BY <2>0, <3>1, <4>2 DEF Behind
        <5>2. said + hidden + (letGo' - heard) = gone' /\ heard <= letGo'
          BY <2>1, <4>2
        <5>3. /\ letGo' > heard => Balanced(said + (letGo' - heard), hidden, gone')
              /\ ~(letGo' > heard) => Balanced(said, hidden, gone')
          BY ONLY <2>0, <5>2, NamesMore
        <5>4. Balanced(said', hidden', gone')
          BY ONLY <3>1, <5>1, <5>3
        <5> QED
          BY ONLY <5>4 DEF Balanced
      <4> QED
        BY <4>1, <4>2
    <3>3. Unread' = letGo' - heard'
      BY <3>0 DEF Unread
    <3>4. said' + hidden' + Unread' = gone'
      BY ONLY <2>0, <3>1, <3>2, <3>3
    <3>5. restarts' = 0 => hidden' = 0
      BY <1>1, <2>1, <3>1 DEF Behind
    <3> QED
      <4>1. NoticesCatchUp'
        BY <2>0, <3>0, <3>1, <3>4, <3>5 DEF NoticesCatchUp
      <4>2. stale' \in BOOLEAN
        BY <3>0, Zenon
      <4> QED
        BY <2>0, <3>1, <3>2, <4>1, <4>2
  <2>3. CASE ~readable
    BY <1>1, <2>0, <2>1, <2>3 DEF Delivered, notices, NoticesCatchUp, Unread, SendTypes, TypeOK
  <2> QED
    BY <2>2, <2>3
<1>5. SendTypes'
  <2>1. UNCHANGED <<tests, branch, told, last, dropped, alive, late, restarts, refused, unheard, overdue>>
    BY <1>1
  <2>2. Len(queue') <= MaxPending
    BY <1>2, AgentSendsAssumption DEF SendTypes, TypeOK
  <2> QED
    BY <1>2, <1>4, <2>1, <2>2 DEF SendTypes, TypeOK
<1> QED
  BY <1>2, <1>3, <1>4, <1>5

LEMMA GivenUpKeeps ==
  ASSUME SendInv,
         \/ Refused
         \/ \E throws \in BOOLEAN : Fails(throws)
         \/ \E arrived \in BOOLEAN : TimesOut(arrived)
  PROVE  SendInv'
<1> USE DEF SendInv
<1>1. /\ Sending /\ Sent
      /\ UNCHANGED <<tests, branch, told, last, heard, said, stale, hidden, letGo, gone, restarts, overdue>>
  BY DEF Refused, Fails, TimesOut, machine, runtime, counts, notices
<1>2. /\ Head(queue) \in Events
      /\ queue' \in Seq(Events) /\ Len(queue') = Len(queue) - 1 /\ handed' = handed /\ QueueInOrder'
  BY <1>1, SentKeeps
<1>3. alive' \in BOOLEAN /\ Len(queue') <= MaxPending
  <2>1. alive' \in BOOLEAN
    BY DEF Refused, Fails, TimesOut, GoesOn, SendTypes, TypeOK
  <2> QED
    BY <1>2, <2>1, AgentSendsAssumption DEF SendTypes, TypeOK
<1>4. CASE received' = received
  <2>1. ReceivedInOrder'
    BY <1>1, <1>4, LostKeepsOrder
  <2>2. \/ refused' = refused + 1 /\ dropped' = dropped /\ unheard' = unheard
        \/ refused' = refused /\ dropped' = dropped + 1 /\ unheard' = unheard
    BY <1>4 DEF Refused, Fails, TimesOut, Counted, runtime, SendTypes
  <2>3. late' \subseteq Events
    BY <1>2 DEF Refused, Fails, TimesOut, runtime, SendTypes
  <2>4. AllAccountedFor'
    BY <1>2, <1>4, <2>2 DEF AllAccountedFor, SendTypes, TypeOK
  <2>5. SendTypes'
    BY <1>1, <1>2, <1>3, <1>4, <2>2, <2>3 DEF SendTypes, TypeOK
  <2> QED
    BY <1>1, <1>2, <2>1, <2>4, <2>5 DEF NoticesCatchUp, Unread
<1>5. CASE received' # received
  <2>1. /\ received' = Append(received, Head(queue)) /\ unheard' = unheard + 1
        /\ dropped' = dropped + 1 /\ refused' = refused /\ late' = late
    BY <1>5 DEF Refused, Fails, TimesOut, Counted, runtime
  <2>2. received' \in Seq(Events) /\ Len(received') = Len(received) + 1 /\ ReceivedInOrder'
    BY <1>1, <2>1, ArrivedKeepsOrder
  <2>3. /\ unheard' = unheard + 1 /\ dropped' = dropped + 1 /\ refused' = refused
        /\ late' = late
    BY <2>1
  <2>4. AllAccountedFor'
    <3>1. Len(queue) \in Nat /\ Len(received) \in Nat
      BY DEF SendTypes
    <3>2. handed + unheard = Len(queue) + Len(received) + dropped + refused
      BY DEF AllAccountedFor
    <3>3. handed' + unheard' = Len(queue') + Len(received') + dropped' + refused'
      <4>1. /\ handed' = handed /\ Len(queue') = Len(queue) - 1 /\ Len(received') = Len(received) + 1
            /\ unheard' = unheard + 1 /\ dropped' = dropped + 1 /\ refused' = refused
        BY <1>2, <2>2, <2>3
      <4>2. handed \in Nat /\ unheard \in Nat /\ dropped \in Nat /\ refused \in Nat
        BY DEF SendTypes, TypeOK
      <4> HIDE DEF SendInv
      <4> QED
        BY <3>1, <3>2, <4>1, <4>2
    <3> QED
      BY <3>3 DEF AllAccountedFor
  <2>5. SendTypes'
    BY <1>1, <1>2, <1>3, <2>2, <2>3 DEF SendTypes, TypeOK
  <2> QED
    BY <1>1, <1>2, <2>2, <2>4, <2>5 DEF NoticesCatchUp, Unread
<1> QED
  BY <1>4, <1>5

LEMMA LateKeeps ==
  ASSUME SendInv, NEW e \in late, ArrivesLate(e)
  PROVE  SendInv'
<1> USE DEF SendInv
<1>1. /\ received' = Append(received, e) /\ unheard' = unheard + 1 /\ overdue' = overdue + 1
      /\ late' = late \ {e}
      /\ UNCHANGED <<tests, branch, told, last, queue, dropped, alive, handed, heard, said, stale,
                     hidden, letGo, gone, restarts, refused>>
  BY DEF ArrivesLate, machine, sends, notices
<1>2. /\ e \in Events /\ received' \in Seq(Events) /\ Len(received') = Len(received) + 1
      /\ overdue' \in Nat /\ overdue' # 0 /\ unheard' \in Nat
  BY <1>1 DEF SendTypes
<1>3. AllAccountedFor'
  BY <1>1, <1>2 DEF AllAccountedFor, SendTypes, TypeOK
<1>4. SendTypes'
  BY <1>1, <1>2 DEF SendTypes, TypeOK
<1> QED
  BY <1>1, <1>2, <1>3, <1>4 DEF QueueInOrder, ReceivedInOrder, NoticesCatchUp, Unread

LEMMA InvariantIsKept == SendInv /\ [Next]_vars => SendInv'
<1> SUFFICES ASSUME SendInv, [Next]_vars PROVE SendInv'
  OBVIOUS
<1>1. CASE \/ \E o \in {"failing", "passing"} : Line(o)
           \/ Save \/ SaveSettles \/ (\E b \in Branches : Checkout(b)) \/ Check
  BY <1>1, MachineKeeps
<1>2. CASE Answered
  BY <1>2, DeliveredKeeps, GivenUpKeeps DEF Answered
<1>3. CASE \E e \in late : ArrivesLate(e)
  BY <1>3, LateKeeps
<1>4. CASE Restart
  <2>1. /\ heard \in Nat /\ said \in Nat /\ hidden \in Nat /\ letGo \in Nat /\ gone \in Nat
        /\ restarts \in Nat /\ said + hidden + Unread = gone
        /\ ~stale => heard <= letGo
    BY DEF SendInv, SendTypes, TypeOK, NoticesCatchUp
  <2>2. /\ hidden' = hidden + Unread /\ stale' = TRUE /\ letGo' = 0 /\ restarts' = restarts + 1
        /\ UNCHANGED <<machine, sends, heard, said, late, received, gone, counts>>
    BY <1>4 DEF Restart
  <2>3. Unread \in Nat
    BY <2>1 DEF Unread
  <2>4. hidden' \in Nat /\ restarts' \in Nat /\ NoticesCatchUp'
    BY <2>1, <2>2, <2>3 DEF NoticesCatchUp, Unread
  <2> QED
    BY <2>2, <2>4 DEF machine, sends, counts, SendInv, SendTypes, TypeOK, AllAccountedFor,
       QueueInOrder, ReceivedInOrder
<1>5. CASE UNCHANGED vars
  BY <1>5 DEF vars, machine, sends, notices, runtime, counts, SendInv, SendTypes, TypeOK,
     AllAccountedFor, QueueInOrder, ReceivedInOrder, NoticesCatchUp, Unread
<1> QED
  BY <1>1, <1>2, <1>3, <1>4, <1>5 DEF Next

\* The inductive invariant of AgentSends: every event handed over has its place, in order, and every
\* notice is behind the losses it speaks of.
THEOREM SendInvariant == Spec => []SendInv
BY InvariantHoldsAtFirst, InvariantIsKept, PTL DEF Spec

-----------------------------------------------------------------------------
(* What follows *)

\* The queue never holds more than its ceiling, and the counts are counts.
THEOREM SendsTypeCorrect == Spec => []TypeOK
<1>1. SendInv => TypeOK
  BY DEF SendInv, SendTypes
<1> QED
  BY <1>1, SendInvariant, PTL

\* createSendQueue: what was handed over is waiting, arrived, was refused or is counted, whatever
\* fails, times out or comes in late.
THEOREM SendsAreAccountedFor == Spec => []AllAccountedFor
<1>1. SendInv => AllAccountedFor
  BY DEF SendInv
<1> QED
  BY <1>1, SendInvariant, PTL

\* createSendQueue: what arrives arrives in the order it was handed over in, unless a send that
\* was given up came in after all.
THEOREM SendsArriveInOrder == Spec => []InOrder
<1>1. SendInv => InOrder
  BY DEF SendInv, SendTypes, ReceivedInOrder, InOrder
<1> QED
  BY <1>1, SendInvariant, PTL

\* dropNotice: the notices name no loss that was not one, over restarts of the runtime and
\* answers nobody could read.
THEOREM NoticesNeverOverstate == Spec => []NeverOverstated
<1>1. SendInv => NeverOverstated
  <2> SUFFICES ASSUME SendInv PROVE NeverOverstated
    OBVIOUS
  <2>1. /\ heard \in Nat /\ said \in Nat /\ hidden \in Nat /\ letGo \in Nat /\ gone \in Nat
        /\ said + hidden + Unread = gone
        /\ ~stale => heard <= letGo
    BY DEF SendInv, SendTypes, TypeOK, NoticesCatchUp
  <2>2. Unread \in Nat
    BY <2>1 DEF Unread
  <2> QED
    BY <2>1, <2>2 DEF NeverOverstated
<1> QED
  BY <1>1, SendInvariant, PTL

\* createSendQueue and dropNotice: what is lost on the way is counted, and every loss at the runtime
\* that an answer told of is named, but for those a restart of the runtime hides.
THEOREM ReadLossesAreNamed == Spec => []LossesAreTold
<1>1. SendInv => LossesAreTold
  <2> SUFFICES ASSUME SendInv PROVE LossesAreTold
    OBVIOUS
  <2>1. /\ letGo \in Nat /\ said \in Nat /\ hidden \in Nat /\ gone \in Nat
        /\ said + hidden + Unread = gone
        /\ restarts = 0 => hidden = 0 /\ ~stale
    BY DEF SendInv, SendTypes, TypeOK, NoticesCatchUp
  <2>2. restarts = 0 /\ heard = letGo => said = gone
    BY <2>1 DEF Unread
  <2> QED
    BY <2>1, <2>2 DEF SendInv, LossesAreTold, EveryReadLossIsNamed
<1> QED
  BY <1>1, SendInvariant, PTL

-----------------------------------------------------------------------------
(* What the runtime believes *)

\* What a sequence of events says last about something.
SaysLast(q, about, first, x) ==
  \/ x = first /\ \A i \in 1..Len(q) : q[i].about # about
  \/ \E i \in 1..Len(q) :
       /\ q[i].about = about /\ q[i].is = x
       /\ \A j \in 1..Len(q) : q[j].about = about => j <= i

\* What has arrived and what will, in that order.
AllSent == received \o queue

\* As long as nothing was dropped or refused, the events say what the senses saw last; and what
\* they saw last of the branch is what is so, unless a check is due or could not read it.
BeliefInv ==
  /\ told = tests /\ unread \in Nat
  /\ ~checking /\ unread = 0 => last = branch
  /\ dropped = 0 => late = {}
  /\ dropped = 0 /\ refused = 0 =>
       /\ SaysLast(AllSent, "branch", FirstBranch, last)
       /\ \E x : SaysLast(AllSent, "tests", "passing", x) /\ (x = "failing" <=> told = "failing")

LEMMA SaysMore ==
  ASSUME NEW q \in Seq(Events), NEW e \in Events, NEW about, NEW first, NEW x,
         SaysLast(q, about, first, x)
  PROVE  SaysLast(Append(q, e), about, first, IF e.about = about THEN e.is ELSE x)
<1> DEFINE p == Append(q, e)
           n == Len(q) + 1
<1>1. /\ Len(p) = n /\ p[n] = e /\ \A i \in 1..Len(q) : p[i] = q[i]
  BY AppendProperties
<1>2. Len(q) \in Nat /\ n \in 1..n /\ \A i \in 1..n : (i \in 1..Len(q) \/ i = n) /\ i <= n
  BY LenProperties
<1>3. \A i \in 1..Len(q) : i \in 1..n
  BY <1>2
<1> HIDE DEF p, n
<1>4. CASE e.about = about
  BY <1>1, <1>2, <1>4 DEF SaysLast, p
<1>5. CASE e.about # about
  <2>1. \A i \in 1..n : p[i].about = about => i \in 1..Len(q) /\ q[i].about = about
    BY <1>1, <1>2, <1>5
  <2>2. CASE x = first /\ \A i \in 1..Len(q) : q[i].about # about
    BY <1>1, <1>5, <2>1, <2>2 DEF SaysLast, p
  <2>3. ASSUME NEW i \in 1..Len(q), q[i].about = about, q[i].is = x,
               \A j \in 1..Len(q) : q[j].about = about => j <= i
        PROVE  SaysLast(p, about, first, x)
    BY <1>1, <1>3, <2>1, <2>3 DEF SaysLast
  <2> QED
    BY <1>5, <2>2, <2>3 DEF SaysLast, p
<1> QED
  BY <1>4, <1>5

\* An event handed over is the last of all, unless it is dropped.
LEMMA HandSays ==
  ASSUME SendInv, NEW e \in Events, Hand(e), received' = received, dropped' = 0
  PROVE  dropped = 0 /\ AllSent' = Append(AllSent, e) /\ AllSent \in Seq(Events)
<1>1. queue \in Seq(Events) /\ received \in Seq(Events) /\ dropped \in Nat
  BY DEF SendInv, SendTypes, TypeOK
<1>2. queue' = Append(queue, e) /\ dropped = 0
  BY <1>1 DEF Hand, InLine
<1>3. received \o Append(queue, e) = Append(received \o queue, e)
  BY <1>1, AppendIsConcat, ConcatAssociative
<1>4. received \o queue \in Seq(Events)
  BY <1>1, ConcatProperties
<1> QED
  BY <1>2, <1>3, <1>4 DEF AllSent

\* A delivery moves an event from what will arrive to what has.
LEMMA DeliverySays ==
  ASSUME SendInv, Sending, queue' = Tail(queue), received' = Append(received, Head(queue))
  PROVE  AllSent' = AllSent
<1> DEFINE h == Head(queue)
           rest == Tail(queue)
<1>1. queue \in Seq(Events) /\ received \in Seq(Events) /\ queue # <<>>
  BY DEF SendInv, SendTypes, Sending
<1>2. h \in Events /\ rest \in Seq(Events) /\ Len(rest) = Len(queue) - 1 /\ Len(queue) \in Nat \ {0}
      /\ h = queue[1] /\ \A i \in 1..Len(rest) : rest[i] = queue[i + 1]
  BY <1>1, HeadTailProperties, EmptySeq
<1> HIDE DEF h, rest
<1> DEFINE p == Append(received, h)
           m == Len(received)
<1>3. /\ p \in Seq(Events) /\ Len(p) = m + 1 /\ p[m + 1] = h /\ m \in Nat
      /\ \A i \in 1..m : p[i] = received[i]
  BY <1>1, <1>2, AppendProperties, LenProperties
<1> HIDE DEF p, m
<1> DEFINE a == p \o rest
           b == received \o queue
<1>4. /\ a \in Seq(Events) /\ Len(a) = (m + 1) + Len(rest)
      /\ \A i \in 1..((m + 1) + Len(rest)) : a[i] = IF i <= m + 1 THEN p[i] ELSE rest[i - (m + 1)]
  <2>1. /\ a \in Seq(Events) /\ Len(a) = Len(p) + Len(rest)
        /\ \A i \in 1..(Len(p) + Len(rest)) : a[i] = IF i <= Len(p) THEN p[i] ELSE rest[i - Len(p)]
    BY <1>2, <1>3, ConcatProperties
  <2> HIDE DEF a
  <2> QED
    BY <1>3, <2>1
<1>5. /\ b \in Seq(Events) /\ Len(b) = m + Len(queue)
      /\ \A i \in 1..(m + Len(queue)) : b[i] = IF i <= m THEN received[i] ELSE queue[i - m]
  BY <1>1, ConcatProperties DEF m
<1> HIDE DEF a, b
<1>6. Len(a) = Len(b)
  BY <1>2, <1>3, <1>4, <1>5
<1>7. ASSUME NEW i \in 1..Len(a) PROVE a[i] = b[i]
  <2>1. /\ i \in 1..((m + 1) + Len(rest)) /\ i \in 1..(m + Len(queue)) /\ i \in Nat /\ i >= 1
    BY <1>2, <1>3, <1>4
  <2>2. CASE i <= m
    <3>1. i \in 1..m /\ i <= m + 1
      BY <1>3, <2>1, <2>2
    <3>2. a[i] = p[i]
      BY <1>4, <2>1, <3>1
    <3>3. b[i] = received[i]
      BY <1>5, <2>1, <2>2
    <3> QED
      BY <1>3, <3>1, <3>2, <3>3
  <2>3. CASE i = m + 1
    <3>1. a[i] = h
      BY <1>3, <1>4, <2>1, <2>3
    <3>2. b[i] = queue[i - m] /\ i - m = 1
      BY <1>3, <1>5, <2>1, <2>3
    <3> QED
      BY <1>2, <3>1, <3>2
  <2>4. CASE i > m + 1
    <3> DEFINE k == i - (m + 1)
    <3>1. k \in 1..Len(rest) /\ i - m = k + 1
      BY <1>2, <1>3, <2>1, <2>4
    <3>2. a[i] = rest[k]
      BY <1>3, <1>4, <2>1, <2>4
    <3>3. b[i] = queue[k + 1]
      BY <1>3, <1>5, <2>1, <2>4, <3>1
    <3> QED
      BY <1>2, <3>1, <3>2, <3>3
  <2> QED
    BY <1>3, <2>1, <2>2, <2>3, <2>4
<1>8. a = b
  BY <1>4, <1>5, <1>6, <1>7, SeqEqual
<1> QED
  BY <1>8 DEF AllSent, a, b, h, p, rest

\* A step that says nothing and one that loses something keep the rest.
LEMMA BeliefAfterLine ==
  ASSUME SendInv, BeliefInv, NEW o \in {"failing", "passing"}, Line(o)
  PROVE  BeliefInv'
<1>1. /\ tests' = o /\ told' = o
      /\ UNCHANGED <<branch, last, saving, checking, unread, late, received, refused>>
  BY DEF Line, Remembers, runtime, counts
<1>2. (~checking /\ unread = 0 => last = branch)' /\ told' = tests' /\ unread' \in Nat
  BY <1>1 DEF BeliefInv
<1>3. CASE ~News(told, o)
  <2>1. UNCHANGED <<queue, dropped, handed>>
    BY <1>3 DEF Line, sends
  <2>2. told' = "failing" <=> told = "failing"
    BY <1>1, <1>3 DEF News
  <2> QED
    BY <1>1, <1>2, <2>1, <2>2 DEF BeliefInv, AllSent
<1>4. CASE News(told, o)
  <2> DEFINE e == Event("tests", o)
  <2>1. e \in Events /\ e.about = "tests" /\ e.is = o
    BY DEF Event, Events, SendInv, SendTypes
  <2>2. Hand(e)
    BY <1>4 DEF Line
  <2> HIDE DEF e
  <2> SUFFICES ASSUME dropped' = 0
               PROVE  /\ late' = {}
                      /\ refused' = 0 =>
                           /\ SaysLast(AllSent', "branch", FirstBranch, last')
                           /\ \E x : /\ SaysLast(AllSent', "tests", "passing", x)
                                     /\ x = "failing" <=> told' = "failing"
    BY <1>2 DEF BeliefInv
  <2>3. dropped = 0 /\ AllSent' = Append(AllSent, e) /\ AllSent \in Seq(Events)
    BY <1>1, <2>1, <2>2, HandSays
  <2>4. CASE refused = 0
    <3>1. SaysLast(AllSent', "branch", FirstBranch, last)
      BY <2>1, <2>3, <2>4, SaysMore DEF BeliefInv
    <3>2. SaysLast(AllSent', "tests", "passing", o)
      BY <2>1, <2>3, <2>4, SaysMore DEF BeliefInv
    <3> QED
      BY <1>1, <2>3, <3>1, <3>2 DEF BeliefInv
  <2> QED
    BY <1>1, <2>3, <2>4 DEF BeliefInv
<1> QED
  BY <1>3, <1>4

LEMMA BeliefAfterOther ==
  ASSUME SendInv, BeliefInv, NEW e \in Events, e.about # "tests", Hand(e),
         UNCHANGED <<tests, told, received, late, refused>>, unread' \in Nat,
         (~checking /\ unread = 0 => last = branch)',
         last' = IF e.about = "branch" THEN e.is ELSE last
  PROVE  BeliefInv'
<1> SUFFICES ASSUME dropped' = 0
             PROVE  /\ late' = {}
                    /\ refused' = 0 =>
                         /\ SaysLast(AllSent', "branch", FirstBranch, last')
                         /\ \E x : /\ SaysLast(AllSent', "tests", "passing", x)
                                   /\ x = "failing" <=> told' = "failing"
  BY DEF BeliefInv
<1>1. dropped = 0 /\ AllSent' = Append(AllSent, e) /\ AllSent \in Seq(Events)
  BY HandSays
<1>2. CASE refused = 0
  <2>1. SaysLast(AllSent', "branch", FirstBranch, last')
    BY <1>1, <1>2, SaysMore DEF BeliefInv
  <2>2. PICK x : SaysLast(AllSent, "tests", "passing", x) /\ (x = "failing" <=> told = "failing")
    BY <1>1, <1>2 DEF BeliefInv
  <2>3. SaysLast(AllSent', "tests", "passing", x)
    BY <1>1, <2>2, SaysMore
  <2> QED
    BY <1>1, <2>1, <2>2, <2>3 DEF BeliefInv
<1> QED
  BY <1>1, <1>2 DEF BeliefInv

\* shape.ts: as long as nothing is dropped, refused or unread, what was handed over says what the
\* senses saw last.
LEMMA BeliefInvariant == Spec => []BeliefInv
<1>1. Init => BeliefInv
  <2> SUFFICES ASSUME Init PROVE BeliefInv
    OBVIOUS
  <2>1. received \o queue = <<>>
    BY EmptySeq, ConcatEmptySeq DEF Init
  <2>2. \A about, first : SaysLast(<<>>, about, first, first)
    BY EmptySeq DEF SaysLast
  <2>3. told # "failing"
    BY AgentSendsAssumption DEF Init
  <2>4. AllSent = <<>>
    BY <2>1 DEF AllSent
  <2>5. SaysLast(AllSent, "branch", FirstBranch, last)
    BY <2>2, <2>4 DEF Init
  <2>6. SaysLast(AllSent, "tests", "passing", "passing") /\ "passing" # "failing"
    BY <2>2, <2>4
  <2>7. \E x : SaysLast(AllSent, "tests", "passing", x) /\ (x = "failing" <=> told = "failing")
    BY <2>3, <2>6
  <2>8. /\ told = tests /\ unread \in Nat /\ last = branch /\ late = {}
    BY DEF Init
  <2> QED
    BY <2>5, <2>7, <2>8 DEF BeliefInv
<1>2. SendInv /\ BeliefInv /\ [Next]_vars => BeliefInv'
  <2> SUFFICES ASSUME SendInv, BeliefInv, [Next]_vars PROVE BeliefInv'
    OBVIOUS
  <2>0. dropped \in Nat /\ refused \in Nat /\ unread \in Nat /\ handed + 1 \in Nat
    BY DEF SendInv, SendTypes, TypeOK, BeliefInv
  <2>1. ASSUME NEW o \in {"failing", "passing"}, Line(o) PROVE BeliefInv'
    BY <2>1, BeliefAfterLine
  <2>2. CASE SaveSettles
    <3> DEFINE e == Event("file", "saved")
    <3>1. e \in Events /\ e.about = "file"
      BY <2>0 DEF Event, Events
    <3>2. Hand(e) /\ UNCHANGED <<tests, told, received, late, refused, unread, checking, last, branch>>
      BY <2>2 DEF SaveSettles, runtime, counts
    <3> HIDE DEF e
    <3> QED
      BY <2>0, <3>1, <3>2, BeliefAfterOther DEF BeliefInv
  <2>3. CASE Check
    <3>1. PICK b \in {branch, None} :
            /\ unread' = IF b = None THEN unread + 1 ELSE unread
            /\ IF b \in {None, last} THEN UNCHANGED <<sends, last>>
               ELSE last' = b /\ Hand(Event("branch", b))
      BY <2>3 DEF Check
    <3>2. UNCHANGED <<tests, told, received, late, refused, branch>>
      BY <2>3 DEF Check, runtime, counts
    <3>3. branch \in Branches /\ branch # None
      BY AgentSendsAssumption DEF SendInv, SendTypes, TypeOK
    <3>4. unread' \in Nat /\ (~checking /\ unread = 0 => last = branch)'
      BY <2>0, <3>1, <3>2, <3>3
    <3>5. CASE b \in {None, last}
      <4>1. UNCHANGED <<queue, dropped, last>>
        BY <3>1, <3>5 DEF sends
      <4> QED
        BY <3>2, <3>4, <4>1 DEF BeliefInv, AllSent
    <3>6. CASE b \notin {None, last}
      <4> DEFINE e == Event("branch", b)
      <4>1. e \in Events /\ e.about = "branch" /\ e.is = b
        BY <2>0, <3>1, <3>3, <3>6 DEF Event, Events
      <4>2. last' = b /\ Hand(e)
        BY <3>1, <3>6
      <4> HIDE DEF e
      <4> QED
        BY <3>2, <3>4, <4>1, <4>2, BeliefAfterOther
    <3> QED
      BY <3>5, <3>6
  <2>4. ASSUME NEW pushes \in BOOLEAN, NEW readable \in BOOLEAN, Delivered(pushes, readable)
        PROVE  BeliefInv'
    <3>1. /\ UNCHANGED <<tests, told, unread, checking, last, branch, dropped, late, refused>>
          /\ Sending /\ queue' = Tail(queue) /\ received' = Append(received, Head(queue))
      BY <2>4 DEF Delivered, Sent, machine, counts
    <3>2. AllSent' = AllSent
      BY <3>1, DeliverySays
    <3> QED
      BY <3>1, <3>2 DEF BeliefInv
  <2>5. CASE \/ Refused \/ (\E throws \in BOOLEAN : Fails(throws))
             \/ (\E arrived \in BOOLEAN : TimesOut(arrived))
    <3>1. /\ UNCHANGED <<tests, told, unread, checking, last, branch>>
          /\ \/ dropped' = dropped /\ late' = late /\ refused' = refused + 1
             \/ dropped' = dropped + 1
      BY <2>5 DEF Refused, Fails, TimesOut, Sent, Counted, machine, runtime
    <3>2. refused + 1 # 0 /\ dropped + 1 # 0
      BY <2>0
    <3> QED
      BY <3>1, <3>2 DEF BeliefInv
  <2>6. ASSUME NEW e \in late, ArrivesLate(e) PROVE BeliefInv'
    <3>1. UNCHANGED <<tests, told, unread, checking, last, branch, dropped>>
      BY <2>6 DEF ArrivesLate, machine, sends
    <3> QED
      BY <2>6, <3>1 DEF BeliefInv
  <2>7. CASE Save \/ (\E b \in Branches : Checkout(b)) \/ Restart \/ UNCHANGED vars
    <3>1. /\ UNCHANGED <<tests, told, unread, last, dropped, late, refused, queue, received>>
          /\ UNCHANGED <<checking, branch>> \/ checking' = TRUE
      BY <2>7 DEF Save, Checkout, Restart, vars, machine, sends, runtime, counts
    <3> QED
      BY <3>1 DEF BeliefInv, AllSent
  <2> QED
    BY <2>1, <2>2, <2>3, <2>4, <2>5, <2>6, <2>7 DEF Next, Answered
<1> QED
  BY <1>1, <1>2, SendInvariant, PTL DEF Spec

LEMMA WhatWasSaidIsBelieved ==
  ASSUME received \in Seq(Events), NEW about, NEW first, NEW x,
         SaysLast(received, about, first, x)
  PROVE  Belief(about, first) = x
<1> DEFINE of == {i \in DOMAIN received : received[i].about = about}
<1>1. DOMAIN received = 1..Len(received) /\ Len(received) \in Nat
  BY LenProperties
<1>2. CASE of = {}
  BY <1>1, <1>2 DEF Belief, SaysLast
<1>3. CASE of # {}
  <2>1. PICK i \in of : received[i].is = x /\ \A j \in of : j <= i
    BY <1>1, <1>3 DEF SaysLast
  <2>2. \A j \in of : j \in Nat
    BY <1>1
  <2>3. Max(of) \in of /\ \A j \in of : Max(of) >= j
    <3> HIDE DEF of
    <3> QED
      BY <2>1, <2>2 DEF Max
  <2>4. Max(of) = i
    <3> HIDE DEF of
    <3>1. Max(of) \in Nat /\ i \in Nat /\ Max(of) >= i /\ Max(of) <= i
      BY <2>1, <2>2, <2>3
    <3> QED
      BY <3>1
  <2> QED
    BY <1>3, <2>1, <2>4 DEF Belief
<1> QED
  BY <1>2, <1>3

\* shape.ts, createSendQueue and watchGitBranch: with nothing lost and nothing under way the runtime
\* believes what is so of the tests and of the branch, however often they went back and forth.
THEOREM SettledBeliefsAreTrue == Spec => []SettledBeliefIsTrue
<1>1. SendInv /\ BeliefInv => SettledBeliefIsTrue
  <2> SUFFICES ASSUME SendInv, BeliefInv, queue = <<>>, ~checking,
                      dropped + refused + unread + gone = 0
               PROVE  /\ (Belief("tests", "passing") = "failing") <=> (tests = "failing")
                      /\ Belief("branch", FirstBranch) = branch
    BY DEF SettledBeliefIsTrue
  <2>1. dropped = 0 /\ refused = 0 /\ unread = 0
    BY DEF SendInv, SendTypes, TypeOK, BeliefInv
  <2>2. received \in Seq(Events)
    BY DEF SendInv, SendTypes
  <2>3. AllSent = received
    BY <2>2, ConcatEmptySeq DEF AllSent
  <2>4. SaysLast(received, "branch", FirstBranch, branch)
    BY <2>1, <2>3 DEF BeliefInv
  <2>5. PICK x : SaysLast(received, "tests", "passing", x) /\ (x = "failing" <=> tests = "failing")
    BY <2>1, <2>3 DEF BeliefInv
  <2> QED
    BY <2>2, <2>4, <2>5, WhatWasSaidIsBelieved
<1> QED
  BY <1>1, SendInvariant, BeliefInvariant, PTL

-----------------------------------------------------------------------------
(* The channel: what is in whose hand, and what each belief has seen of a partition *)

Messages == Sessions \X (Nat \ {0})
Processes == Runtimes \X (Nat \ {0})
\* The event of a message, in a topic it is in.
Says(t, m) == <<m[1], t[m[1]][m[2]]>>
InTopic(t, m) == m \in Messages /\ m[2] <= Len(t[m[1]])
Working(r) == phase[r] \in {"up", "closing"}
Memories == [order : Seq(Sessions), ids : [Sessions -> Seq(Nat)]]
\* What a process remembers, or did in this life.
SeenBy(r) == Broker!Remembered(seenBy[r]) \cup lapsed[r]

ChannelTypes ==
  /\ topic \in [Sessions -> Seq(Nat)]
  /\ committed \in [Sessions -> Nat \cup {None}] /\ pos \in [Sessions -> Nat]
  /\ owner \in [Sessions -> Processes \cup {None}] /\ members \subseteq Processes
  /\ phase \in [Runtimes -> {"down", "started", "asked", "up", "closing"}]
  /\ processLife \in [Runtimes -> Nat] /\ code \in [Runtimes -> {0, 1, None}]
  /\ processAsked \in [Runtimes -> {{}}]
  /\ hand \in [Runtimes -> Messages \cup {<<>>}]
  /\ seenBy \in [Runtimes -> Memories] /\ lapsed \in [Runtimes -> SUBSET (Sessions \X Nat)]
  /\ belief \in [Runtimes -> Seq(Messages \X (Sessions \X Nat))]
  /\ folded \subseteq Messages \X Processes
  /\ deaths \in Nat /\ moves \in Nat

\* Partitions are with members, and a member is a life there was.
MembersFit ==
  /\ \A s \in Sessions : owner[s] \in members \cup {None}
  /\ \A m \in members : m[2] <= processLife[m[1]]
  /\ \A r \in Runtimes : Working(r) => Broker!Me(r) \in members /\ processLife[r] > 0
  /\ \A r \in Runtimes : Broker!Me(r) \in members => phase[r] \in {"up", "closing", "down"}

OffsetsFit ==
  \A s \in Sessions : pos[s] <= Len(topic[s]) /\ (committed[s] # None => committed[s] <= pos[s])

\* What a process has in hand is an event, known and not yet believed unless it was forgotten.
HandsFit ==
  \A r \in Runtimes : hand[r] # <<>> =>
    /\ InTopic(topic, hand[r]) /\ Working(r)
    /\ Says(topic, hand[r])[2] # 0 /\ Says(topic, hand[r]) \in SeenBy(r)

BeliefsFit ==
  \A r \in Runtimes : \A i \in 1..Len(belief[r]) :
    /\ InTopic(topic, belief[r][i][1]) /\ belief[r][i][2] = Says(topic, belief[r][i][1])
    /\ belief[r][i][2] \in SeenBy(r)
    /\ hand[r] # <<>> /\ belief[r][i][2] \notin lapsed[r] => belief[r][i][2] # Says(topic, hand[r])

\* Nothing before the floor of a partition is handed over again.
Floor(offset, at) == IF offset = None THEN at ELSE offset
\* Each message from the floor up to this one is none, or an event that is known.
Covered(floor, messages, known, s, n) ==
  \A k \in 1..n : k <= floor \/ messages[k] = 0 \/ <<s, messages[k]>> \in known
CoveredBy(r, s, n) == Covered(Floor(committed[s], pos[s]), topic[s], SeenBy(r) \cup channelLetGo, s, n)

CoverFits ==
  \A r \in Runtimes :
    /\ \A s \in Sessions : owner[s] = Broker!Me(r) => CoveredBy(r, s, pos[s])
    /\ \A i \in 1..Len(belief[r]) : CoveredBy(r, belief[r][i][1][1], belief[r][i][1][2])
    /\ hand[r] # <<>> => CoveredBy(r, hand[r][1], hand[r][2])

\* What is in hand comes after what is believed, but for what a lane let go or was forgotten.
HandIsNewest ==
  \A r \in Runtimes : \A i \in 1..Len(belief[r]) :
    /\ hand[r] # <<>> /\ hand[r][1] = belief[r][i][1][1]
    /\ {belief[r][i][2], Says(topic, hand[r])} \cap (channelLetGo \cup lapsed[r]) = {}
    => belief[r][i][1][2] < hand[r][2]

OrderFits == HandIsNewest /\ Broker!OnceInALife /\ Broker!InTopicOrder
ChannelInv == ChannelTypes /\ MembersFit /\ OffsetsFit /\ HandsFit /\ BeliefsFit /\ CoverFits /\ OrderFits

-----------------------------------------------------------------------------
(* One process alone *)

Only(p) == \A q \in Runtimes \ {p} : processLife[q] = 0
Dead(m) == m \in members /\ (m # Broker!Me(m[1]) \/ phase[m[1]] = "down")

\* With no death nobody stays a member who is not, and with one, one.
DeadFit ==
  /\ deaths = 0 => \A m \in members : ~Dead(m)
  /\ deaths < 2 => \A m, n \in members : Dead(m) /\ Dead(n) => m = n

\* A process alone keeps the partition it has a message of, ...
AloneKeeps(p) ==
  moves = 0 /\ deaths < 2 =>
    /\ hand[p] # <<>> => owner[hand[p][1]] = Broker!Me(p) /\ pos[hand[p][1]] + 1 = hand[p][2]
    /\ \A f \in folded : f[2] = Broker!Me(p) =>
         IF Working(p) THEN owner[f[1][1]] = Broker!Me(p) /\ f[1][2] <= pos[f[1][1]]
         ELSE code[p] = 0 => committed[f[1][1]] # None /\ f[1][2] <= committed[f[1][1]]

\* ... and while none died, its lives go on where the one before them stopped.
AloneGoesOn(p) ==
  deaths = 0 =>
    /\ moves = 0
    /\ \A f \in folded :
         IF Working(p) THEN owner[f[1][1]] = Broker!Me(p) /\ f[1][2] <= pos[f[1][1]]
         ELSE f[1][2] <= Broker!From(f[1][1])
    /\ \A f, g \in folded : f[1] = g[1] => f = g

AloneFits(p) == AloneKeeps(p) /\ AloneGoesOn(p)

\* A life that was not lived did nothing, and only one that joined folds.
LivesFit ==
  /\ \A r \in Runtimes : processLife[r] = 0 => phase[r] = "down" /\ code[r] = None
  /\ \A f \in folded :
       /\ f[2][2] <= processLife[f[2][1]]
       /\ f[2] = Broker!Me(f[2][1]) => phase[f[2][1]] \notin {"started", "asked"}
  /\ \A r \in Runtimes : code[r] = 0 => phase[r] = "down" /\ Broker!Me(r) \notin members

AloneInv == LivesFit /\ DeadFit /\ \A p \in Runtimes : Only(p) => AloneFits(p)

Inv == ChannelInv /\ AloneInv
-----------------------------------------------------------------------------
(* What is remembered of the events *)

\* Letting go of one leaves the others, ...
LEMMA WithoutIs ==
  ASSUME NEW S, NEW q \in Seq(S), NEW x
  PROVE  /\ Broker!Without(q, x) \in Seq(S)
         /\ Broker!ToSet(q) \ {x} \subseteq Broker!ToSet(Broker!Without(q, x))
<1>1. CASE x \notin Broker!ToSet(q)
  BY <1>1 DEF Broker!Without
<1>2. CASE x \in Broker!ToSet(q)
  <2> DEFINE c == CHOOSE i \in 1..Len(q) : q[i] = x
             left == SubSeq(q, 1, c - 1)
             right == SubSeq(q, c + 1, Len(q))
  <2>1. c \in 1..Len(q) /\ q[c] = x
    BY <1>2 DEF Broker!ToSet
  <2>2. Broker!Without(q, x) = left \o right
    BY <1>2 DEF Broker!Without, Broker!RemoveAt
  <2> HIDE DEF c
  <2>3. c \in Int /\ Len(q) \in Nat /\ \A i \in 1..Len(q) : q[i] \in S
    BY <2>1, LenProperties, ElementOfSeq
  <2>4. /\ left \in Seq(S) /\ Len(left) = c - 1
        /\ \A i \in 1..(c - 1) : left[i] = q[i]
    <3>1. \A i \in 1..(c - 1) : q[i] \in S
      BY <2>1, <2>3
    <3>2. /\ left \in Seq(S) /\ Len(left) = IF 1 <= c - 1 THEN (c - 1) - 1 + 1 ELSE 0
          /\ \A i \in 1..((c - 1) - 1 + 1) : left[i] = q[1 + i - 1]
      BY <2>3, <3>1, SubSeqProperties
    <3> QED
      BY <2>1, <2>3, <3>2
  <2>5. /\ right \in Seq(S) /\ Len(right) = Len(q) - c
        /\ \A i \in 1..(Len(q) - c) : right[i] = q[c + i]
    <3>1. \A i \in (c + 1)..Len(q) : q[i] \in S
      BY <2>1, <2>3
    <3>2. /\ right \in Seq(S)
          /\ Len(right) = IF c + 1 <= Len(q) THEN Len(q) - (c + 1) + 1 ELSE 0
          /\ \A i \in 1..(Len(q) - (c + 1) + 1) : right[i] = q[(c + 1) + i - 1]
      BY <2>3, <3>1, SubSeqProperties
    <3> QED
      BY <2>1, <2>3, <3>2
  <2> HIDE DEF left, right
  <2>6. /\ left \o right \in Seq(S) /\ Len(left \o right) = Len(left) + Len(right)
        /\ \A i \in 1..(Len(left) + Len(right)) :
             (left \o right)[i] = IF i <= Len(left) THEN left[i] ELSE right[i - Len(left)]
    BY <2>4, <2>5, ConcatProperties
  <2>7. ASSUME NEW k \in 1..Len(q), q[k] # x
        PROVE  \E i \in 1..Len(left \o right) : (left \o right)[i] = q[k]
    <3>1. CASE k < c
      <4>1. k \in 1..Len(left) /\ k <= Len(left) /\ k \in 1..(Len(left) + Len(right)) /\ left[k] = q[k]
        BY <2>1, <2>3, <2>4, <2>5, <3>1
      <4>2. k \in 1..Len(left \o right)
        BY <4>1, <2>6
      <4> QED
        BY <4>1, <4>2, <2>6
    <3>2. CASE k > c
      <4>1. /\ k - c \in 1..(Len(q) - c) /\ c + (k - c) = k
            /\ k - 1 \in 1..(Len(left) + Len(right)) /\ ~(k - 1 <= Len(left)) /\ (k - 1) - Len(left) = k - c
        BY <2>1, <2>3, <2>4, <2>5, <3>2
      <4>2. right[k - c] = q[k]
        BY <4>1, <2>5
      <4>3. (left \o right)[k - 1] = q[k] /\ k - 1 \in 1..Len(left \o right)
        BY <4>1, <4>2, <2>6
      <4> QED
        BY <4>3
    <3>3. k # c
      BY <2>1, <2>7
    <3> QED
      BY <2>3, <3>1, <3>2, <3>3
  <2>8. DOMAIN q = 1..Len(q) /\ DOMAIN (left \o right) = 1..Len(left \o right)
    BY <2>6
  <2>9. Broker!ToSet(q) \ {x} \subseteq Broker!ToSet(left \o right)
    BY <2>7, <2>8 DEF Broker!ToSet
  <2> QED
    BY <2>2, <2>6, <2>9
<1> QED
  BY <1>1, <1>2

LEMMA BoundedIs ==
  ASSUME Broker!ChannelAssumption, NEW q \in Seq(Nat), NEW e \in Nat
  PROVE  Broker!Bounded(Append(q, e)) \in Seq(Nat) /\ e \in Broker!ToSet(Broker!Bounded(Append(q, e)))
<1> DEFINE a == Append(q, e)
<1>1. a \in Seq(Nat) /\ Len(a) = Len(q) + 1 /\ a[Len(a)] = e /\ Len(q) \in Nat
  OBVIOUS
<1> HIDE DEF a
<1>2. CASE Len(a) > IdsPerSession
  <2>1. IdsPerSession \in Nat /\ IdsPerSession # 0
    BY DEF Broker!ChannelAssumption
  <2>2. a # <<>> /\ Len(a) - 1 \in 1..(Len(a) - 1)
    BY <1>1, <1>2, <2>1
  <2>3. /\ Tail(a) \in Seq(Nat) /\ Len(Tail(a)) = Len(a) - 1
        /\ \A i \in 1..(Len(a) - 1) : Tail(a)[i] = a[i + 1]
    BY <1>1, <2>2, HeadTailProperties
  <2>4. Tail(a)[Len(a) - 1] = e
    BY <1>1, <2>2, <2>3
  <2>5. e \in Broker!ToSet(Tail(a))
    <3>1. DOMAIN Tail(a) = 1..(Len(a) - 1)
      BY <2>3
    <3> QED
      BY <2>2, <2>4, <3>1 DEF Broker!ToSet
  <2> QED
    BY <1>2, <2>3, <2>5 DEF Broker!Bounded, a
<1>3. CASE ~(Len(a) > IdsPerSession)
  <2>1. Len(a) \in 1..Len(a)
    BY <1>1
  <2>2. e \in Broker!ToSet(a)
    BY <1>1, <2>1 DEF Broker!ToSet
  <2> QED
    BY <1>1, <1>3, <2>2 DEF Broker!Bounded, a
<1> QED
  BY <1>2, <1>3

LEMMA RememberedType == ASSUME NEW m \in Memories PROVE Broker!Remembered(m) \subseteq Sessions \X Nat
<1>1. \A s \in Sessions : m.ids[s] \in Seq(Nat)
  BY DEF Memories
<1>2. \A q \in Seq(Nat) : Broker!ToSet(q) \subseteq Nat
  BY DEF Broker!ToSet
<1> QED
  BY <1>1, <1>2 DEF Broker!Remembered

LEMMA AskedIs ==
  ASSUME NEW m \in Memories, NEW s \in Sessions
  PROVE  Broker!Asked(m, s) \in Memories /\ Broker!Remembered(Broker!Asked(m, s)) = Broker!Remembered(m)
<1>1. m.order \in Seq(Sessions)
  BY DEF Memories
<1>2. Broker!Without(m.order, s) \in Seq(Sessions)
  BY <1>1, WithoutIs
<1>3. Broker!MovedToEnd(m.order, s) \in Seq(Sessions)
  BY <1>2 DEF Broker!MovedToEnd
<1>4. Broker!Asked(m, s) \in Memories /\ Broker!Asked(m, s).ids = m.ids
  BY <1>3 DEF Broker!Asked, Memories
<1> QED
  BY <1>4 DEF Broker!Remembered

LEMMA RoomForIs ==
  ASSUME Broker!ChannelAssumption, NEW m \in Memories, NEW s \in Sessions
  PROVE  Broker!RoomFor(m, s) \in Memories
<1>1. CASE m.ids[s] # <<>> \/ Len(m.order) < SeenSessions
  BY <1>1 DEF Broker!RoomFor
<1>2. CASE ~(m.ids[s] # <<>> \/ Len(m.order) < SeenSessions)
  <2>1. m.order \in Seq(Sessions) /\ m.ids \in [Sessions -> Seq(Nat)]
    BY DEF Memories
  <2>2. m.order # <<>>
    BY <1>2, <2>1 DEF Broker!ChannelAssumption
  <2>3. Tail(m.order) \in Seq(Sessions)
    BY <2>1, <2>2
  <2>4. [m.ids EXCEPT ![Head(m.order)] = <<>>] \in [Sessions -> Seq(Nat)]
    BY <2>1, EmptySeq
  <2> QED
    BY <1>2, <2>3, <2>4 DEF Broker!RoomFor, Memories
<1> QED
  BY <1>1, <1>2

\* ... what is asked for is remembered, whatever makes room for it, ...
LEMMA MarkedIs ==
  ASSUME Broker!ChannelAssumption, NEW m \in Memories, NEW s \in Sessions, NEW e \in Nat
  PROVE  Broker!Marked(m, s, e) \in Memories /\ <<s, e>> \in Broker!Remembered(Broker!Marked(m, s, e))
<1> DEFINE room == Broker!RoomFor(m, s)
           known == Broker!Asked(room, s)
           ids == [room.ids EXCEPT ![s] = Broker!Bounded(Append(@, e))]
<1>1. room \in Memories
  BY RoomForIs
<1>2. known \in Memories
  BY <1>1, AskedIs
<1>3. Broker!Marked(m, s, e) = [known EXCEPT !.ids = ids]
  BY DEF Broker!Marked
<1> HIDE DEF room, known
<1>4. room.ids \in [Sessions -> Seq(Nat)] /\ room.ids[s] \in Seq(Nat)
  BY <1>1 DEF Memories
<1>5. /\ Broker!Bounded(Append(room.ids[s], e)) \in Seq(Nat)
      /\ e \in Broker!ToSet(Broker!Bounded(Append(room.ids[s], e)))
  BY <1>4, BoundedIs
<1>6. ids \in [Sessions -> Seq(Nat)] /\ e \in Broker!ToSet(ids[s])
  BY <1>4, <1>5
<1> HIDE DEF ids
<1>7. [known EXCEPT !.ids = ids] \in Memories /\ [known EXCEPT !.ids = ids].ids = ids
  BY <1>2, <1>6 DEF Memories
<1> QED
  BY <1>3, <1>6, <1>7 DEF Broker!Remembered

\* ... and what is forgotten again is one event.
LEMMA ForgottenIs ==
  ASSUME NEW m \in Memories, NEW s \in Sessions, NEW e \in Nat
  PROVE  /\ Broker!Forgotten(m, s, e) \in Memories
         /\ Broker!Remembered(m) \ {<<s, e>>} \subseteq Broker!Remembered(Broker!Forgotten(m, s, e))
<1> DEFINE left == Broker!Without(m.ids[s], e)
           order == IF left = <<>> THEN Broker!Without(m.order, s) ELSE m.order
           ids == [m.ids EXCEPT ![s] = left]
<1>1. m.order \in Seq(Sessions) /\ m.ids \in [Sessions -> Seq(Nat)] /\ m.ids[s] \in Seq(Nat)
  BY DEF Memories
<1>2. left \in Seq(Nat) /\ Broker!ToSet(m.ids[s]) \ {e} \subseteq Broker!ToSet(left)
  BY <1>1, WithoutIs
<1>3. Broker!Without(m.order, s) \in Seq(Sessions)
  BY <1>1, WithoutIs
<1>4. Broker!Forgotten(m, s, e) = [order |-> order, ids |-> ids]
  BY DEF Broker!Forgotten
<1> HIDE DEF left
<1>5. order \in Seq(Sessions) /\ ids \in [Sessions -> Seq(Nat)]
      /\ ids[s] = left /\ \A z \in Sessions \ {s} : ids[z] = m.ids[z]
  BY <1>1, <1>2, <1>3
<1> HIDE DEF order, ids
<1>6. [order |-> order, ids |-> ids] \in Memories
  BY <1>5 DEF Memories
<1>7. ASSUME NEW z \in Sessions, NEW f \in Broker!ToSet(m.ids[z]), <<z, f>> # <<s, e>>
      PROVE  f \in Broker!ToSet(ids[z])
  BY <1>2, <1>5, <1>7
<1> QED
  BY <1>4, <1>6, <1>7 DEF Broker!Remembered

-----------------------------------------------------------------------------
FloorOf(s) == Floor(committed[s], pos[s])

\* What the broker does, a stop, an end: nobody sees or believes anything new, no message before
\* the floor comes back, and who is given a partition is handed it from the floor on.
Quiet ==
  /\ UNCHANGED <<seenBy, lapsed, belief, channelLetGo, processLife>>
  /\ \A r \in Runtimes : hand'[r] = hand[r] \/ hand'[r] = <<>>
  /\ \A r \in Runtimes : hand'[r] # <<>> => Working(r)'
  /\ \A s \in Sessions :
       /\ Len(topic[s]) <= Len(topic'[s]) /\ \A k \in 1..Len(topic[s]) : topic'[s][k] = topic[s][k]
       /\ FloorOf(s) <= FloorOf(s)'
       /\ (owner'[s] = owner[s] /\ pos'[s] = pos[s]) \/ pos'[s] <= FloorOf(s)'

LEMMA FloorIsNat == ASSUME ChannelTypes, NEW s \in Sessions PROVE FloorOf(s) \in Nat
  BY DEF FloorOf, Floor, ChannelTypes

LEMMA MessageIs ==
  ASSUME NEW m \in Messages
  PROVE  m[1] \in Sessions /\ m[2] \in Nat /\ m[2] # 0 /\ m = <<m[1], m[2]>>
  BY DEF Messages

LEMMA BeliefIs ==
  ASSUME ChannelTypes, NEW r \in Runtimes, NEW i \in 1..Len(belief[r])
  PROVE  /\ belief[r][i][1] \in Messages /\ belief[r][i][1][1] \in Sessions /\ belief[r][i][1][2] \in Nat
         /\ belief[r][i][1][2] # 0
<1>1. belief[r] \in Seq(Messages \X (Sessions \X Nat))
  BY DEF ChannelTypes
<1>2. belief[r][i] \in Messages \X (Sessions \X Nat)
  BY <1>1
<1>3. belief[r][i][1] \in Messages
  BY <1>2
<1> QED
  BY <1>3, MessageIs

LEMMA HandIs ==
  ASSUME ChannelTypes, NEW r \in Runtimes, hand[r] # <<>>
  PROVE  hand[r] \in Messages /\ hand[r][1] \in Sessions /\ hand[r][2] \in Nat /\ hand[r][2] # 0
<1>1. hand[r] \in Messages
  BY DEF ChannelTypes
<1> QED
  BY <1>1, MessageIs

\* A message keeps its event, ...
LEMMA MessagesStay ==
  ASSUME ChannelTypes, ChannelTypes', Quiet, NEW m, InTopic(topic, m)
  PROVE  InTopic(topic', m) /\ Says(topic', m) = Says(topic, m)
<1>1. m \in Messages /\ m[2] <= Len(topic[m[1]])
  BY DEF InTopic
<1>2. m[1] \in Sessions /\ m[2] \in Nat /\ m[2] # 0
  BY <1>1, MessageIs
<1>3. Len(topic[m[1]]) \in Nat /\ Len(topic'[m[1]]) \in Nat
  BY <1>2 DEF ChannelTypes
<1>4. m[2] \in 1..Len(topic[m[1]]) /\ Len(topic[m[1]]) <= Len(topic'[m[1]])
  BY <1>1, <1>2, <1>3 DEF Quiet
<1>5. topic'[m[1]][m[2]] = topic[m[1]][m[2]] /\ m[2] <= Len(topic'[m[1]])
  BY <1>2, <1>3, <1>4 DEF Quiet
<1> QED
  BY <1>1, <1>5 DEF InTopic, Says

\* ... and what was covered stays so.
LEMMA CoverStays ==
  ASSUME ChannelTypes, ChannelTypes', Quiet, NEW r \in Runtimes,
         NEW s \in Sessions, NEW n \in Nat, n <= Len(topic[s]), CoveredBy(r, s, n)
  PROVE  Covered(Floor(committed'[s], pos'[s]), topic'[s], SeenBy(r)' \cup channelLetGo', s, n)
<1> SUFFICES ASSUME NEW k \in 1..n
             PROVE  k <= Floor(committed'[s], pos'[s]) \/ topic'[s][k] = 0
                    \/ <<s, topic'[s][k]>> \in SeenBy(r)' \cup channelLetGo'
  BY DEF Covered
<1>1. Len(topic[s]) \in Nat
  BY DEF ChannelTypes
<1>2. k \in 1..Len(topic[s])
  BY <1>1
<1>3. topic'[s][k] = topic[s][k]
  BY <1>2 DEF Quiet
<1>4. Floor(committed[s], pos[s]) \in Nat /\ Floor(committed'[s], pos'[s]) \in Nat
  BY DEF Floor, ChannelTypes
<1>5. Floor(committed[s], pos[s]) <= Floor(committed'[s], pos'[s])
  BY DEF Quiet, FloorOf
<1>6. k <= Floor(committed[s], pos[s]) => k <= Floor(committed'[s], pos'[s])
  BY <1>4, <1>5
<1>7. SeenBy(r)' = SeenBy(r) /\ channelLetGo' = channelLetGo
  BY DEF Quiet, SeenBy
<1> QED
  BY <1>3, <1>6, <1>7 DEF CoveredBy, Covered

LEMMA QuietKeeps ==
  ASSUME ChannelInv, ChannelTypes', OffsetsFit', Quiet
  PROVE  HandsFit' /\ BeliefsFit' /\ CoverFits' /\ OrderFits'
<1>1. \A m : InTopic(topic, m) => InTopic(topic', m) /\ Says(topic', m) = Says(topic, m)
  BY MessagesStay DEF ChannelInv
<1>2. \A r \in Runtimes : hand'[r] # <<>> => hand'[r] = hand[r] /\ hand[r] # <<>>
  BY DEF Quiet
<1>3. /\ belief' = belief /\ lapsed' = lapsed /\ channelLetGo' = channelLetGo /\ processLife' = processLife
      /\ \A r \in Runtimes : SeenBy(r)' = SeenBy(r)
  BY DEF Quiet, SeenBy
<1>4. \A r \in Runtimes : hand[r] # <<>> =>
        /\ InTopic(topic, hand[r]) /\ Says(topic, hand[r])[2] # 0 /\ Says(topic, hand[r]) \in SeenBy(r)
        /\ Says(topic', hand[r]) = Says(topic, hand[r])
  BY <1>1 DEF ChannelInv, HandsFit
<1>5. HandsFit'
  BY <1>1, <1>2, <1>3, <1>4 DEF HandsFit, Quiet
<1>6. ASSUME NEW r \in Runtimes, NEW i \in 1..Len(belief[r])
      PROVE  InTopic(topic, belief[r][i][1]) /\ belief[r][i][2] = Says(topic, belief[r][i][1])
             /\ belief[r][i][2] \in SeenBy(r)
             /\ (hand[r] # <<>> /\ belief[r][i][2] \notin lapsed[r] => belief[r][i][2] # Says(topic, hand[r]))
  BY DEF ChannelInv, BeliefsFit
<1>7. BeliefsFit'
  BY <1>1, <1>2, <1>3, <1>4, <1>6 DEF BeliefsFit
<1>8. CoverFits'
  <2> SUFFICES ASSUME NEW r \in Runtimes
               PROVE  /\ \A s \in Sessions : owner'[s] = <<r, processLife[r]>> =>
                           Covered(Floor(committed'[s], pos'[s]), topic'[s], SeenBy(r)' \cup channelLetGo', s, pos'[s])
                      /\ \A i \in 1..Len(belief[r]) :
                           LET s == belief[r][i][1][1]
                               n == belief[r][i][1][2]
                           IN  Covered(Floor(committed'[s], pos'[s]), topic'[s], SeenBy(r)' \cup channelLetGo', s, n)
                      /\ hand'[r] # <<>> =>
                           LET s == hand[r][1]
                               n == hand[r][2]
                           IN  Covered(Floor(committed'[s], pos'[s]), topic'[s], SeenBy(r)' \cup channelLetGo', s, n)
    BY <1>2, <1>3 DEF CoverFits, CoveredBy, Broker!Me
  <2>1. ASSUME NEW s \in Sessions, owner'[s] = <<r, processLife[r]>>
        PROVE  Covered(Floor(committed'[s], pos'[s]), topic'[s], SeenBy(r)' \cup channelLetGo', s, pos'[s])
    <3>1. CASE owner'[s] = owner[s] /\ pos'[s] = pos[s]
      <4>1. CoveredBy(r, s, pos[s]) /\ pos[s] \in Nat /\ pos[s] <= Len(topic[s])
        BY <2>1, <3>1 DEF ChannelInv, CoverFits, Broker!Me, OffsetsFit, ChannelTypes
      <4> QED
        BY <3>1, <4>1, CoverStays DEF ChannelInv
    <3>2. CASE pos'[s] <= Floor(committed'[s], pos'[s])
      <4>1. pos'[s] \in Nat /\ Floor(committed'[s], pos'[s]) \in Nat
        BY DEF Floor, ChannelTypes
      <4> QED
        BY <3>2, <4>1 DEF Covered
    <3> QED
      BY <3>1, <3>2 DEF Quiet, FloorOf
  <2>2. ASSUME NEW i \in 1..Len(belief[r]), NEW s, NEW n, s = belief[r][i][1][1], n = belief[r][i][1][2]
        PROVE  Covered(Floor(committed'[s], pos'[s]), topic'[s], SeenBy(r)' \cup channelLetGo', s, n)
    <3>1. s \in Sessions /\ n \in Nat /\ n <= Len(topic[s])
      BY <1>6, <2>2, BeliefIs DEF ChannelInv, InTopic
    <3>2. CoveredBy(r, s, n)
      BY <2>2 DEF ChannelInv, CoverFits
    <3> QED
      BY <3>1, <3>2, CoverStays DEF ChannelInv
  <2>3. ASSUME hand'[r] # <<>>, NEW s, NEW n, s = hand[r][1], n = hand[r][2]
        PROVE  Covered(Floor(committed'[s], pos'[s]), topic'[s], SeenBy(r)' \cup channelLetGo', s, n)
    <3>1. s \in Sessions /\ n \in Nat /\ n <= Len(topic[s])
      BY <1>2, <1>4, <2>3, HandIs DEF ChannelInv, InTopic
    <3>2. CoveredBy(r, s, n)
      BY <1>2, <2>3 DEF ChannelInv, CoverFits
    <3> QED
      BY <3>1, <3>2, CoverStays DEF ChannelInv
  <2> QED
    BY <2>1, <2>2, <2>3
<1>9. OrderFits'
  BY <1>1, <1>2, <1>3, <1>4, <1>6 DEF ChannelInv, OrderFits, HandIsNewest, Broker!OnceInALife, Broker!InTopicOrder
<1> QED
  BY <1>5, <1>7, <1>8, <1>9

-----------------------------------------------------------------------------
(* Each step *)

\* A rebalance that keeps or commits what was taken takes nobody back.
LEMMA RebalanceFits ==
  ASSUME Broker!ChannelAssumption, ChannelTypes, OffsetsFit, NEW who, NEW offsets,
         offsets \in [Sessions -> Nat \cup {None}],
         \A s \in Sessions : offsets[s] \in {committed[s], pos[s]},
         Broker!Rebalanced(who, offsets)
  PROVE  /\ owner' \in [Sessions -> who \cup {None}] /\ committed' = offsets /\ pos' \in [Sessions -> Nat]
         /\ \A s \in Sessions :
              /\ owner'[s] = None <=> who = {}
              /\ pos'[s] = IF owner'[s] = owner[s] THEN pos[s]
                           ELSE IF offsets[s] = None THEN Len(topic[s]) ELSE offsets[s]
              /\ pos'[s] <= Len(topic[s]) /\ (committed'[s] # None => committed'[s] <= pos'[s])
              /\ FloorOf(s) <= Floor(committed'[s], pos'[s])
              /\ (owner'[s] = owner[s] /\ pos'[s] = pos[s]) \/ pos'[s] <= Floor(committed'[s], pos'[s])
<1>1. PICK to \in [Sessions -> who \cup {None}] :
        /\ \A s \in Sessions : (to[s] = None) = (who = {})
        /\ owner' = to /\ committed' = offsets
        /\ pos' = [s \in Sessions |-> IF to[s] = owner[s] THEN pos[s]
                                      ELSE IF offsets[s] = None THEN Len(topic[s]) ELSE offsets[s]]
  BY DEF Broker!Rebalanced
<1>2. ASSUME NEW s \in Sessions
      PROVE  /\ Len(topic[s]) \in Nat /\ pos[s] \in Nat /\ committed[s] \in Nat \cup {None}
             /\ offsets[s] \in Nat \cup {None} /\ None \notin Nat
             /\ pos[s] <= Len(topic[s]) /\ (committed[s] # None => committed[s] <= pos[s])
             /\ offsets[s] = committed[s] \/ offsets[s] = pos[s]
  BY DEF ChannelTypes, OffsetsFit, Broker!ChannelAssumption
<1>3. pos' \in [Sessions -> Nat]
  BY <1>1, <1>2
<1>4. ASSUME NEW s \in Sessions
      PROVE  /\ pos'[s] <= Len(topic[s]) /\ (offsets[s] # None => offsets[s] <= pos'[s])
             /\ FloorOf(s) <= Floor(offsets[s], pos'[s])
             /\ (owner'[s] = owner[s] /\ pos'[s] = pos[s]) \/ pos'[s] <= Floor(offsets[s], pos'[s])
  <2>1. pos'[s] = IF owner'[s] = owner[s] THEN pos[s]
                  ELSE IF offsets[s] = None THEN Len(topic[s]) ELSE offsets[s]
    BY <1>1
  <2> QED
    BY <1>2, <2>1 DEF FloorOf, Floor
<1> QED
  BY <1>1, <1>3, <1>4

Fits == ChannelTypes /\ MembersFit /\ OffsetsFit

LEMMA PublishQuiet ==
  ASSUME ChannelInv, NEW s \in Sessions, Broker!Publish(s) PROVE Fits' /\ Quiet
<1>1. PICK e : /\ e \in {0, Len(topic[s]) + 1} \cup (IF Retries THEN Broker!ToSet(topic[s]) ELSE {})
               /\ topic' = [topic EXCEPT ![s] = Append(@, e)]
  BY DEF Broker!Publish
<1>2. topic[s] \in Seq(Nat) /\ Len(topic[s]) \in Nat
  BY DEF ChannelInv, ChannelTypes
<1>3. e \in Nat
  BY <1>1, <1>2 DEF Broker!ToSet
<1>4. topic' \in [Sessions -> Seq(Nat)]
  BY <1>1, <1>2, <1>3 DEF ChannelInv, ChannelTypes
<1>5. ASSUME NEW z \in Sessions
      PROVE  Len(topic[z]) <= Len(topic'[z]) /\ \A k \in 1..Len(topic[z]) : topic'[z][k] = topic[z][k]
  BY <1>1, <1>2, <1>3 DEF ChannelInv, ChannelTypes
<1>6. ChannelTypes'
  BY <1>4 DEF ChannelInv, ChannelTypes, Broker!Publish
<1>7. MembersFit'
  BY DEF ChannelInv, MembersFit, Broker!Publish, Broker!Me, Working
<1>8. OffsetsFit'
  <2> SUFFICES ASSUME NEW z \in Sessions
               PROVE  pos[z] <= Len(topic'[z]) /\ (committed[z] # None => committed[z] <= pos[z])
    BY DEF OffsetsFit, Broker!Publish
  <2>1. pos[z] \in Nat /\ Len(topic[z]) \in Nat /\ Len(topic'[z]) \in Nat
    BY <1>4 DEF ChannelInv, ChannelTypes
  <2> QED
    BY <2>1, <1>5 DEF ChannelInv, OffsetsFit
<1>9. \A z \in Sessions : FloorOf(z) \in Nat /\ FloorOf(z)' = FloorOf(z)
  BY FloorIsNat DEF ChannelInv, Broker!Publish, FloorOf
<1>10. Quiet
  BY <1>5, <1>9 DEF Quiet, Broker!Publish, Working, ChannelInv, HandsFit
<1> QED
  BY <1>6, <1>7, <1>8, <1>10 DEF Fits

LEMMA CommitQuiet ==
  ASSUME ChannelInv, NEW r \in Runtimes, NEW s \in Sessions, Broker!Commit(r, s) PROVE Fits' /\ Quiet
<1>1. ChannelTypes'
  BY DEF ChannelInv, ChannelTypes, Broker!Commit
<1>2. MembersFit'
  BY DEF ChannelInv, MembersFit, Broker!Commit, Broker!Me, Working
<1>3. \A z \in Sessions : committed'[z] = committed[z] \/ committed'[z] = pos[z]
  BY DEF Broker!Commit, ChannelInv, ChannelTypes
<1>4. \A z \in Sessions : pos[z] \in Nat /\ committed[z] \in Nat \cup {None} /\ pos[z] <= Len(topic[z])
                          /\ (committed[z] # None => committed[z] <= pos[z]) /\ Len(topic[z]) \in Nat
  BY DEF ChannelInv, ChannelTypes, OffsetsFit
<1>5. OffsetsFit'
  BY <1>3, <1>4 DEF OffsetsFit, Broker!Commit
<1>6. \A z \in Sessions : FloorOf(z) <= Floor(committed'[z], pos[z])
  BY <1>3, <1>4 DEF FloorOf, Floor
<1>7. Quiet
  BY <1>4, <1>6 DEF Quiet, FloorOf, Broker!Commit, Working, ChannelInv, HandsFit
<1> QED
  BY <1>1, <1>2, <1>5, <1>7 DEF Fits

LEMMA MoveQuiet ==
  ASSUME Broker!ChannelAssumption, ChannelInv, Broker!Move PROVE Fits' /\ Quiet
<1>1. Broker!Rebalanced(members, committed)
  BY DEF Broker!Move
<1>2. committed \in [Sessions -> Nat \cup {None}]
  BY DEF ChannelInv, ChannelTypes
<1>3. /\ owner' \in [Sessions -> members \cup {None}] /\ committed' = committed /\ pos' \in [Sessions -> Nat]
      /\ \A s \in Sessions :
           /\ pos'[s] <= Len(topic[s]) /\ (committed'[s] # None => committed'[s] <= pos'[s])
           /\ FloorOf(s) <= Floor(committed'[s], pos'[s])
           /\ (owner'[s] = owner[s] /\ pos'[s] = pos[s]) \/ pos'[s] <= Floor(committed'[s], pos'[s])
  BY <1>1, <1>2, RebalanceFits DEF ChannelInv
<1>4. ChannelTypes'
  BY <1>3 DEF ChannelInv, ChannelTypes, Broker!Move
<1>5. MembersFit'
  BY <1>3 DEF ChannelInv, MembersFit, Broker!Move, Broker!Me, Working
<1>6. OffsetsFit'
  BY <1>3 DEF OffsetsFit, Broker!Move
<1>7. \A s \in Sessions : Len(topic[s]) \in Nat
  BY DEF ChannelInv, ChannelTypes
<1>8. Quiet
  BY <1>3, <1>7 DEF Quiet, FloorOf, Broker!Move, Working, ChannelInv, HandsFit
<1> QED
  BY <1>4, <1>5, <1>6, <1>8 DEF Fits

LEMMA ExpireQuiet ==
  ASSUME Broker!ChannelAssumption, ChannelInv, NEW m, Broker!Expire(m) PROVE Fits' /\ Quiet
<1>1. Broker!Rebalanced(members', committed) /\ members' = members \ {m}
  BY DEF Broker!Expire
<1>2. committed \in [Sessions -> Nat \cup {None}]
  BY DEF ChannelInv, ChannelTypes
<1>3. /\ owner' \in [Sessions -> members' \cup {None}] /\ committed' = committed /\ pos' \in [Sessions -> Nat]
      /\ \A s \in Sessions :
           /\ pos'[s] <= Len(topic[s]) /\ (committed'[s] # None => committed'[s] <= pos'[s])
           /\ FloorOf(s) <= Floor(committed'[s], pos'[s])
           /\ (owner'[s] = owner[s] /\ pos'[s] = pos[s]) \/ pos'[s] <= Floor(committed'[s], pos'[s])
  BY <1>1, <1>2, RebalanceFits DEF ChannelInv
<1>4. ChannelTypes'
  BY <1>1, <1>3 DEF ChannelInv, ChannelTypes, Broker!Expire
<1>5. \A r \in Runtimes : Working(r) => Broker!Me(r) # m
  BY DEF Broker!Expire, Broker!Me, Working
<1>6. MembersFit'
  BY <1>1, <1>3, <1>5 DEF ChannelInv, MembersFit, Broker!Expire, Broker!Me, Working
<1>7. OffsetsFit'
  BY <1>3 DEF OffsetsFit, Broker!Expire
<1>8. \A s \in Sessions : Len(topic[s]) \in Nat
  BY DEF ChannelInv, ChannelTypes
<1>9. Quiet
  BY <1>3, <1>8 DEF Quiet, FloorOf, Broker!Expire, Working, ChannelInv, HandsFit
<1> QED
  BY <1>4, <1>6, <1>7, <1>9 DEF Fits

LEMMA AskQuiet ==
  ASSUME ChannelInv, NEW r \in Runtimes, Broker!Ask(r) PROVE Fits' /\ Quiet
<1>1. /\ phase[r] = "started" /\ phase'[r] \in {"down", "asked"}
      /\ \A q \in Runtimes \ {r} : phase'[q] = phase[q]
      /\ phase' \in [Runtimes -> {"down", "started", "asked", "up", "closing"}]
  BY DEF Broker!Ask, ChannelInv, ChannelTypes
<1>2. code' \in [Runtimes -> {0, 1, None}] /\ processAsked' \in [Runtimes -> {{}}]
  BY DEF Broker!Ask, Broker!Refuses, ChannelInv, ChannelTypes
<1>3. ChannelTypes'
  BY <1>1, <1>2 DEF Broker!Ask, ChannelInv, ChannelTypes
<1>4. Broker!Me(r) \notin members
  BY <1>1 DEF ChannelInv, MembersFit
<1>5. MembersFit'
  BY <1>1, <1>4 DEF Broker!Ask, ChannelInv, MembersFit, Broker!Me, Working
<1>6. OffsetsFit'
  BY DEF Broker!Ask, ChannelInv, OffsetsFit
<1>7. \A s \in Sessions : Len(topic[s]) \in Nat /\ FloorOf(s) \in Nat /\ FloorOf(s)' = FloorOf(s)
  BY FloorIsNat DEF ChannelInv, ChannelTypes, Broker!Ask, FloorOf
<1>8. Quiet
  BY <1>1, <1>7 DEF Quiet, Broker!Ask, Working, ChannelInv, HandsFit
<1> QED
  BY <1>3, <1>5, <1>6, <1>8 DEF Fits

LEMMA JoinQuiet ==
  ASSUME Broker!ChannelAssumption, ChannelInv, NEW r \in Runtimes, processLife[r] > 0, Broker!Join(r)
  PROVE  Fits' /\ Quiet
<1>1. /\ Broker!Rebalanced(members', committed) /\ members' = members \cup {Broker!Me(r)}
      /\ phase[r] = "asked" /\ phase' = [phase EXCEPT ![r] = "up"]
  BY DEF Broker!Join
<1>2. committed \in [Sessions -> Nat \cup {None}]
  BY DEF ChannelInv, ChannelTypes
<1>3. /\ owner' \in [Sessions -> members' \cup {None}] /\ committed' = committed /\ pos' \in [Sessions -> Nat]
      /\ \A s \in Sessions :
           /\ pos'[s] <= Len(topic[s]) /\ (committed'[s] # None => committed'[s] <= pos'[s])
           /\ FloorOf(s) <= Floor(committed'[s], pos'[s])
           /\ (owner'[s] = owner[s] /\ pos'[s] = pos[s]) \/ pos'[s] <= Floor(committed'[s], pos'[s])
  BY <1>1, <1>2, RebalanceFits DEF ChannelInv
<1>4. Broker!Me(r) \in Processes /\ processLife[r] \in Nat
  BY DEF Broker!Me, Processes, ChannelInv, ChannelTypes
<1>5. phase' \in [Runtimes -> {"down", "started", "asked", "up", "closing"}]
  BY <1>1 DEF ChannelInv, ChannelTypes
<1>6. ChannelTypes'
  BY <1>1, <1>3, <1>4, <1>5 DEF ChannelInv, ChannelTypes, Broker!Join
<1>7. phase'[r] = "up" /\ \A q \in Runtimes \ {r} : phase'[q] = phase[q]
  BY <1>1 DEF ChannelInv, ChannelTypes
<1>8. MembersFit'
  BY <1>1, <1>3, <1>4, <1>7 DEF ChannelInv, MembersFit, Broker!Join, Broker!Me, Working
<1>9. OffsetsFit'
  BY <1>3 DEF OffsetsFit, Broker!Join
<1>10. \A s \in Sessions : Len(topic[s]) \in Nat
  BY DEF ChannelInv, ChannelTypes
<1>11. Quiet
  BY <1>3, <1>7, <1>10 DEF Quiet, FloorOf, Broker!Join, Working, ChannelInv, HandsFit
<1> QED
  BY <1>6, <1>8, <1>9, <1>11 DEF Fits

LEMMA StopQuiet ==
  ASSUME ChannelInv, NEW r \in Runtimes, Broker!Stop(r) PROVE Fits' /\ Quiet
<1>1. /\ phase[r] = "up" /\ phase'[r] = "closing" /\ \A q \in Runtimes \ {r} : phase'[q] = phase[q]
      /\ phase' \in [Runtimes -> {"down", "started", "asked", "up", "closing"}]
  BY DEF Broker!Stop, ChannelInv, ChannelTypes
<1>2. ChannelTypes'
  BY <1>1 DEF Broker!Stop, ChannelInv, ChannelTypes
<1>3. MembersFit'
  BY <1>1 DEF Broker!Stop, ChannelInv, MembersFit, Broker!Me, Working
<1>4. OffsetsFit'
  BY DEF Broker!Stop, ChannelInv, OffsetsFit
<1>5. \A s \in Sessions : Len(topic[s]) \in Nat /\ FloorOf(s) \in Nat /\ FloorOf(s)' = FloorOf(s)
  <2>1. ChannelTypes /\ UNCHANGED <<committed, pos>>
    BY DEF ChannelInv, Broker!Stop
  <2> QED
    BY <2>1, FloorIsNat DEF ChannelTypes, FloorOf
<1>6. Quiet
  BY <1>1, <1>5 DEF Quiet, Broker!Stop, Working, ChannelInv, HandsFit
<1> QED
  BY <1>2, <1>3, <1>4, <1>6 DEF Fits

\* A process that ends holds nothing.
LEMMA EndedIs ==
  ASSUME ChannelInv, NEW r \in Runtimes, NEW with \in {0, 1}, Broker!Ended(r, with)
  PROVE  /\ phase'[r] = "down" /\ code'[r] = with /\ hand'[r] = <<>>
         /\ \A q \in Runtimes \ {r} : phase'[q] = phase[q] /\ hand'[q] = hand[q] /\ code'[q] = code[q]
         /\ phase' \in [Runtimes -> {"down", "started", "asked", "up", "closing"}]
         /\ code' \in [Runtimes -> {0, 1, None}] /\ hand' \in [Runtimes -> Messages \cup {<<>>}]
BY DEF Broker!Ended, Broker!Idle, ChannelInv, ChannelTypes

LEMMA CloseQuiet ==
  ASSUME Broker!ChannelAssumption, ChannelInv, NEW r \in Runtimes, Broker!CloseDone(r)
  PROVE  Fits' /\ Quiet
<1>1. /\ Broker!Rebalanced(members', Broker!Offsets(r)) /\ members' = members \ {Broker!Me(r)}
      /\ Broker!Ended(r, 0) /\ deaths' = deaths
  BY DEF Broker!CloseDone
<1>2. /\ Broker!Offsets(r) \in [Sessions -> Nat \cup {None}]
      /\ \A s \in Sessions : Broker!Offsets(r)[s] \in {committed[s], pos[s]}
  BY DEF ChannelInv, ChannelTypes, Broker!Offsets
<1>3. /\ owner' \in [Sessions -> members' \cup {None}] /\ committed' = Broker!Offsets(r) /\ pos' \in [Sessions -> Nat]
      /\ \A s \in Sessions :
           /\ pos'[s] <= Len(topic[s]) /\ (committed'[s] # None => committed'[s] <= pos'[s])
           /\ FloorOf(s) <= Floor(committed'[s], pos'[s])
           /\ (owner'[s] = owner[s] /\ pos'[s] = pos[s]) \/ pos'[s] <= Floor(committed'[s], pos'[s])
  BY <1>1, <1>2, RebalanceFits DEF ChannelInv
<1>4. /\ phase'[r] = "down" /\ code'[r] = 0 /\ hand'[r] = <<>>
      /\ \A q \in Runtimes \ {r} : phase'[q] = phase[q] /\ hand'[q] = hand[q] /\ code'[q] = code[q]
      /\ phase' \in [Runtimes -> {"down", "started", "asked", "up", "closing"}]
      /\ code' \in [Runtimes -> {0, 1, None}] /\ hand' \in [Runtimes -> Messages \cup {<<>>}]
  BY <1>1, EndedIs
<1>5. /\ UNCHANGED <<topic, processLife, processAsked, seenBy, lapsed, belief, folded, channelLetGo, moves>>
  BY <1>1 DEF Broker!Ended
<1>6. ChannelTypes'
  BY <1>1, <1>2, <1>3, <1>4, <1>5 DEF ChannelInv, ChannelTypes
<1>7. MembersFit'
  <2>1. \A q \in Runtimes : q # r => Broker!Me(q) # Broker!Me(r)
    BY DEF Broker!Me
  <2> QED
    BY <1>1, <1>3, <1>4, <1>5, <2>1 DEF ChannelInv, MembersFit, Broker!Me, Working
<1>8. OffsetsFit'
  BY <1>3, <1>5 DEF OffsetsFit
<1>9. \A s \in Sessions : Len(topic[s]) \in Nat
  BY DEF ChannelInv, ChannelTypes
<1>10. Quiet
  BY <1>3, <1>4, <1>5, <1>9 DEF Quiet, FloorOf, Working, ChannelInv, HandsFit
<1> QED
  BY <1>6, <1>7, <1>8, <1>10 DEF Fits

LEMMA GoneQuiet ==
  ASSUME ChannelInv, NEW r \in Runtimes, Broker!Gone(r), deaths' = deaths + 1
  PROVE  Fits' /\ Quiet
<1>1. /\ phase'[r] = "down" /\ code'[r] = 1 /\ hand'[r] = <<>>
      /\ \A q \in Runtimes \ {r} : phase'[q] = phase[q] /\ hand'[q] = hand[q] /\ code'[q] = code[q]
      /\ phase' \in [Runtimes -> {"down", "started", "asked", "up", "closing"}]
      /\ code' \in [Runtimes -> {0, 1, None}] /\ hand' \in [Runtimes -> Messages \cup {<<>>}]
  BY EndedIs DEF Broker!Gone
<1>2. /\ UNCHANGED <<topic, processLife, processAsked, seenBy, lapsed, belief, folded, channelLetGo, moves>>
      /\ UNCHANGED <<committed, pos, owner, members>>
  BY DEF Broker!Gone, Broker!Ended
<1>3. ChannelTypes'
  BY <1>1, <1>2 DEF ChannelInv, ChannelTypes
<1>4. MembersFit'
  BY <1>1, <1>2 DEF ChannelInv, MembersFit, Broker!Me, Working
<1>5. OffsetsFit'
  BY <1>2 DEF ChannelInv, OffsetsFit
<1>6. \A s \in Sessions : Len(topic[s]) \in Nat /\ FloorOf(s) \in Nat /\ FloorOf(s)' = FloorOf(s)
  BY <1>2, FloorIsNat DEF ChannelInv, ChannelTypes, FloorOf
<1>7. Quiet
  BY <1>1, <1>2, <1>6 DEF Quiet, Working, ChannelInv, HandsFit
<1> QED
  BY <1>3, <1>4, <1>5, <1>7 DEF Fits

\* A new life has seen nothing, believes nothing and has nothing yet.
LEMMA StartKeeps ==
  ASSUME Broker!ChannelAssumption, ChannelInv, NEW r \in Runtimes, Broker!Start(r) PROVE ChannelInv'
<1>1. /\ phase[r] = "down" /\ phase'[r] = "started" /\ \A q \in Runtimes \ {r} : phase'[q] = phase[q]
      /\ phase' \in [Runtimes -> {"down", "started", "asked", "up", "closing"}]
      /\ code' \in [Runtimes -> {0, 1, None}]
  BY DEF Broker!Start, ChannelInv, ChannelTypes
<1>2. /\ processLife' \in [Runtimes -> Nat] /\ processLife'[r] = processLife[r] + 1
      /\ \A q \in Runtimes \ {r} : processLife'[q] = processLife[q]
      /\ processLife[r] \in Nat
  BY DEF Broker!Start, ChannelInv, ChannelTypes
<1>3. /\ belief'[r] = <<>> /\ hand[r] = <<>>
      /\ \A q \in Runtimes \ {r} :
           SeenBy(q)' = SeenBy(q) /\ belief'[q] = belief[q] /\ lapsed'[q] = lapsed[q]
      /\ seenBy' \in [Runtimes -> Memories] /\ lapsed' \in [Runtimes -> SUBSET (Sessions \X Nat)]
      /\ belief' \in [Runtimes -> Seq(Messages \X (Sessions \X Nat))]
  <2>1. /\ seenBy' = [seenBy EXCEPT ![r] = Broker!NothingSeen] /\ lapsed' = [lapsed EXCEPT ![r] = {}]
        /\ belief' = [belief EXCEPT ![r] = <<>>]
        /\ seenBy \in [Runtimes -> Memories] /\ lapsed \in [Runtimes -> SUBSET (Sessions \X Nat)]
        /\ belief \in [Runtimes -> Seq(Messages \X (Sessions \X Nat))]
    BY DEF Broker!Start, ChannelInv, ChannelTypes
  <2>2. <<>> \in Seq(Messages \X (Sessions \X Nat))
    BY EmptySeq
  <2>3. hand[r] = <<>>
    BY <1>1 DEF ChannelInv, HandsFit, Working
  <2>4. Broker!NothingSeen \in Memories
    BY EmptySeq DEF Memories, Broker!NothingSeen
  <2>5. \A q \in Runtimes \ {r} : seenBy'[q] = seenBy[q] /\ lapsed'[q] = lapsed[q] /\ belief'[q] = belief[q]
    BY <2>1
  <2>6. /\ seenBy' \in [Runtimes -> Memories] /\ lapsed' \in [Runtimes -> SUBSET (Sessions \X Nat)]
        /\ belief' \in [Runtimes -> Seq(Messages \X (Sessions \X Nat))] /\ belief'[r] = <<>>
    BY <2>1, <2>2, <2>4
  <2> QED
    BY <2>3, <2>5, <2>6 DEF SeenBy
<1>4. UNCHANGED <<topic, committed, pos, owner, members, processAsked, hand, folded, channelLetGo, deaths, moves>>
  BY DEF Broker!Start
<1>5. ChannelTypes'
  BY <1>1, <1>2, <1>3, <1>4 DEF ChannelInv, ChannelTypes
<1>6. <<r, processLife[r] + 1>> \notin members
  BY <1>2 DEF ChannelInv, MembersFit
<1>7. \A m \in members : m \in Processes /\ m[1] \in Runtimes /\ m[2] \in Nat
  BY DEF ChannelInv, ChannelTypes, Processes
<1>8. \A m \in members : m[2] <= processLife'[m[1]]
  BY <1>2, <1>7 DEF ChannelInv, MembersFit
<1>9. MembersFit'
  BY <1>1, <1>2, <1>4, <1>6, <1>8 DEF ChannelInv, MembersFit, Broker!Me, Working
<1>10. OffsetsFit'
  BY <1>4 DEF ChannelInv, OffsetsFit
<1>11. HandsFit'
  BY <1>1, <1>3, <1>4 DEF ChannelInv, HandsFit, InTopic, Says, Working
<1>12. \A i : i \notin 1..Len(<<>>)
  OBVIOUS
<1>13. BeliefsFit'
  <2>1. \A i : i \notin 1..Len(belief'[r])
    BY <1>3, <1>12
  <2>2. \A q \in Runtimes \ {r} : belief'[q] = belief[q] /\ SeenBy(q)' = SeenBy(q) /\ lapsed'[q] = lapsed[q]
    BY <1>3
  <2>3. ASSUME NEW q \in Runtimes, q # r, NEW i \in 1..Len(belief[q])
        PROVE  /\ InTopic(topic, belief[q][i][1]) /\ belief[q][i][2] = Says(topic, belief[q][i][1])
               /\ belief[q][i][2] \in SeenBy(q)
               /\ hand[q] # <<>> /\ belief[q][i][2] \notin lapsed[q] => belief[q][i][2] # Says(topic, hand[q])
    BY DEF ChannelInv, BeliefsFit
  <2> QED
    BY <1>4, <2>1, <2>2, <2>3 DEF BeliefsFit
<1>14. \A s \in Sessions : owner[s] # <<r, processLife[r] + 1>>
  <2>1. <<r, processLife[r] + 1>> # None
    BY <1>2 DEF Broker!ChannelAssumption
  <2> QED
    BY <2>1, <1>6 DEF ChannelInv, MembersFit
<1>15. CoverFits'
  <2>1. ASSUME NEW q \in Runtimes, q # r
        PROVE  /\ \A s \in Sessions : owner'[s] = Broker!Me(q)' => CoveredBy(q, s, pos[s])'
               /\ \A i \in 1..Len(belief'[q]) : CoveredBy(q, belief[q][i][1][1], belief[q][i][1][2])'
               /\ hand'[q] # <<>> => CoveredBy(q, hand[q][1], hand[q][2])'
    BY <1>2, <1>3, <1>4, <2>1 DEF ChannelInv, CoverFits, CoveredBy, Broker!Me
  <2>2. /\ \A s \in Sessions : owner'[s] # Broker!Me(r)'
        /\ \A i : i \notin 1..Len(belief'[r])
        /\ hand'[r] = <<>>
    BY <1>2, <1>3, <1>4, <1>12, <1>14 DEF Broker!Me
  <2> QED
    BY <2>1, <2>2 DEF CoverFits
<1>16. OrderFits'
  <2>1. \A q \in Runtimes \ {r} : belief'[q] = belief[q] /\ lapsed'[q] = lapsed[q]
    BY <1>3
  <2>2. belief'[r] = <<>> /\ DOMAIN <<>> = {}
    BY <1>3
  <2>3. HandIsNewest'
    BY <1>3, <1>4, <1>12 DEF ChannelInv, OrderFits, HandIsNewest, Says
  <2>4. Broker!OnceInALife'
    BY <2>1, <2>2 DEF ChannelInv, OrderFits, Broker!OnceInALife
  <2>5. Broker!InTopicOrder'
    BY <2>1, <2>2, <1>4 DEF ChannelInv, OrderFits, Broker!InTopicOrder
  <2> QED
    BY <2>3, <2>4, <2>5 DEF OrderFits
<1> QED
  BY <1>5, <1>9, <1>10, <1>11, <1>13, <1>15, <1>16 DEF ChannelInv

\* What was covered is covered as the floor rises and more is known, ...
LEMMA CoverGoesOn ==
  ASSUME ChannelTypes, ChannelTypes', UNCHANGED committed,
         NEW q \in Runtimes, SeenBy(q) \cup channelLetGo \subseteq SeenBy(q)' \cup channelLetGo',
         NEW z \in Sessions, pos[z] <= pos'[z], NEW k \in Nat, CoveredBy(q, z, k)
  PROVE  Covered(Floor(committed'[z], pos'[z]), topic[z], SeenBy(q)' \cup channelLetGo', z, k)
<1>1. Floor(committed[z], pos[z]) \in Nat /\ Floor(committed'[z], pos'[z]) \in Nat
      /\ Floor(committed[z], pos[z]) <= Floor(committed'[z], pos'[z])
  BY DEF Floor, ChannelTypes
<1> DEFINE f == Floor(committed[z], pos[z])
           g == Floor(committed'[z], pos'[z])
<1>2. \A j \in 1..k : j <= f => j <= g
  BY <1>1
<1> HIDE DEF f, g
<1>3. \A j \in 1..k : j <= f \/ topic[z][j] = 0 \/ <<z, topic[z][j]>> \in SeenBy(q) \cup channelLetGo
  BY DEF CoveredBy, Covered, f
<1> QED
  BY <1>2, <1>3 DEF Covered, g

\* ... and with a message that is none, or known, one further.
LEMMA CoverOneMore ==
  ASSUME NEW floor \in Nat, NEW messages, NEW known, NEW z, NEW k \in Nat,
         Covered(floor, messages, known, z, k), messages[k + 1] = 0 \/ <<z, messages[k + 1]>> \in known
  PROVE  Covered(floor, messages, known, z, k + 1)
<1>1. \A j \in 1..(k + 1) : j \in 1..k \/ j = k + 1
  OBVIOUS
<1> QED
  BY <1>1 DEF Covered

\* A message is handed over when it comes after all this life believes, but for what a lane let go or
\* was forgotten.
LEMMA DeliverKeeps ==
  ASSUME Broker!ChannelAssumption, ChannelInv, NEW r \in Runtimes, NEW s \in Sessions, Broker!Deliver(r, s)
  PROVE  ChannelInv'
<1> DEFINE n == pos[s] + 1
           e == topic[s][n]
<1>1. /\ phase[r] = "up" /\ owner[s] = Broker!Me(r) /\ hand[r] = <<>> /\ pos[s] < Len(topic[s])
      /\ UNCHANGED <<topic, committed, owner, members, phase, processLife, processAsked, belief, code,
                     folded, channelLetGo, deaths, moves>>
  BY DEF Broker!Deliver, Broker!Idle
<1>2. /\ pos[s] \in Nat /\ topic[s] \in Seq(Nat) /\ Len(topic[s]) \in Nat /\ n \in 1..Len(topic[s]) /\ n # 0
      /\ e \in Nat
  <2>1. pos[s] \in Nat /\ topic[s] \in Seq(Nat) /\ Len(topic[s]) \in Nat
    BY DEF ChannelInv, ChannelTypes
  <2>2. n \in 1..Len(topic[s]) /\ n # 0
    BY <1>1, <2>1
  <2> QED
    BY <2>1, <2>2
<1>3. <<s, n>> \in Messages /\ InTopic(topic, <<s, n>>) /\ Says(topic, <<s, n>>) = <<s, e>>
  BY <1>2 DEF Messages, InTopic, Says
<1> HIDE DEF n, e
<1>4. /\ Fits' <=> (seenBy' \in [Runtimes -> Memories] /\ lapsed' \in [Runtimes -> SUBSET (Sessions \X Nat)]
                    /\ hand' \in [Runtimes -> Messages \cup {<<>>}] /\ pos' \in [Sessions -> Nat] /\ OffsetsFit')
  BY <1>1 DEF ChannelInv, Fits, ChannelTypes, MembersFit, Working, Broker!Me
<1>5. CASE e # 0 /\ Broker!FirstTime(r, s, e)
  <2>1. /\ hand' = [hand EXCEPT ![r] = <<s, n>>] /\ seenBy' = [seenBy EXCEPT ![r] = Broker!Marked(@, s, e)]
        /\ lapsed' = [lapsed EXCEPT ![r] = @ \cup (Broker!Remembered(seenBy[r]) \ Broker!Remembered(seenBy'[r]))]
        /\ UNCHANGED pos /\ e \notin Broker!ToSet(seenBy[r].ids[s])
    BY <1>5 DEF Broker!Deliver, Broker!FirstTime, n, e
  <2>0. /\ seenBy \in [Runtimes -> Memories] /\ lapsed \in [Runtimes -> SUBSET (Sessions \X Nat)]
        /\ seenBy[r] \in Memories
    BY DEF ChannelInv, ChannelTypes
  <2>2. /\ seenBy' \in [Runtimes -> Memories] /\ lapsed' \in [Runtimes -> SUBSET (Sessions \X Nat)]
        /\ SeenBy(r) \cup {<<s, e>>} \subseteq SeenBy(r)' /\ lapsed[r] \subseteq lapsed'[r]
        /\ \A q \in Runtimes \ {r} : SeenBy(q)' = SeenBy(q) /\ lapsed'[q] = lapsed[q]
    <3>1. Broker!Marked(seenBy[r], s, e) \in Memories
          /\ <<s, e>> \in Broker!Remembered(Broker!Marked(seenBy[r], s, e))
      BY <1>2, <2>0, MarkedIs
    <3>2. seenBy'[r] = Broker!Marked(seenBy[r], s, e) /\ \A q \in Runtimes \ {r} : seenBy'[q] = seenBy[q]
      BY <2>0, <2>1
    <3>3. lapsed'[r] = lapsed[r] \cup (Broker!Remembered(seenBy[r]) \ Broker!Remembered(seenBy'[r]))
          /\ \A q \in Runtimes \ {r} : lapsed'[q] = lapsed[q]
      BY <2>0, <2>1
    <3>4. seenBy' \in [Runtimes -> Memories]
      BY <2>0, <2>1, <3>1
    <3>5. Broker!Remembered(seenBy[r]) \subseteq Sessions \X Nat
      BY <2>0, RememberedType
    <3>6. lapsed' \in [Runtimes -> SUBSET (Sessions \X Nat)]
      BY <2>0, <2>1, <3>5
    <3> QED
      BY <3>1, <3>2, <3>3, <3>4, <3>6 DEF SeenBy
  <2>forgotten. <<s, e>> \in SeenBy(r) => <<s, e>> \in lapsed[r]
    BY <2>1 DEF SeenBy, Broker!Remembered
  <2>3. /\ hand' \in [Runtimes -> Messages \cup {<<>>}] /\ hand'[r] = <<s, n>>
        /\ \A q \in Runtimes \ {r} : hand'[q] = hand[q]
    BY <2>1, <1>3 DEF ChannelInv, ChannelTypes
  <2>4. OffsetsFit'
    BY <1>1, <2>1 DEF ChannelInv, OffsetsFit
  <2>5. Fits'
    BY <1>4, <2>1, <2>2, <2>3, <2>4 DEF ChannelInv, ChannelTypes
  <2>6. <<s, n>> # <<>>
    OBVIOUS
  <2>7. HandsFit'
    <3>1. ASSUME NEW q \in Runtimes, q # r, hand'[q] # <<>>
          PROVE  /\ InTopic(topic, hand'[q]) /\ Working(q)
                 /\ Says(topic, hand'[q])[2] # 0 /\ Says(topic, hand'[q]) \in SeenBy(q)'
      BY <2>2, <2>3, <3>1 DEF ChannelInv, HandsFit
    <3>2. /\ InTopic(topic, hand'[r]) /\ Working(r)
          /\ Says(topic, hand'[r])[2] # 0 /\ Says(topic, hand'[r]) \in SeenBy(r)'
      BY <1>1, <1>3, <1>5, <2>2, <2>3 DEF Working
    <3> QED
      BY <1>1, <3>1, <3>2 DEF HandsFit, Working
  <2>8. BeliefsFit'
    <3>1. ASSUME NEW q \in Runtimes, NEW i \in 1..Len(belief[q])
          PROVE  /\ InTopic(topic, belief[q][i][1]) /\ belief[q][i][2] = Says(topic, belief[q][i][1])
                 /\ belief[q][i][2] \in SeenBy(q)'
                 /\ hand'[q] # <<>> /\ belief[q][i][2] \notin lapsed'[q] => belief[q][i][2] # Says(topic, hand'[q])
      <4>1. /\ InTopic(topic, belief[q][i][1]) /\ belief[q][i][2] = Says(topic, belief[q][i][1])
            /\ belief[q][i][2] \in SeenBy(q)
            /\ hand[q] # <<>> /\ belief[q][i][2] \notin lapsed[q] => belief[q][i][2] # Says(topic, hand[q])
        BY DEF ChannelInv, BeliefsFit
      <4>2. CASE q = r
        BY <4>1, <4>2, <2>2, <2>3, <2>forgotten, <1>3
      <4>3. CASE q # r
        BY <4>1, <4>3, <2>2, <2>3
      <4> QED
        BY <4>2, <4>3
    <3> QED
      BY <1>1, <3>1 DEF BeliefsFit
  <2>9. ASSUME NEW q \in Runtimes, NEW z \in Sessions, NEW k \in Nat, CoveredBy(q, z, k)
        PROVE  Covered(Floor(committed[z], pos[z]), topic[z], SeenBy(q)' \cup channelLetGo, z, k)
    <3>1. SeenBy(q) \subseteq SeenBy(q)'
      BY <2>2
    <3> QED
      BY <2>9, <3>1 DEF CoveredBy, Covered
  <2>10. CoverFits'
    <3>1. \A q \in Runtimes, z \in Sessions : owner[z] = <<q, processLife[q]>> =>
            Covered(Floor(committed[z], pos[z]), topic[z], SeenBy(q)' \cup channelLetGo, z, pos[z])
      BY <2>9 DEF ChannelInv, ChannelTypes, CoverFits, Broker!Me
    <3>2. ASSUME NEW q \in Runtimes, NEW i \in 1..Len(belief[q])
          PROVE  Covered(Floor(committed[belief[q][i][1][1]], pos[belief[q][i][1][1]]), topic[belief[q][i][1][1]],
                         SeenBy(q)' \cup channelLetGo, belief[q][i][1][1], belief[q][i][1][2])
      <4>1. CoveredBy(q, belief[q][i][1][1], belief[q][i][1][2])
        BY DEF ChannelInv, CoverFits
      <4> QED
        BY <4>1, <2>9, BeliefIs DEF ChannelInv
    <3>3. ASSUME NEW q \in Runtimes, hand'[q] # <<>>
          PROVE  Covered(Floor(committed[hand'[q][1]], pos[hand'[q][1]]), topic[hand'[q][1]],
                         SeenBy(q)' \cup channelLetGo, hand'[q][1], hand'[q][2])
      <4>1. CASE q # r
        <5>1. hand'[q] = hand[q] /\ hand[q] # <<>> /\ CoveredBy(q, hand[q][1], hand[q][2])
          BY <3>3, <4>1, <2>3 DEF ChannelInv, CoverFits
        <5> QED
          BY <5>1, <2>9, HandIs DEF ChannelInv
      <4>2. CASE q = r
        <5>1. Covered(Floor(committed[s], pos[s]), topic[s], SeenBy(r)' \cup channelLetGo, s, pos[s])
          BY <1>1, <3>1 DEF Broker!Me
        <5>2. Floor(committed[s], pos[s]) \in Nat
          BY FloorIsNat DEF ChannelInv, FloorOf
        <5>3. topic[s][pos[s] + 1] = e /\ <<s, e>> \in SeenBy(r)' \cup channelLetGo
          BY <2>2 DEF e, n
        <5>4. Covered(Floor(committed[s], pos[s]), topic[s], SeenBy(r)' \cup channelLetGo, s, pos[s] + 1)
          BY <1>2, <5>1, <5>2, <5>3, CoverOneMore
        <5> QED
          BY <4>2, <5>4, <2>3 DEF n
      <4> QED
        BY <4>1, <4>2
    <3> QED
      BY <1>1, <2>1, <3>1, <3>2, <3>3 DEF CoverFits, CoveredBy, Broker!Me
  <2>11. HandIsNewest'
    <3>1. ASSUME NEW q \in Runtimes, NEW i \in 1..Len(belief[q]), q # r,
                 hand'[q] # <<>>, hand'[q][1] = belief[q][i][1][1],
                 {belief[q][i][2], Says(topic, hand'[q])} \cap (channelLetGo \cup lapsed'[q]) = {}
          PROVE  belief[q][i][1][2] < hand'[q][2]
      BY <3>1, <2>2, <2>3 DEF ChannelInv, OrderFits, HandIsNewest
    <3>2. ASSUME NEW i \in 1..Len(belief[r]), s = belief[r][i][1][1], <<s, e>> \notin channelLetGo \cup lapsed'[r]
          PROVE  belief[r][i][1][2] < n
      <4> DEFINE k == belief[r][i][1][2]
      <4>1. /\ belief[r][i][1] \in Messages /\ belief[r][i][1] = <<s, k>> /\ k \in Nat /\ k # 0
            /\ belief[r][i][2] = Says(topic, belief[r][i][1]) /\ belief[r][i][2] \in SeenBy(r)
            /\ CoveredBy(r, s, k)
        BY <3>2, BeliefIs, MessageIs DEF ChannelInv, BeliefsFit, CoverFits
      <4> HIDE DEF k
      <4>2. belief[r][i][2] = <<s, topic[s][k]>>
        BY <4>1 DEF Says
      <4>0. <<s, e>> \notin SeenBy(r)
        BY <2>2, <2>forgotten, <3>2
      <4>3. k # n
        BY <4>0, <4>1, <4>2 DEF e
      <4>4. Floor(committed[s], pos[s]) <= pos[s] /\ Floor(committed[s], pos[s]) \in Nat
        <5>1. s \in Sessions
          BY <1>2
        <5>2. Floor(committed[s], pos[s]) \in Nat
          BY <5>1, FloorIsNat DEF ChannelInv, FloorOf
        <5>3. pos[s] \in Nat /\ (committed[s] # None => committed[s] <= pos[s])
          BY <5>1 DEF ChannelInv, OffsetsFit, ChannelTypes
        <5> QED
          BY <5>2, <5>3 DEF Floor
      <4>5. ~(n <= Floor(committed[s], pos[s])) /\ n \in Nat
        BY <4>4, <1>2 DEF n
      <4>6. n \in 1..k => FALSE
        BY <4>0, <4>1, <4>5, <1>5, <3>2 DEF CoveredBy, Covered, e
      <4>7. k < n
        BY <4>1, <4>3, <4>5, <4>6, <1>2
      <4> QED
        BY <4>7 DEF k
    <3>3. hand'[r][1] = s /\ hand'[r][2] = n /\ Says(topic, hand'[r]) = <<s, e>>
      BY <2>3, <1>3
    <3> QED
      BY <1>1, <3>1, <3>2, <3>3 DEF HandIsNewest
  <2>12. Broker!OnceInALife' /\ Broker!InTopicOrder'
    <3>1. \A q \in Runtimes : lapsed[q] \subseteq lapsed'[q]
      BY <2>2
    <3>2. Broker!OnceInALife'
      BY <1>1, <3>1 DEF ChannelInv, OrderFits, Broker!OnceInALife
    <3>3. ASSUME NEW q \in Runtimes, NEW A, A \cap (channelLetGo \cup lapsed'[q]) = {}
          PROVE  A \cap (channelLetGo \cup lapsed[q]) = {}
      BY <3>1, <3>3
    <3>4. Broker!InTopicOrder'
      BY <1>1, <3>3 DEF ChannelInv, OrderFits, Broker!InTopicOrder
    <3> QED
      BY <3>2, <3>4
  <2> QED
    BY <2>5, <2>7, <2>8, <2>10, <2>11, <2>12 DEF ChannelInv, Fits, OrderFits
<1>6. CASE ~(e # 0 /\ Broker!FirstTime(r, s, e))
  <2>0. /\ pos' = [pos EXCEPT ![s] = @ + 1] /\ UNCHANGED <<hand, lapsed>>
        /\ e = 0 \/ e \in Broker!ToSet(seenBy[r].ids[s])
        /\ seenBy' = seenBy \/ seenBy' = [seenBy EXCEPT ![r] = Broker!Asked(@, s)]
    BY <1>6 DEF Broker!Deliver, Broker!FirstTime, Broker!Taken, n, e
  <2>types. seenBy \in [Runtimes -> Memories] /\ lapsed \in [Runtimes -> SUBSET (Sessions \X Nat)]
    BY DEF ChannelInv, ChannelTypes
  <2>1. /\ pos' = [pos EXCEPT ![s] = @ + 1] /\ UNCHANGED <<hand, lapsed>>
        /\ seenBy' \in [Runtimes -> Memories] /\ \A q \in Runtimes : SeenBy(q)' = SeenBy(q)
        /\ e = 0 \/ <<s, e>> \in SeenBy(r)
    <3>1. seenBy[r] \in Memories
      BY <2>types
    <3>2. /\ Broker!Asked(seenBy[r], s) \in Memories
          /\ Broker!Remembered(Broker!Asked(seenBy[r], s)) = Broker!Remembered(seenBy[r])
      BY <3>1, AskedIs
    <3>3. seenBy' \in [Runtimes -> Memories]
      BY <2>0, <2>types, <3>2
    <3>4. \A q \in Runtimes : seenBy'[q] = seenBy[q] \/ (q = r /\ seenBy'[q] = Broker!Asked(seenBy[r], s))
      BY <2>0, <2>types
    <3>5. \A q \in Runtimes : SeenBy(q)' = SeenBy(q)
      BY <2>0, <3>2, <3>4 DEF SeenBy
    <3>6. e = 0 \/ <<s, e>> \in SeenBy(r)
      BY <2>0 DEF SeenBy, Broker!Remembered
    <3> QED
      BY <2>0, <3>3, <3>5, <3>6
  <2>2. /\ pos' \in [Sessions -> Nat] /\ pos'[s] = n /\ pos[s] <= n
        /\ \A z \in Sessions \ {s} : pos'[z] = pos[z]
    BY <2>1, <1>2 DEF ChannelInv, ChannelTypes, n
  <2>3. OffsetsFit'
    <3>1. ASSUME NEW z \in Sessions
          PROVE  pos'[z] <= Len(topic[z]) /\ (committed[z] # None => committed[z] <= pos'[z])
      <4>1. CASE z = s
        BY <1>2, <2>2, <4>1 DEF ChannelInv, OffsetsFit, ChannelTypes
      <4>2. CASE z # s
        BY <2>2, <4>2 DEF ChannelInv, OffsetsFit
      <4> QED
        BY <4>1, <4>2
    <3> QED
      BY <1>1, <3>1 DEF OffsetsFit
  <2>4. Fits'
    BY <1>4, <2>1, <2>2, <2>3 DEF ChannelInv, ChannelTypes
  <2>5. HandsFit' /\ BeliefsFit' /\ OrderFits'
    BY <1>1, <2>1 DEF ChannelInv, HandsFit, BeliefsFit, OrderFits, HandIsNewest, Broker!OnceInALife,
                      Broker!InTopicOrder, Working
  <2>6. ASSUME NEW z \in Sessions PROVE pos[z] \in Nat /\ pos[z] <= pos'[z]
    <3>1. pos[z] \in Nat
      BY DEF ChannelInv, ChannelTypes
    <3> QED
      BY <2>2, <3>1
  <2>7. ASSUME NEW q \in Runtimes, NEW z \in Sessions, NEW k \in Nat, CoveredBy(q, z, k)
        PROVE  Covered(Floor(committed'[z], pos'[z]), topic[z], SeenBy(q)' \cup channelLetGo', z, k)
    BY <2>7, <1>1, <2>1, <2>4, <2>6, CoverGoesOn DEF ChannelInv, Fits
  <2>8. ASSUME NEW q \in Runtimes, NEW z \in Sessions, owner[z] = <<q, processLife[q]>>
        PROVE  Covered(Floor(committed'[z], pos'[z]), topic[z], SeenBy(q)' \cup channelLetGo', z, pos'[z])
    <3>1. CoveredBy(q, z, pos[z])
      BY <2>8 DEF ChannelInv, CoverFits, Broker!Me
    <3>2. Covered(Floor(committed'[z], pos'[z]), topic[z], SeenBy(q)' \cup channelLetGo', z, pos[z])
      BY <2>6, <2>7, <3>1
    <3>3. CASE z = s
      <4>1. q = r
        BY <1>1, <2>8, <3>3 DEF Broker!Me
      <4>2. Floor(committed'[s], pos'[s]) \in Nat
        BY <2>4, <2>2 DEF Floor, Fits, ChannelTypes
      <4>3. topic[s][pos[s] + 1] = 0 \/ <<s, topic[s][pos[s] + 1]>> \in SeenBy(r)' \cup channelLetGo'
        BY <2>1 DEF e, n
      <4>4. Covered(Floor(committed'[s], pos'[s]), topic[s], SeenBy(r)' \cup channelLetGo', s, pos[s] + 1)
        BY <1>2, <3>2, <3>3, <4>1, <4>2, <4>3, CoverOneMore
      <4> QED
        BY <3>3, <4>1, <4>4, <2>2 DEF n
    <3>4. CASE z # s
      BY <3>2, <3>4, <2>2
    <3> QED
      BY <3>3, <3>4
  <2>9. CoverFits'
    <3>1. ASSUME NEW q \in Runtimes, NEW i \in 1..Len(belief[q])
          PROVE  Covered(Floor(committed'[belief[q][i][1][1]], pos'[belief[q][i][1][1]]), topic[belief[q][i][1][1]],
                         SeenBy(q)' \cup channelLetGo', belief[q][i][1][1], belief[q][i][1][2])
      <4>1. CoveredBy(q, belief[q][i][1][1], belief[q][i][1][2])
        BY DEF ChannelInv, CoverFits
      <4> QED
        BY <4>1, <2>7, BeliefIs DEF ChannelInv
    <3>2. ASSUME NEW q \in Runtimes, hand[q] # <<>>
          PROVE  Covered(Floor(committed'[hand[q][1]], pos'[hand[q][1]]), topic[hand[q][1]],
                         SeenBy(q)' \cup channelLetGo', hand[q][1], hand[q][2])
      <4>1. CoveredBy(q, hand[q][1], hand[q][2])
        BY <3>2 DEF ChannelInv, CoverFits
      <4> QED
        BY <3>2, <4>1, <2>7, HandIs DEF ChannelInv
    <3> QED
      BY <1>1, <2>1, <2>8, <3>1, <3>2 DEF CoverFits, CoveredBy, Broker!Me
  <2> QED
    BY <2>4, <2>5, <2>9 DEF ChannelInv, Fits
<1> QED
  BY <1>5, <1>6

\* An answer moves a partition past the message that was in hand, if it is still there.
LEMMA AnsweredIs ==
  ASSUME ChannelInv, NEW r \in Runtimes, NEW ok, hand[r] # <<>>, Broker!Answered(r, ok)
  PROVE  /\ hand' \in [Runtimes -> Messages \cup {<<>>}] /\ hand'[r] = <<>>
         /\ \A q \in Runtimes \ {r} : hand'[q] = hand[q]
         /\ pos' \in [Sessions -> Nat]
         /\ \A z \in Sessions :
              /\ pos[z] <= pos'[z] /\ pos'[z] <= Len(topic[z])
              /\ pos'[z] = pos[z] \/ (z = hand[r][1] /\ owner[z] = Broker!Me(r) /\ pos'[z] = hand[r][2])
<1>1. hand[r][1] \in Sessions /\ hand[r][2] \in Nat /\ hand[r][2] <= Len(topic[hand[r][1]])
  BY HandIs DEF ChannelInv, HandsFit, InTopic
<1>2. /\ hand' \in [Runtimes -> Messages \cup {<<>>}] /\ hand'[r] = <<>>
      /\ \A q \in Runtimes \ {r} : hand'[q] = hand[q]
  BY DEF Broker!Answered, Broker!Idle, ChannelInv, ChannelTypes
<1>3. \A z \in Sessions : pos[z] \in Nat /\ Len(topic[z]) \in Nat /\ pos[z] <= Len(topic[z])
  BY DEF ChannelInv, ChannelTypes, OffsetsFit
<1>4. pos \in [Sessions -> Nat]
  BY DEF ChannelInv, ChannelTypes
<1> DEFINE s == hand[r][1]
           n == hand[r][2]
<1>5. CASE owner[s] = Broker!Me(r) /\ pos[s] + 1 = n
  <2>1. pos' = [pos EXCEPT ![s] = @ + 1]
    BY <1>5 DEF Broker!Answered, Broker!Taken
  <2> HIDE DEF s, n
  <2>2. s \in Sessions /\ n \in Nat /\ n <= Len(topic[s])
    BY <1>1 DEF s, n
  <2>3. pos' \in [Sessions -> Nat] /\ pos'[s] = n /\ \A z \in Sessions \ {s} : pos'[z] = pos[z]
    BY <1>3, <1>4, <1>5, <2>1, <2>2
  <2>4. ASSUME NEW z \in Sessions
        PROVE  /\ pos[z] <= pos'[z] /\ pos'[z] <= Len(topic[z])
               /\ pos'[z] = pos[z] \/ (z = s /\ owner[z] = Broker!Me(r) /\ pos'[z] = n)
    <3>1. CASE z = s
      BY <3>1, <1>3, <1>5, <2>2, <2>3
    <3>2. CASE z # s
      <4>1. pos'[z] = pos[z]
        BY <3>2, <2>3
      <4>2. pos[z] \in Nat /\ pos[z] <= Len(topic[z])
        BY <1>3
      <4> QED
        BY <4>1, <4>2
    <3> QED
      BY <3>1, <3>2
  <2> QED
    BY <1>2, <2>3, <2>4 DEF s, n
<1>6. CASE ~(owner[s] = Broker!Me(r) /\ pos[s] + 1 = n)
  <2>1. pos' = pos
    BY <1>6 DEF Broker!Answered
  <2>2. \A z \in Sessions : pos[z] <= pos[z] /\ pos[z] <= Len(topic[z])
    BY <1>3
  <2> QED
    BY <1>2, <1>4, <2>1, <2>2
<1> QED
  BY <1>5, <1>6

\* An answer leaves the partitions of every member covered.
LEMMA AnswerCovers ==
  ASSUME Broker!ChannelAssumption, ChannelInv, ChannelTypes', NEW r \in Runtimes, NEW ok, hand[r] # <<>>,
         Broker!Answered(r, ok), UNCHANGED <<topic, committed, owner, processLife>>,
         \A q \in Runtimes : SeenBy(q) \cup channelLetGo \subseteq SeenBy(q)' \cup channelLetGo'
  PROVE  /\ OffsetsFit'
         /\ \A q \in Runtimes, z \in Sessions :
              /\ owner[z] = <<q, processLife[q]>> =>
                   Covered(Floor(committed'[z], pos'[z]), topic[z], SeenBy(q)' \cup channelLetGo', z, pos'[z])
              /\ \A k \in Nat : CoveredBy(q, z, k) =>
                   Covered(Floor(committed'[z], pos'[z]), topic[z], SeenBy(q)' \cup channelLetGo', z, k)
<1>1. \A z \in Sessions :
        /\ pos[z] <= pos'[z] /\ pos'[z] <= Len(topic[z])
        /\ pos'[z] = pos[z] \/ (z = hand[r][1] /\ owner[z] = Broker!Me(r) /\ pos'[z] = hand[r][2])
  BY AnsweredIs
<1>2. \A z \in Sessions : pos[z] \in Nat /\ pos'[z] \in Nat /\ committed[z] \in Nat \cup {None}
  BY DEF ChannelInv, ChannelTypes
<1>3. OffsetsFit'
  BY <1>1, <1>2 DEF ChannelInv, OffsetsFit
<1>4. ASSUME NEW q \in Runtimes, NEW z \in Sessions, NEW k \in Nat, CoveredBy(q, z, k)
      PROVE  Covered(Floor(committed'[z], pos'[z]), topic[z], SeenBy(q)' \cup channelLetGo', z, k)
  BY <1>4, <1>1, CoverGoesOn DEF ChannelInv
<1>5. ASSUME NEW q \in Runtimes, NEW z \in Sessions, owner[z] = <<q, processLife[q]>>
      PROVE  Covered(Floor(committed'[z], pos'[z]), topic[z], SeenBy(q)' \cup channelLetGo', z, pos'[z])
  <2>1. CASE pos'[z] = pos[z]
    <3>1. CoveredBy(q, z, pos[z])
      BY <1>5 DEF ChannelInv, CoverFits, Broker!Me
    <3> QED
      BY <1>2, <1>4, <2>1, <3>1
  <2>2. CASE z = hand[r][1] /\ owner[z] = Broker!Me(r) /\ pos'[z] = hand[r][2]
    <3>1. q = r
      BY <1>5, <2>2 DEF Broker!Me
    <3>2. CoveredBy(q, z, pos'[z])
      BY <2>2, <3>1 DEF ChannelInv, CoverFits
    <3> QED
      BY <1>2, <1>4, <3>2
  <2> QED
    BY <1>1, <2>1, <2>2
<1> QED
  BY <1>3, <1>4, <1>5

LEMMA FoldKeeps ==
  ASSUME Broker!ChannelAssumption, ChannelInv, NEW r \in Runtimes, Broker!Fold(r) PROVE ChannelInv'
<1>1. /\ Working(r) /\ hand[r] # <<>> /\ Broker!Answered(r, TRUE)
      /\ UNCHANGED <<topic, committed, owner, members, phase, processLife, processAsked, seenBy, lapsed, code,
                     channelLetGo, deaths, moves>>
  BY DEF Broker!Fold, Broker!Idle, Working
<1> DEFINE b == belief[r]
           h == hand[r]
           el == <<h, Says(topic, h)>>
<1>2. /\ h \in Messages /\ h[1] \in Sessions /\ h[2] \in Nat /\ h = <<h[1], h[2]>> /\ InTopic(topic, h)
      /\ Says(topic, h) \in SeenBy(r) /\ Says(topic, h) \in Sessions \X Nat
  <2>1. h \in Messages /\ InTopic(topic, h) /\ Says(topic, h) \in SeenBy(r)
    BY <1>1, HandIs DEF ChannelInv, HandsFit
  <2>2. SeenBy(r) \subseteq Sessions \X Nat
    BY RememberedType DEF ChannelInv, ChannelTypes, SeenBy
  <2> QED
    BY <2>1, <2>2, MessageIs
<1>3. /\ hand' \in [Runtimes -> Messages \cup {<<>>}] /\ hand'[r] = <<>>
      /\ \A q \in Runtimes \ {r} : hand'[q] = hand[q]
      /\ pos' \in [Sessions -> Nat]
      /\ \A q \in Runtimes : SeenBy(q)' = SeenBy(q) /\ lapsed'[q] = lapsed[q]
  BY <1>1, AnsweredIs DEF SeenBy
<1>4. /\ belief' = [belief EXCEPT ![r] = Append(b, el)] /\ folded' = folded \cup {<<h, Broker!Me(r)>>}
  BY DEF Broker!Fold, Broker!Event, Says
<1> HIDE DEF h
<1>5. b \in Seq(Messages \X (Sessions \X Nat)) /\ el \in Messages \X (Sessions \X Nat) /\ Len(b) \in Nat
  BY <1>2 DEF ChannelInv, ChannelTypes
<1>6. belief \in [Runtimes -> Seq(Messages \X (Sessions \X Nat))]
  BY DEF ChannelInv, ChannelTypes
<1> HIDE DEF b, el
<1>7. /\ Append(b, el) \in Seq(Messages \X (Sessions \X Nat)) /\ Len(Append(b, el)) = Len(b) + 1
      /\ Append(b, el)[Len(b) + 1] = el
      /\ \A i \in 1..Len(b) : Append(b, el)[i] = b[i]
  BY <1>5
<1>8. /\ belief' \in [Runtimes -> Seq(Messages \X (Sessions \X Nat))]
      /\ belief'[r] = Append(b, el) /\ \A q \in Runtimes \ {r} : belief'[q] = belief[q]
  BY <1>4, <1>6, <1>7
<1>9. /\ \A i \in 1..Len(belief'[r]) : i \in 1..Len(b) \/ i = Len(b) + 1
      /\ Len(belief'[r]) = Len(b) + 1
      /\ belief'[r][Len(b) + 1] = el /\ \A i \in 1..Len(b) : belief'[r][i] = belief[r][i]
  BY <1>5, <1>7, <1>8 DEF b
<1>10. ChannelTypes'
  <2>1. Broker!Me(r) \in Processes
    BY <1>1 DEF ChannelInv, ChannelTypes, MembersFit, Processes
  <2>2. folded' \subseteq Messages \X Processes
    BY <1>2, <1>4, <2>1 DEF ChannelInv, ChannelTypes
  <2>3. ChannelTypes
    BY DEF ChannelInv
  <2> QED
    BY <1>1, <1>3, <1>8, <2>2, <2>3 DEF ChannelTypes
<1>11. MembersFit'
  BY <1>1 DEF ChannelInv, MembersFit, Working, Broker!Me
<1>12. /\ OffsetsFit'
       /\ \A q \in Runtimes, z \in Sessions :
            /\ owner[z] = <<q, processLife[q]>> =>
                 Covered(Floor(committed'[z], pos'[z]), topic[z], SeenBy(q)' \cup channelLetGo', z, pos'[z])
            /\ \A k \in Nat : CoveredBy(q, z, k) =>
                 Covered(Floor(committed'[z], pos'[z]), topic[z], SeenBy(q)' \cup channelLetGo', z, k)
  <2>1. \A q \in Runtimes : SeenBy(q) \cup channelLetGo \subseteq SeenBy(q)' \cup channelLetGo'
    BY <1>1, <1>3
  <2> QED
    BY <1>1, <1>10, <2>1, AnswerCovers
<1>13. HandsFit'
  BY <1>1, <1>3 DEF ChannelInv, HandsFit, Working
<1>14. \* What is believed already is told apart from what was in hand, and comes before it.
       ASSUME NEW i \in 1..Len(b)
       PROVE  /\ belief[r][i][2] \notin lapsed[r] => belief[r][i][2] # Says(topic, h)
              /\ h[1] = belief[r][i][1][1]
                 /\ {belief[r][i][2], Says(topic, h)} \cap (channelLetGo \cup lapsed[r]) = {}
                 => belief[r][i][1][2] < h[2]
  BY <1>1 DEF ChannelInv, BeliefsFit, OrderFits, HandIsNewest, b, h
<1>15. BeliefsFit'
  <2>1. ASSUME NEW q \in Runtimes, NEW i \in 1..Len(belief'[q])
        PROVE  /\ InTopic(topic, belief'[q][i][1]) /\ belief'[q][i][2] = Says(topic, belief'[q][i][1])
               /\ belief'[q][i][2] \in SeenBy(q)
               /\ hand'[q] # <<>> /\ belief'[q][i][2] \notin lapsed[q] => belief'[q][i][2] # Says(topic, hand'[q])
    <3>1. CASE q # r
      <4>1. belief'[q] = belief[q] /\ hand'[q] = hand[q]
        BY <3>1, <1>3, <1>8
      <4>2. BeliefsFit
        BY DEF ChannelInv
      <4> QED
        BY <4>1, <4>2 DEF BeliefsFit
    <3>2. CASE q = r /\ i \in 1..Len(b)
      <4>1. belief'[r][i] = belief[r][i] /\ hand'[r] = <<>>
        BY <3>2, <1>3, <1>9
      <4>2. BeliefsFit
        BY DEF ChannelInv
      <4> QED
        BY <3>2, <4>1, <4>2 DEF BeliefsFit, b
    <3>3. CASE q = r /\ i = Len(b) + 1
      BY <3>3, <1>2, <1>3, <1>9 DEF el
    <3> QED
      BY <3>1, <3>2, <3>3, <1>9
  <2> QED
    BY <1>1, <1>3, <2>1 DEF BeliefsFit
<1>16. CoverFits'
  <2>1. ASSUME NEW q \in Runtimes, NEW i \in 1..Len(belief'[q])
        PROVE  Covered(Floor(committed'[belief'[q][i][1][1]], pos'[belief'[q][i][1][1]]), topic[belief'[q][i][1][1]],
                       SeenBy(q)' \cup channelLetGo', belief'[q][i][1][1], belief'[q][i][1][2])
    <3>1. /\ belief'[q][i][1][1] \in Sessions /\ belief'[q][i][1][2] \in Nat
          /\ CoveredBy(q, belief'[q][i][1][1], belief'[q][i][1][2])
      <4>1. CASE q # r
        BY <4>1, <1>8, BeliefIs DEF ChannelInv, CoverFits
      <4>2. CASE q = r /\ i \in 1..Len(b)
        BY <4>2, <1>9, BeliefIs DEF ChannelInv, CoverFits, b
      <4>3. CASE q = r /\ i = Len(b) + 1
        <5>1. CoveredBy(r, h[1], h[2])
          BY <1>1 DEF ChannelInv, CoverFits, h
        <5> QED
          BY <4>3, <5>1, <1>2, <1>9 DEF el
      <4> QED
        BY <4>1, <4>2, <4>3, <1>9
    <3> QED
      BY <3>1, <1>12
  <2>2. ASSUME NEW q \in Runtimes, hand'[q] # <<>>
        PROVE  Covered(Floor(committed'[hand'[q][1]], pos'[hand'[q][1]]), topic[hand'[q][1]],
                       SeenBy(q)' \cup channelLetGo', hand'[q][1], hand'[q][2])
    <3>1. hand'[q] = hand[q] /\ hand[q] # <<>>
      BY <2>2, <1>3
    <3>2. hand[q][1] \in Sessions /\ hand[q][2] \in Nat /\ CoveredBy(q, hand[q][1], hand[q][2])
      BY <3>1, HandIs DEF ChannelInv, CoverFits
    <3> QED
      BY <3>1, <3>2, <1>12
  <2> QED
    BY <1>1, <1>12, <2>1, <2>2 DEF CoverFits, CoveredBy, Broker!Me
<1>17. HandIsNewest'
  BY <1>1, <1>3, <1>8 DEF ChannelInv, OrderFits, HandIsNewest
<1>18. \A q \in Runtimes : DOMAIN belief[q] = 1..Len(belief[q]) /\ DOMAIN belief'[q] = 1..Len(belief'[q])
  BY <1>6, <1>8
<1>19. Broker!OnceInALife'
  <2>1. \A q \in Runtimes : \A i, j \in 1..Len(belief[q]) :
          belief[q][i][2] = belief[q][j][2] /\ belief[q][i][2] \notin lapsed[q] => i = j
    BY <1>18 DEF ChannelInv, OrderFits, Broker!OnceInALife
  <2>2. ASSUME NEW q \in Runtimes, NEW i \in 1..Len(belief'[q]), NEW j \in 1..Len(belief'[q]),
               belief'[q][i][2] = belief'[q][j][2], belief'[q][i][2] \notin lapsed[q]
        PROVE  i = j
    <3>1. CASE q # r
      <4>1. belief'[q] = belief[q]
        BY <3>1, <1>8
      <4> QED
        BY <2>2, <2>1, <4>1
    <3>2. CASE q = r /\ i \in 1..Len(b) /\ j \in 1..Len(b)
      <4>1. belief'[r][i] = belief[r][i] /\ belief'[r][j] = belief[r][j]
        BY <3>2, <1>9
      <4>2. belief[r][i][2] = belief[r][j][2] /\ belief[r][i][2] \notin lapsed[r]
        BY <2>2, <3>2, <4>1
      <4> QED
        BY <2>1, <3>2, <4>2 DEF b
    <3>3. CASE q = r /\ (i = Len(b) + 1 \/ j = Len(b) + 1)
      BY <2>2, <3>3, <1>9, <1>14 DEF el
    <3> QED
      BY <3>1, <3>2, <3>3, <1>9
  <2> QED
    BY <1>1, <1>18, <2>2 DEF Broker!OnceInALife
<1>20. Broker!InTopicOrder'
  <2>1. ASSUME NEW q \in Runtimes, NEW i \in 1..Len(belief'[q]), NEW j \in 1..Len(belief'[q]), i < j,
               belief'[q][i][1][1] = belief'[q][j][1][1],
               {belief'[q][i][2], belief'[q][j][2]} \cap (channelLetGo \cup lapsed[q]) = {}
        PROVE  belief'[q][i][1][2] < belief'[q][j][1][2]
    <3>1. CASE q # r
      BY <2>1, <3>1, <1>8, <1>18 DEF ChannelInv, OrderFits, Broker!InTopicOrder
    <3>2. CASE q = r /\ i \in 1..Len(b) /\ j \in 1..Len(b)
      BY <2>1, <3>2, <1>9, <1>18 DEF ChannelInv, OrderFits, Broker!InTopicOrder, b
    <3>3. CASE q = r /\ i \in 1..Len(b) /\ j = Len(b) + 1
      BY <2>1, <3>3, <1>9, <1>14 DEF el
    <3> QED
      BY <2>1, <3>1, <3>2, <3>3, <1>5, <1>9
  <2> QED
    BY <1>1, <1>18, <2>1 DEF Broker!InTopicOrder
<1> QED
  BY <1>10, <1>11, <1>12, <1>13, <1>15, <1>16, <1>17, <1>19, <1>20 DEF ChannelInv, OrderFits

LEMMA FoldFailsKeeps ==
  ASSUME Broker!ChannelAssumption, ChannelInv, NEW r \in Runtimes, Broker!FoldFails(r) PROVE ChannelInv'
<1> DEFINE ev == Says(topic, hand[r])
<1>1. /\ Working(r) /\ hand[r] # <<>> /\ Broker!Answered(r, FALSE)
      /\ UNCHANGED <<topic, committed, owner, members, phase, processLife, processAsked, lapsed, belief, code,
                     folded, deaths, moves>>
      /\ \/ UNCHANGED <<seenBy, channelLetGo>>
         \/ /\ seenBy' = [seenBy EXCEPT ![r] = Broker!Forgotten(@, ev[1], ev[2])]
            /\ channelLetGo' = channelLetGo \cup {ev}
  BY DEF Broker!FoldFails, Broker!Idle, Broker!Event, Working, Says
<1>2. /\ hand' \in [Runtimes -> Messages \cup {<<>>}] /\ hand'[r] = <<>>
      /\ \A q \in Runtimes \ {r} : hand'[q] = hand[q]
      /\ pos' \in [Sessions -> Nat]
  BY <1>1, AnsweredIs
<1> HIDE DEF ev
<1>3. /\ seenBy' \in [Runtimes -> Memories]
      /\ \A q \in Runtimes \ {r} : SeenBy(q)' = SeenBy(q)
      /\ SeenBy(r) \ {ev} \subseteq SeenBy(r)' /\ lapsed[r] \subseteq SeenBy(r)'
      /\ channelLetGo \subseteq channelLetGo'
      /\ \A q \in Runtimes : SeenBy(q) \cup channelLetGo \subseteq SeenBy(q)' \cup channelLetGo'
  <2>1. seenBy \in [Runtimes -> Memories] /\ seenBy[r] \in Memories /\ lapsed' = lapsed
    BY <1>1 DEF ChannelInv, ChannelTypes
  <2>2. CASE UNCHANGED <<seenBy, channelLetGo>>
    BY <2>1, <2>2 DEF SeenBy
  <2>3. CASE /\ seenBy' = [seenBy EXCEPT ![r] = Broker!Forgotten(@, ev[1], ev[2])]
             /\ channelLetGo' = channelLetGo \cup {ev}
    <3>1. ev[1] \in Sessions /\ ev[2] \in Nat /\ ev = <<ev[1], ev[2]>>
      <4>1. hand[r] \in Messages /\ InTopic(topic, hand[r])
        BY <1>1, HandIs DEF ChannelInv, HandsFit
      <4>2. hand[r][1] \in Sessions /\ hand[r][2] \in 1..Len(topic[hand[r][1]])
        BY <4>1, MessageIs DEF InTopic
      <4>3. topic[hand[r][1]][hand[r][2]] \in Nat
        BY <4>2 DEF ChannelInv, ChannelTypes
      <4> QED
        BY <4>2, <4>3 DEF ev, Says
    <3>2. /\ Broker!Forgotten(seenBy[r], ev[1], ev[2]) \in Memories
          /\ Broker!Remembered(seenBy[r]) \ {ev} \subseteq Broker!Remembered(Broker!Forgotten(seenBy[r], ev[1], ev[2]))
      BY <2>1, <3>1, ForgottenIs
    <3>3. /\ seenBy' \in [Runtimes -> Memories] /\ seenBy'[r] = Broker!Forgotten(seenBy[r], ev[1], ev[2])
          /\ \A q \in Runtimes \ {r} : seenBy'[q] = seenBy[q]
      BY <2>1, <2>3, <3>2
    <3>4. SeenBy(r) \ {ev} \subseteq SeenBy(r)' /\ lapsed[r] \subseteq SeenBy(r)'
      BY <2>1, <3>2, <3>3 DEF SeenBy
    <3>5. \A q \in Runtimes \ {r} : SeenBy(q)' = SeenBy(q)
      BY <2>1, <3>3 DEF SeenBy
    <3> QED
      BY <2>3, <3>3, <3>4, <3>5
  <2> QED
    BY <1>1, <2>2, <2>3
<1>4. ChannelTypes'
  <2>1. ChannelTypes
    BY DEF ChannelInv
  <2> QED
    BY <1>1, <1>2, <1>3, <2>1 DEF ChannelTypes
<1>5. MembersFit'
  BY <1>1 DEF ChannelInv, MembersFit, Working, Broker!Me
<1>6. /\ OffsetsFit'
      /\ \A q \in Runtimes, z \in Sessions :
           /\ owner[z] = <<q, processLife[q]>> =>
                Covered(Floor(committed'[z], pos'[z]), topic[z], SeenBy(q)' \cup channelLetGo', z, pos'[z])
           /\ \A k \in Nat : CoveredBy(q, z, k) =>
                Covered(Floor(committed'[z], pos'[z]), topic[z], SeenBy(q)' \cup channelLetGo', z, k)
  BY <1>1, <1>3, <1>4, AnswerCovers
<1>7. HandsFit'
  <2>1. ASSUME NEW q \in Runtimes, hand'[q] # <<>>
        PROVE  /\ InTopic(topic, hand'[q]) /\ Working(q)
               /\ Says(topic, hand'[q])[2] # 0 /\ Says(topic, hand'[q]) \in SeenBy(q)'
    <3>1. hand'[q] = hand[q] /\ hand[q] # <<>> /\ SeenBy(q)' = SeenBy(q)
      BY <2>1, <1>2, <1>3
    <3> QED
      BY <3>1 DEF ChannelInv, HandsFit
  <2> QED
    BY <1>1, <2>1 DEF HandsFit, Working
<1>8. BeliefsFit'
  <2>1. ASSUME NEW q \in Runtimes, NEW i \in 1..Len(belief[q])
        PROVE  /\ InTopic(topic, belief[q][i][1]) /\ belief[q][i][2] = Says(topic, belief[q][i][1])
               /\ belief[q][i][2] \in SeenBy(q)'
               /\ hand'[q] # <<>> /\ belief[q][i][2] \notin lapsed[q] => belief[q][i][2] # Says(topic, hand'[q])
    <3>1. /\ InTopic(topic, belief[q][i][1]) /\ belief[q][i][2] = Says(topic, belief[q][i][1])
          /\ belief[q][i][2] \in SeenBy(q)
          /\ hand[q] # <<>> /\ belief[q][i][2] \notin lapsed[q] => belief[q][i][2] # Says(topic, hand[q])
      BY DEF ChannelInv, BeliefsFit
    <3>2. CASE q = r
      BY <3>1, <3>2, <1>1, <1>2, <1>3 DEF ev
    <3>3. CASE q # r
      BY <3>1, <3>3, <1>2, <1>3
    <3> QED
      BY <3>2, <3>3
  <2> QED
    BY <1>1, <2>1 DEF BeliefsFit
<1>9. CoverFits'
  <2>1. ASSUME NEW q \in Runtimes, NEW i \in 1..Len(belief[q])
        PROVE  Covered(Floor(committed'[belief[q][i][1][1]], pos'[belief[q][i][1][1]]), topic[belief[q][i][1][1]],
                       SeenBy(q)' \cup channelLetGo', belief[q][i][1][1], belief[q][i][1][2])
    <3>1. /\ belief[q][i][1][1] \in Sessions /\ belief[q][i][1][2] \in Nat
          /\ CoveredBy(q, belief[q][i][1][1], belief[q][i][1][2])
      BY BeliefIs DEF ChannelInv, CoverFits
    <3> QED
      BY <3>1, <1>6
  <2>2. ASSUME NEW q \in Runtimes, hand'[q] # <<>>
        PROVE  Covered(Floor(committed'[hand'[q][1]], pos'[hand'[q][1]]), topic[hand'[q][1]],
                       SeenBy(q)' \cup channelLetGo', hand'[q][1], hand'[q][2])
    <3>1. hand'[q] = hand[q] /\ hand[q] # <<>>
      BY <2>2, <1>2
    <3>2. hand[q][1] \in Sessions /\ hand[q][2] \in Nat /\ CoveredBy(q, hand[q][1], hand[q][2])
      BY <3>1, HandIs DEF ChannelInv, CoverFits
    <3> QED
      BY <3>1, <3>2, <1>6
  <2> QED
    BY <1>1, <1>6, <2>1, <2>2 DEF CoverFits, CoveredBy, Broker!Me
<1>10. \A q \in Runtimes : \A A :
         A \cap (channelLetGo' \cup lapsed'[q]) = {} => A \cap (channelLetGo \cup lapsed[q]) = {}
  BY <1>1, <1>3
<1>11. HandIsNewest'
  <2> SUFFICES ASSUME NEW q \in Runtimes, NEW i \in 1..Len(belief[q]),
                      hand'[q] # <<>>, hand'[q][1] = belief[q][i][1][1],
                      {belief[q][i][2], Says(topic, hand'[q])} \cap (channelLetGo' \cup lapsed'[q]) = {}
               PROVE  belief[q][i][1][2] < hand'[q][2]
    BY <1>1 DEF HandIsNewest
  <2>1. hand'[q] = hand[q] /\ {belief[q][i][2], Says(topic, hand[q])} \cap (channelLetGo \cup lapsed[q]) = {}
    BY <1>2, <1>10
  <2> QED
    BY <2>1 DEF ChannelInv, OrderFits, HandIsNewest
<1>12. Broker!OnceInALife'
  BY <1>1 DEF ChannelInv, OrderFits, Broker!OnceInALife
<1>13. Broker!InTopicOrder'
  BY <1>1, <1>10 DEF ChannelInv, OrderFits, Broker!InTopicOrder
<1> QED
  BY <1>4, <1>5, <1>6, <1>7, <1>8, <1>9, <1>11, <1>12, <1>13 DEF ChannelInv, OrderFits

-----------------------------------------------------------------------------
(* One process alone, step by step *)

\* Who is alone is every member, every actor and all that ever folded.
LEMMA OnlyIs ==
  ASSUME Inv, NEW p \in Runtimes, Only(p)
  PROVE  /\ \A q \in Runtimes : q # p => phase[q] = "down" /\ ~Working(q) /\ hand[q] = <<>>
         /\ \A m \in members : m = <<p, m[2]>> /\ m[1] = p
         /\ \A f \in folded : f[2][1] = p
<1>1. ASSUME NEW q \in Runtimes, q # p PROVE phase[q] = "down" /\ ~Working(q) /\ hand[q] = <<>>
  <2>1. phase[q] = "down"
    BY <1>1 DEF Inv, AloneInv, LivesFit, Only
  <2> QED
    BY <2>1 DEF Inv, ChannelInv, HandsFit, Working
<1>2. ASSUME NEW m \in Processes, m[2] <= processLife[m[1]] PROVE m = <<p, m[2]>> /\ m[1] = p
  <2>1. m[1] \in Runtimes /\ m[2] \in Nat \ {0} /\ m = <<m[1], m[2]>>
    BY DEF Processes
  <2>2. processLife[m[1]] # 0
    BY <1>2, <2>1
  <2> QED
    BY <2>1, <2>2 DEF Only
<1>3. ASSUME NEW m \in members PROVE m = <<p, m[2]>> /\ m[1] = p
  BY <1>2 DEF Inv, ChannelInv, ChannelTypes, MembersFit
<1>4. ASSUME NEW f \in folded PROVE f[2][1] = p
  <2>1. f[2] \in Processes /\ f[2][2] <= processLife[f[2][1]]
    BY DEF Inv, ChannelInv, ChannelTypes, AloneInv, LivesFit
  <2> QED
    BY <2>1, <1>2
<1> QED
  BY <1>1, <1>3, <1>4

LEMMA FoldIs ==
  ASSUME ChannelTypes, NEW f \in folded
  PROVE  f[1] \in Messages /\ f[1][1] \in Sessions /\ f[1][2] \in Nat /\ f[2] \in Processes
         /\ f = <<f[1], f[2]>> /\ f[1] = <<f[1][1], f[1][2]>> /\ f[2] = <<f[2][1], f[2][2]>>
         /\ f[2][1] \in Runtimes /\ f[2][2] \in Nat
<1>1. f \in Messages \X Processes
  BY DEF ChannelTypes
<1>2. f[1] \in Messages /\ f[2] \in Processes /\ f = <<f[1], f[2]>>
  BY <1>1
<1> QED
  BY <1>2, MessageIs DEF Processes

\* What leaves the lives, the group and the folds as they are only moves offsets on.
LEMMA CalmKeeps ==
  ASSUME Inv, ChannelTypes',
         UNCHANGED <<processLife, members, owner, phase, code, folded, deaths, moves>>,
         \A z \in Sessions : pos[z] <= pos'[z],
         (\E r \in Runtimes : Working(r))
           \/ \A z \in Sessions : committed'[z] = committed[z] /\ Len(topic[z]) <= Len(topic'[z]),
         \A p \in Runtimes : Only(p) /\ hand'[p] # <<>> =>
           \/ owner[hand'[p][1]] = Broker!Me(p) /\ pos'[hand'[p][1]] + 1 = hand'[p][2]
           \/ UNCHANGED <<hand, pos>>
  PROVE  AloneInv'
<1>1. LivesFit' /\ DeadFit'
  BY DEF Inv, AloneInv, LivesFit, DeadFit, Dead, Broker!Me
<1>2. ASSUME NEW p \in Runtimes, Only(p) PROVE AloneFits(p)'
  <2>1. AloneKeeps(p) /\ AloneGoesOn(p)
    BY <1>2 DEF Inv, AloneInv, AloneFits
  <2>2. \A f \in folded : f[1][1] \in Sessions /\ f[1][2] \in Nat
    BY FoldIs DEF Inv, ChannelInv
  <2>3. \A z \in Sessions : /\ pos[z] \in Nat /\ pos'[z] \in Nat
                            /\ Len(topic[z]) \in Nat /\ Len(topic'[z]) \in Nat
                            /\ committed[z] \in Nat \cup {None}
    BY DEF Inv, ChannelInv, ChannelTypes
  <2>4. \A f \in folded : f[1][2] <= pos[f[1][1]] => f[1][2] <= pos'[f[1][1]]
    BY <2>2, <2>3
  <2>5. ~Working(p) => \A z \in Sessions : committed'[z] = committed[z] /\ Len(topic[z]) <= Len(topic'[z])
    BY <1>2, OnlyIs
  <2>6. ~Working(p) => \A f \in folded : f[1][2] <= Broker!From(f[1][1]) => f[1][2] <= Broker!From(f[1][1])'
    <3> SUFFICES ASSUME ~Working(p), NEW f \in folded, f[1][2] <= Broker!From(f[1][1])
                 PROVE  f[1][2] <= Broker!From(f[1][1])'
      OBVIOUS
    <3>1. CASE committed[f[1][1]] = None
      BY <2>2, <2>3, <2>5, <3>1 DEF Broker!From
    <3>2. CASE committed[f[1][1]] # None
      BY <2>2, <2>3, <2>5, <3>2 DEF Broker!From
    <3> QED
      BY <3>1, <3>2
  <2>7. AloneKeeps(p)'
    <3> SUFFICES ASSUME moves = 0, deaths < 2
                 PROVE  /\ hand'[p] # <<>> => owner[hand'[p][1]] = Broker!Me(p) /\ pos'[hand'[p][1]] + 1 = hand'[p][2]
                        /\ \A f \in folded : f[2] = Broker!Me(p) =>
                             IF Working(p) THEN owner[f[1][1]] = Broker!Me(p) /\ f[1][2] <= pos'[f[1][1]]
                             ELSE code[p] = 0 => committed'[f[1][1]] # None /\ f[1][2] <= committed'[f[1][1]]
      BY DEF AloneKeeps, Working, Broker!Me
    <3>1. hand'[p] # <<>> => owner[hand'[p][1]] = Broker!Me(p) /\ pos'[hand'[p][1]] + 1 = hand'[p][2]
      BY <1>2, <2>1 DEF AloneKeeps
    <3>2. ASSUME NEW f \in folded, f[2] = Broker!Me(p)
          PROVE  IF Working(p) THEN owner[f[1][1]] = Broker!Me(p) /\ f[1][2] <= pos'[f[1][1]]
                 ELSE code[p] = 0 => committed'[f[1][1]] # None /\ f[1][2] <= committed'[f[1][1]]
      BY <3>2, <2>1, <2>2, <2>4, <2>5 DEF AloneKeeps
    <3> QED
      BY <3>1, <3>2
  <2>8. AloneGoesOn(p)'
    BY <2>1, <2>2, <2>4, <2>6 DEF AloneGoesOn, Working, Broker!Me
  <2> QED
    BY <2>7, <2>8 DEF AloneFits
<1> QED
  BY <1>1, <1>2 DEF AloneInv, Only

LEMMA PublishAlone == ASSUME Inv, ChannelTypes', NEW s \in Sessions, Broker!Publish(s) PROVE AloneInv'
<1>1. /\ UNCHANGED <<processLife, members, owner, phase, code, folded, deaths, moves>>
      /\ UNCHANGED <<pos, committed, hand>>
  BY DEF Broker!Publish
<1>2. Quiet
  BY PublishQuiet DEF Inv
<1>3. \A z \in Sessions : pos[z] <= pos[z] /\ Len(topic[z]) <= Len(topic'[z])
  BY <1>2 DEF Quiet, Inv, ChannelInv, ChannelTypes
<1> QED
  BY <1>1, <1>3, CalmKeeps

LEMMA CommitAlone ==
  ASSUME Inv, ChannelTypes', NEW r \in Runtimes, NEW s \in Sessions, Broker!Commit(r, s) PROVE AloneInv'
<1>1. /\ UNCHANGED <<processLife, members, owner, phase, code, folded, deaths, moves>>
      /\ UNCHANGED <<pos, hand>> /\ Working(r)
  BY DEF Broker!Commit, Working
<1>2. \A z \in Sessions : pos[z] <= pos[z]
  BY DEF Inv, ChannelInv, ChannelTypes
<1> QED
  BY <1>1, <1>2, CalmKeeps

LEMMA DeliverAlone ==
  ASSUME Inv, ChannelTypes', NEW r \in Runtimes, NEW s \in Sessions, Broker!Deliver(r, s) PROVE AloneInv'
<1>1. /\ UNCHANGED <<processLife, members, owner, phase, code, folded, deaths, moves>>
      /\ Working(r) /\ owner[s] = Broker!Me(r) /\ hand[r] = <<>>
  BY DEF Broker!Deliver, Working, Broker!Idle
<1>2. \/ hand' = [hand EXCEPT ![r] = <<s, pos[s] + 1>>] /\ UNCHANGED pos
      \/ pos' = [pos EXCEPT ![s] = @ + 1] /\ UNCHANGED hand
  BY DEF Broker!Deliver, Broker!Taken
<1>3. \A z \in Sessions : pos[z] \in Nat
  BY DEF Inv, ChannelInv, ChannelTypes
<1>4. ASSUME NEW z \in Sessions PROVE pos[z] <= pos'[z]
  <2>1. pos \in [Sessions -> Nat]
    BY DEF Inv, ChannelInv, ChannelTypes
  <2>2. pos'[z] \in {pos[z], pos[z] + 1}
    BY <1>2, <2>1
  <2> QED
    BY <1>3, <2>2
<1>5. ASSUME NEW p \in Runtimes, Only(p), hand'[p] # <<>>
      PROVE  owner[hand'[p][1]] = Broker!Me(p) /\ pos'[hand'[p][1]] + 1 = hand'[p][2]
  <2>1. p = r
    BY <1>1, <1>5, OnlyIs
  <2>2. hand'[r] = <<s, pos[s] + 1>> /\ UNCHANGED pos
    BY <1>1, <1>2, <1>5, <2>1 DEF Inv, ChannelInv, ChannelTypes
  <2> QED
    BY <1>1, <2>1, <2>2
<1> QED
  BY <1>1, <1>4, <1>5, CalmKeeps

LEMMA FoldFailsAlone ==
  ASSUME Inv, ChannelTypes', NEW r \in Runtimes, Broker!FoldFails(r) PROVE AloneInv'
<1>1. /\ UNCHANGED <<processLife, members, owner, phase, code, folded, deaths, moves>>
      /\ Working(r) /\ hand[r] # <<>> /\ Broker!Answered(r, FALSE)
  BY DEF Broker!FoldFails, Working, Broker!Idle
<1>2. /\ hand'[r] = <<>> /\ \A q \in Runtimes \ {r} : hand'[q] = hand[q]
      /\ \A z \in Sessions : pos[z] <= pos'[z]
  BY <1>1, AnsweredIs DEF Inv
<1>3. \A p \in Runtimes : Only(p) => hand'[p] = <<>>
  BY <1>1, <1>2, OnlyIs
<1> QED
  BY <1>1, <1>2, <1>3, CalmKeeps

LEMMA FoldAlone ==
  ASSUME Inv, ChannelTypes', NEW r \in Runtimes, Broker!Fold(r) PROVE AloneInv'
<1>1. /\ UNCHANGED <<topic, committed, processLife, members, owner, phase, code, deaths, moves>>
      /\ Working(r) /\ hand[r] # <<>> /\ Broker!Answered(r, TRUE)
      /\ folded' = folded \cup {<<hand[r], Broker!Me(r)>>}
  BY DEF Broker!Fold, Working, Broker!Idle
<1>2. /\ hand'[r] = <<>> /\ \A q \in Runtimes \ {r} : hand'[q] = hand[q]
      /\ \A z \in Sessions : pos[z] <= pos'[z]
  BY <1>1, AnsweredIs DEF Inv
<1>3. LivesFit'
  BY <1>1 DEF Inv, AloneInv, LivesFit, Working, Broker!Me, ChannelInv, ChannelTypes
<1>4. DeadFit'
  BY <1>1 DEF Inv, AloneInv, DeadFit, Dead, Broker!Me
<1>5. ASSUME NEW p \in Runtimes, Only(p) PROVE AloneFits(p)'
  <2>1. p = r
    BY <1>1, <1>5, OnlyIs
  <2>2. AloneKeeps(p) /\ AloneGoesOn(p)
    BY <1>5 DEF Inv, AloneInv, AloneFits
  <2>3. hand[r][1] \in Sessions /\ hand[r][2] \in Nat
    BY <1>1, HandIs DEF Inv, ChannelInv
  <2>4. pos \in [Sessions -> Nat] /\ pos' \in [Sessions -> Nat]
    BY DEF Inv, ChannelInv, ChannelTypes
  <2>5. \A f \in folded : f[1][1] \in Sessions /\ f[1][2] \in Nat
    BY FoldIs DEF Inv, ChannelInv
  <2>6. ASSUME moves = 0, deaths < 2
        PROVE  /\ owner[hand[r][1]] = Broker!Me(r) /\ pos[hand[r][1]] + 1 = hand[r][2]
               /\ pos'[hand[r][1]] = hand[r][2]
    <3>1. owner[hand[r][1]] = Broker!Me(r) /\ pos[hand[r][1]] + 1 = hand[r][2]
      BY <1>1, <2>1, <2>2, <2>6 DEF AloneKeeps
    <3>2. pos' = [pos EXCEPT ![hand[r][1]] = @ + 1]
      BY <1>1, <3>1 DEF Broker!Answered, Broker!Taken
    <3> QED
      BY <2>3, <2>4, <3>1, <3>2
  <2>7. \A f \in folded' : f \in folded \/ (f[1] = hand[r] /\ f[2] = Broker!Me(r) /\ f = <<hand[r], Broker!Me(r)>>)
    BY <1>1
  <2>8. \A f \in folded : f[1][2] <= pos[f[1][1]] => f[1][2] <= pos'[f[1][1]]
    BY <1>2, <2>4, <2>5
  <2>9. AloneKeeps(p)'
    <3> SUFFICES ASSUME moves = 0, deaths < 2
                 PROVE  /\ hand'[r] = <<>>
                        /\ \A f \in folded' : f[2] = Broker!Me(r) => owner[f[1][1]] = Broker!Me(r) /\ f[1][2] <= pos'[f[1][1]]
      BY <1>1, <2>1 DEF AloneKeeps, Working, Broker!Me
    <3>1. \A f \in folded : f[2] = Broker!Me(r) => owner[f[1][1]] = Broker!Me(r) /\ f[1][2] <= pos'[f[1][1]]
      BY <1>1, <2>1, <2>2, <2>8 DEF AloneKeeps
    <3>2. owner[hand[r][1]] = Broker!Me(r) /\ hand[r][2] <= pos'[hand[r][1]]
      BY <2>3, <2>6
    <3> QED
      BY <1>2, <2>7, <3>1, <3>2
  <2>10. AloneGoesOn(p)'
    <3> SUFFICES ASSUME deaths = 0
                 PROVE  /\ moves = 0
                        /\ \A f \in folded' : owner[f[1][1]] = Broker!Me(r) /\ f[1][2] <= pos'[f[1][1]]
                        /\ \A f, g \in folded' : f[1] = g[1] => f = g
      BY <1>1, <2>1 DEF AloneGoesOn, Working, Broker!Me
    <3>1. /\ moves = 0
          /\ \A f \in folded : owner[f[1][1]] = Broker!Me(r) /\ f[1][2] <= pos[f[1][1]]
          /\ \A f, g \in folded : f[1] = g[1] => f = g
      BY <1>1, <2>1, <2>2 DEF AloneGoesOn
    <3>2. owner[hand[r][1]] = Broker!Me(r) /\ hand[r][2] <= pos'[hand[r][1]] /\ pos[hand[r][1]] + 1 = hand[r][2]
      BY <2>3, <2>6, <3>1
    <3>3. \A f \in folded : f[1] # hand[r]
      BY <2>3, <2>4, <3>1, <3>2
    <3> QED
      BY <2>7, <2>8, <3>1, <3>2, <3>3
  <2> QED
    BY <2>9, <2>10 DEF AloneFits
<1> QED
  BY <1>1, <1>3, <1>4, <1>5 DEF AloneInv, Only

LEMMA StopAlone == ASSUME Inv, NEW r \in Runtimes, Broker!Stop(r) PROVE AloneInv'
<1>1. /\ UNCHANGED <<topic, committed, pos, hand, processLife, members, owner, code, folded, deaths, moves>>
      /\ phase[r] = "up" /\ phase'[r] = "closing" /\ \A q \in Runtimes \ {r} : phase'[q] = phase[q]
  BY DEF Broker!Stop, Inv, ChannelInv, ChannelTypes
<1>2. LivesFit' /\ UNCHANGED <<folded, processLife>>
  BY <1>1, FoldIs DEF Inv, ChannelInv, AloneInv, LivesFit, Broker!Me
<1>3. \A m \in members : m[1] \in Runtimes
  BY DEF Inv, ChannelInv, ChannelTypes, Processes
<1>4. DeadFit'
  BY <1>1, <1>3 DEF Inv, AloneInv, DeadFit, Dead, Broker!Me
<1>5. ASSUME NEW p \in Runtimes, Only(p) PROVE AloneFits(p)'
  <2>1. AloneFits(p)
    BY <1>5 DEF Inv, AloneInv
  <2>2. Working(p)' = Working(p)
    BY <1>1 DEF Working
  <2> QED
    BY <1>1, <2>1, <2>2 DEF AloneFits, AloneKeeps, AloneGoesOn, Broker!Me, Broker!From
<1> QED
  BY <1>1, <1>2, <1>4, <1>5 DEF AloneInv, Only

LEMMA AskAlone == ASSUME Inv, NEW r \in Runtimes, Broker!Ask(r) PROVE AloneInv'
<1>1. /\ UNCHANGED <<topic, committed, pos, hand, processLife, members, owner, folded, deaths, moves>>
      /\ phase[r] = "started" /\ \A q \in Runtimes \ {r} : phase'[q] = phase[q] /\ code'[q] = code[q]
      /\ (phase'[r] = "down" /\ code'[r] = 1) \/ (phase'[r] = "asked" /\ code'[r] = code[r])
  BY DEF Broker!Ask, Inv, ChannelInv, ChannelTypes
<1>2. /\ processLife[r] # 0 /\ code[r] # 0 /\ Broker!Me(r) \notin members
      /\ \A f \in folded : f[2] = Broker!Me(f[2][1]) => f[2][1] # r
  BY <1>1 DEF Inv, AloneInv, LivesFit, ChannelInv, MembersFit
<1>3. LivesFit'
  BY <1>1, <1>2, FoldIs DEF Inv, ChannelInv, AloneInv, LivesFit, Broker!Me
<1>4. \A m \in members : m[1] \in Runtimes
  BY DEF Inv, ChannelInv, ChannelTypes, Processes
<1>5. \A m \in members : Dead(m)' <=> Dead(m)
  <2> SUFFICES ASSUME NEW m \in members PROVE Dead(m)' <=> Dead(m)
    OBVIOUS
  <2>1. CASE m[1] = r
    BY <1>1, <1>2, <2>1 DEF Dead, Broker!Me
  <2>2. CASE m[1] # r
    BY <1>1, <1>4, <2>2 DEF Dead, Broker!Me
  <2> QED
    BY <2>1, <2>2
<1>6. DeadFit'
  BY <1>1, <1>5 DEF Inv, AloneInv, DeadFit
<1>7. ASSUME NEW p \in Runtimes, Only(p) PROVE AloneFits(p)'
  <2>1. AloneKeeps(p) /\ AloneGoesOn(p)
    BY <1>7 DEF Inv, AloneInv, AloneFits
  <2>2. p = r /\ ~Working(r) /\ ~Working(r)' /\ hand[r] = <<>>
    BY <1>1, <1>7, OnlyIs DEF Working, Inv, ChannelInv, HandsFit
  <2>3. code'[r] # 0
    BY <1>1, <1>2
  <2>4. AloneKeeps(p)'
    BY <1>1, <2>2, <2>3 DEF AloneKeeps
  <2>5. AloneGoesOn(p)'
    BY <1>1, <2>1, <2>2 DEF AloneGoesOn, Broker!From
  <2> QED
    BY <2>4, <2>5 DEF AloneFits
<1> QED
  BY <1>1, <1>3, <1>6, <1>7 DEF AloneInv, Only

\* With no death every member of a group of one is the life that runs.
LEMMA NobodyDead ==
  ASSUME Inv, NEW p \in Runtimes, Only(p), deaths = 0, NEW m \in members
  PROVE  m = Broker!Me(p) /\ phase[p] # "down"
<1>1. ~Dead(m) /\ m[1] = p
  BY OnlyIs DEF Inv, AloneInv, DeadFit
<1> QED
  BY <1>1 DEF Dead

LEMMA MoveAlone == ASSUME Inv, Broker!Move PROVE AloneInv'
<1>1. /\ UNCHANGED <<members, processLife, phase, code, folded, hand, deaths>> /\ moves' = moves + 1
  BY DEF Broker!Move
<1>2. PICK m \in members, n \in members : m # n
  BY DEF Broker!Move
<1>3. LivesFit' /\ DeadFit'
  BY <1>1 DEF Inv, AloneInv, LivesFit, DeadFit, Dead, Broker!Me
<1>4. ASSUME NEW p \in Runtimes, Only(p) PROVE AloneFits(p)'
  <2>1. deaths # 0
    BY <1>2, <1>4, NobodyDead
  <2>2. moves' # 0
    BY <1>1 DEF Inv, ChannelInv, ChannelTypes
  <2> QED
    BY <1>1, <2>1, <2>2 DEF AloneFits, AloneKeeps, AloneGoesOn
<1> QED
  BY <1>1, <1>3, <1>4 DEF AloneInv, Only

LEMMA ExpireAlone ==
  ASSUME Broker!ChannelAssumption, Inv, NEW m, Broker!Expire(m) PROVE AloneInv'
<1>1. /\ UNCHANGED <<topic, processLife, phase, code, folded, hand, deaths, moves>>
      /\ m \in members /\ Dead(m) /\ members' = members \ {m}
  BY DEF Broker!Expire, Dead, Broker!Me
<1>2. committed' = committed
  BY DEF Broker!Expire, Broker!Rebalanced
<1>3. /\ owner' \in [Sessions -> members' \cup {None}]
      /\ \A s \in Sessions : (owner'[s] = None <=> members' = {}) /\ (owner'[s] = owner[s] => pos'[s] = pos[s])
  <2>1. Broker!Rebalanced(members', committed)
    BY DEF Broker!Expire
  <2>2. committed \in [Sessions -> Nat \cup {None}]
    BY DEF Inv, ChannelInv, ChannelTypes
  <2> QED
    BY <2>1, <2>2, RebalanceFits DEF Inv, ChannelInv
<1>4. LivesFit' /\ DeadFit'
  BY <1>1 DEF Inv, AloneInv, LivesFit, DeadFit, Dead, Broker!Me
<1>5. ASSUME NEW p \in Runtimes, Only(p) PROVE AloneFits(p)'
  <2>1. AloneKeeps(p)
    BY <1>5 DEF Inv, AloneInv, AloneFits
  <2>2. deaths # 0
    BY <1>1 DEF Inv, AloneInv, DeadFit
  <2>3. ASSUME deaths < 2, Working(p), NEW s \in Sessions, owner[s] = Broker!Me(p)
        PROVE  owner'[s] = Broker!Me(p) /\ pos'[s] = pos[s]
    <3>1. Broker!Me(p) \in members /\ Broker!Me(p) # m
      BY <1>1, <2>3 DEF Inv, ChannelInv, MembersFit, Dead, Broker!Me, Working
    <3>2. members' = {Broker!Me(p)}
      <4>1. ASSUME NEW n \in members, n # m PROVE n = Broker!Me(p)
        <5>1. ~Dead(n) /\ n[1] = p
          BY <1>1, <1>5, <2>3, <4>1, OnlyIs DEF Inv, AloneInv, DeadFit
        <5> QED
          BY <4>1, <5>1 DEF Dead
      <4> QED
        BY <1>1, <3>1, <4>1
    <3>3. owner'[s] = Broker!Me(p)
      BY <1>3, <3>2
    <3> QED
      BY <1>3, <2>3, <3>3
  <2>4. AloneKeeps(p)'
    <3> SUFFICES ASSUME moves = 0, deaths < 2
                 PROVE  /\ hand[p] # <<>> => owner'[hand[p][1]] = Broker!Me(p) /\ pos'[hand[p][1]] + 1 = hand[p][2]
                        /\ \A f \in folded : f[2] = Broker!Me(p) =>
                             IF Working(p) THEN owner'[f[1][1]] = Broker!Me(p) /\ f[1][2] <= pos'[f[1][1]]
                             ELSE code[p] = 0 => committed[f[1][1]] # None /\ f[1][2] <= committed[f[1][1]]
      BY <1>1, <1>2 DEF AloneKeeps, Working, Broker!Me
    <3>1. hand[p] # <<>> => owner'[hand[p][1]] = Broker!Me(p) /\ pos'[hand[p][1]] + 1 = hand[p][2]
      BY <2>1, <2>3, HandIs DEF AloneKeeps, Inv, ChannelInv, HandsFit
    <3>2. ASSUME NEW f \in folded, f[2] = Broker!Me(p), Working(p)
          PROVE  owner'[f[1][1]] = Broker!Me(p) /\ f[1][2] <= pos'[f[1][1]]
      <4>1. f[1][1] \in Sessions /\ owner[f[1][1]] = Broker!Me(p) /\ f[1][2] <= pos[f[1][1]]
        BY <3>2, <2>1, FoldIs DEF AloneKeeps, Inv, ChannelInv
      <4> QED
        BY <3>2, <4>1, <2>3
    <3>3. ASSUME NEW f \in folded, f[2] = Broker!Me(p), ~Working(p), code[p] = 0
          PROVE  committed[f[1][1]] # None /\ f[1][2] <= committed[f[1][1]]
      BY <3>3, <2>1 DEF AloneKeeps
    <3> QED
      BY <3>1, <3>2, <3>3
  <2> QED
    BY <1>1, <2>2, <2>4 DEF AloneFits, AloneGoesOn
<1> QED
  BY <1>1, <1>4, <1>5 DEF AloneInv, Only

LEMMA StartAlone ==
  ASSUME Broker!ChannelAssumption, Inv, NEW r \in Runtimes, Broker!Start(r) PROVE AloneInv'
<1>1. /\ UNCHANGED <<topic, committed, pos, hand, members, owner, folded, deaths, moves>>
      /\ phase[r] = "down" /\ phase'[r] = "started" /\ code'[r] = None
      /\ \A q \in Runtimes \ {r} : phase'[q] = phase[q] /\ code'[q] = code[q] /\ processLife'[q] = processLife[q]
      /\ processLife[r] \in Nat /\ processLife'[r] = processLife[r] + 1
  BY DEF Broker!Start, Inv, ChannelInv, ChannelTypes
<1>2. \A m \in members : m[1] \in Runtimes /\ m[2] \in Nat /\ m[2] <= processLife[m[1]]
  BY DEF Inv, ChannelInv, ChannelTypes, MembersFit, Processes
<1>3. \A f \in folded : f[2] = <<f[2][1], f[2][2]>> /\ f[2][1] \in Runtimes /\ f[2][2] \in Nat
                        /\ f[2][2] <= processLife[f[2][1]]
  BY FoldIs DEF Inv, ChannelInv, AloneInv, LivesFit
<1>4. \A f \in folded : f[2] # <<r, processLife[r] + 1>>
  BY <1>1, <1>3
<1>5. LivesFit'
  <2>1. \A q \in Runtimes : processLife'[q] = 0 => phase'[q] = "down" /\ code'[q] = None
    BY <1>1 DEF Inv, AloneInv, LivesFit
  <2>2. ASSUME NEW f \in folded
        PROVE  /\ f[2][2] <= processLife'[f[2][1]]
               /\ f[2] = <<f[2][1], processLife'[f[2][1]]>> => phase'[f[2][1]] \notin {"started", "asked"}
    <3>1. CASE f[2][1] = r
      BY <1>1, <1>3, <1>4, <3>1
    <3>2. CASE f[2][1] # r
      BY <1>1, <1>3, <3>2 DEF Inv, AloneInv, LivesFit, Broker!Me
    <3> QED
      BY <3>1, <3>2
  <2>3. None # 0
    BY DEF Broker!ChannelAssumption
  <2>4. \A q \in Runtimes : code'[q] = 0 => phase'[q] = "down" /\ <<q, processLife'[q]>> \notin members
    BY <1>1, <2>3 DEF Inv, AloneInv, LivesFit, Broker!Me
  <2> QED
    BY <1>1, <2>1, <2>2, <2>4 DEF LivesFit, Broker!Me
<1>6. ASSUME NEW m \in members, Dead(m)' PROVE Dead(m)
  <2>1. CASE m[1] = r
    BY <1>1, <2>1 DEF Dead
  <2>2. CASE m[1] # r
    BY <1>1, <1>2, <1>6, <2>2 DEF Dead, Broker!Me
  <2> QED
    BY <2>1, <2>2
<1>7. DeadFit'
  BY <1>1, <1>6 DEF Inv, AloneInv, DeadFit
<1>8. ASSUME NEW p \in Runtimes, Only(p)' PROVE AloneFits(p)'
  <2>1. p = r
    <3>1. processLife'[r] # 0
      BY <1>1
    <3> QED
      BY <1>8, <3>1 DEF Only
  <2>2. Only(p)
    BY <1>1, <1>8, <2>1 DEF Only
  <2>3. AloneKeeps(p) /\ AloneGoesOn(p) /\ ~Working(r) /\ ~Working(r)' /\ hand[r] = <<>>
    BY <1>1, <2>2 DEF Inv, AloneInv, AloneFits, Working, ChannelInv, HandsFit
  <2>4. AloneKeeps(p)'
    BY <1>1, <1>4, <2>1, <2>3 DEF AloneKeeps, Broker!Me
  <2>5. AloneGoesOn(p)'
    BY <1>1, <2>1, <2>3 DEF AloneGoesOn, Broker!From
  <2> QED
    BY <2>4, <2>5 DEF AloneFits
<1> QED
  BY <1>5, <1>7, <1>8 DEF AloneInv

LEMMA JoinAlone ==
  ASSUME Broker!ChannelAssumption, Inv, NEW r \in Runtimes, Broker!Join(r) PROVE AloneInv'
<1>1. /\ UNCHANGED <<topic, processLife, code, folded, hand, deaths, moves>>
      /\ members' = members \cup {Broker!Me(r)} /\ committed' = committed
      /\ phase[r] = "asked" /\ phase'[r] = "up" /\ \A q \in Runtimes \ {r} : phase'[q] = phase[q]
  BY DEF Broker!Join, Broker!Rebalanced, Inv, ChannelInv, ChannelTypes
<1>2. /\ owner' \in [Sessions -> members' \cup {None}]
      /\ \A s \in Sessions :
           /\ owner'[s] = None <=> members' = {}
           /\ pos'[s] = IF owner'[s] = owner[s] THEN pos[s] ELSE Broker!From(s)
  <2>1. Broker!Rebalanced(members', committed)
    BY DEF Broker!Join
  <2>2. committed \in [Sessions -> Nat \cup {None}]
    BY DEF Inv, ChannelInv, ChannelTypes
  <2> QED
    BY <2>1, <2>2, RebalanceFits DEF Inv, ChannelInv, Broker!From
<1>3. /\ Broker!Me(r) \notin members /\ processLife[r] # 0 /\ code[r] # 0
      /\ \A f \in folded : f[2] = Broker!Me(f[2][1]) => f[2][1] # r
      /\ hand[r] = <<>>
  BY <1>1 DEF Inv, AloneInv, LivesFit, ChannelInv, MembersFit, HandsFit, Working
<1>4. LivesFit'
  BY <1>1, <1>3, FoldIs DEF Inv, ChannelInv, AloneInv, LivesFit, Broker!Me
<1>5. \A m \in members : m[1] \in Runtimes
  BY DEF Inv, ChannelInv, ChannelTypes, Processes
<1>6. ASSUME NEW m \in members', Dead(m)' PROVE m \in members /\ Dead(m)
  <2>1. m # Broker!Me(r)
    BY <1>1, <1>6 DEF Dead, Broker!Me
  <2>2. CASE m[1] = r
    BY <1>1, <2>1, <2>2 DEF Dead, Broker!Me
  <2>3. CASE m[1] # r
    BY <1>1, <1>5, <1>6, <2>1, <2>3 DEF Dead, Broker!Me
  <2> QED
    BY <2>2, <2>3
<1>7. DeadFit'
  BY <1>1, <1>6 DEF Inv, AloneInv, DeadFit
<1>8. ASSUME NEW p \in Runtimes, Only(p) PROVE AloneFits(p)'
  <2>1. AloneGoesOn(p) /\ p = r
    BY <1>1, <1>8, OnlyIs DEF Inv, AloneInv, AloneFits
  <2>2. \A f \in folded : f[2][1] = r /\ f[2] # Broker!Me(r)
    BY <1>3, <1>8, <2>1, OnlyIs
  <2>3. AloneKeeps(p)'
    BY <1>1, <1>3, <2>1, <2>2 DEF AloneKeeps, Broker!Me
  <2>4. ASSUME deaths = 0, NEW s \in Sessions
        PROVE  owner'[s] = Broker!Me(r) /\ pos'[s] = Broker!From(s)
    <3>1. members = {}
      BY <1>3, <1>8, <2>1, <2>4, NobodyDead
    <3>2. owner[s] = None /\ owner'[s] = Broker!Me(r)
      BY <1>1, <1>2, <3>1 DEF Inv, ChannelInv, MembersFit
    <3>3. owner'[s] # owner[s]
      BY <1>1, <1>2, <3>2
    <3> QED
      BY <1>2, <3>2, <3>3
  <2>5. AloneGoesOn(p)'
    <3> SUFFICES ASSUME deaths = 0
                 PROVE  /\ moves = 0
                        /\ \A f \in folded : owner'[f[1][1]] = Broker!Me(r) /\ f[1][2] <= pos'[f[1][1]]
                        /\ \A f, g \in folded : f[1] = g[1] => f = g
      BY <1>1, <2>1 DEF AloneGoesOn, Working, Broker!Me
    <3>1. /\ moves = 0 /\ \A f \in folded : f[1][2] <= Broker!From(f[1][1])
          /\ \A f, g \in folded : f[1] = g[1] => f = g
      BY <1>1, <2>1 DEF AloneGoesOn, Working
    <3>2. \A f \in folded : f[1][1] \in Sessions
      BY FoldIs DEF Inv, ChannelInv
    <3> QED
      BY <2>4, <3>1, <3>2
  <2> QED
    BY <2>3, <2>5 DEF AloneFits
<1> QED
  BY <1>1, <1>4, <1>7, <1>8 DEF AloneInv, Only

LEMMA CloseAlone ==
  ASSUME Broker!ChannelAssumption, Inv, NEW r \in Runtimes, Broker!CloseDone(r) PROVE AloneInv'
<1>1. /\ UNCHANGED <<topic, processLife, folded, deaths, moves>>
      /\ members' = members \ {Broker!Me(r)} /\ committed' = Broker!Offsets(r)
      /\ phase[r] = "closing" /\ Broker!Ended(r, 0)
  BY DEF Broker!CloseDone, Broker!Rebalanced, Broker!Ended
<1>2. /\ phase'[r] = "down" /\ code'[r] = 0 /\ hand'[r] = <<>>
      /\ \A q \in Runtimes \ {r} : phase'[q] = phase[q] /\ hand'[q] = hand[q] /\ code'[q] = code[q]
  BY <1>1, EndedIs DEF Inv
<1>3. processLife[r] # 0
  BY <1>1 DEF Inv, AloneInv, LivesFit
<1>4. LivesFit'
  BY <1>1, <1>2, <1>3, FoldIs DEF Inv, ChannelInv, AloneInv, LivesFit, Broker!Me
<1>5. \A m \in members : m[1] \in Runtimes
  BY DEF Inv, ChannelInv, ChannelTypes, Processes
<1>6. ASSUME NEW m \in members', Dead(m)' PROVE m \in members /\ Dead(m)
  <2>1. CASE m[1] = r
    BY <1>1, <2>1 DEF Dead
  <2>2. CASE m[1] # r
    BY <1>1, <1>2, <1>5, <1>6, <2>2 DEF Dead, Broker!Me
  <2> QED
    BY <2>1, <2>2
<1>7. DeadFit'
  BY <1>1, <1>6 DEF Inv, AloneInv, DeadFit
<1>8. ASSUME NEW p \in Runtimes, Only(p) PROVE AloneFits(p)'
  <2>1. AloneKeeps(p) /\ AloneGoesOn(p) /\ p = r /\ Working(r) /\ ~Working(r)'
    BY <1>1, <1>2, <1>8, OnlyIs DEF Inv, AloneInv, AloneFits, Working
  <2>2. \A f \in folded : f[1][1] \in Sessions
    BY FoldIs DEF Inv, ChannelInv
  <2>3. \A s \in Sessions : pos[s] \in Nat /\ None \notin Nat
    BY DEF Inv, ChannelInv, ChannelTypes, Broker!ChannelAssumption
  <2>4. \A s \in Sessions : owner[s] = Broker!Me(r) => committed'[s] = pos[s] /\ committed'[s] # None
    BY <1>1, <2>3 DEF Broker!Offsets, Broker!Mine
  <2>5. AloneKeeps(p)'
    <3> SUFFICES ASSUME moves = 0, deaths < 2, NEW f \in folded, f[2] = Broker!Me(r)
                 PROVE  committed'[f[1][1]] # None /\ f[1][2] <= committed'[f[1][1]]
      BY <1>1, <1>2, <2>1 DEF AloneKeeps, Broker!Me
    <3>1. owner[f[1][1]] = Broker!Me(r) /\ f[1][2] <= pos[f[1][1]]
      BY <2>1 DEF AloneKeeps
    <3> QED
      BY <2>2, <2>4, <3>1
  <2>6. AloneGoesOn(p)'
    <3> SUFFICES ASSUME deaths = 0
                 PROVE  /\ moves = 0
                        /\ \A f \in folded : f[1][2] <= Broker!From(f[1][1])'
                        /\ \A f, g \in folded : f[1] = g[1] => f = g
      BY <1>1, <2>1 DEF AloneGoesOn
    <3>1. /\ moves = 0
          /\ \A f \in folded : owner[f[1][1]] = Broker!Me(r) /\ f[1][2] <= pos[f[1][1]]
          /\ \A f, g \in folded : f[1] = g[1] => f = g
      BY <1>1, <2>1 DEF AloneGoesOn
    <3>2. \A f \in folded : Broker!From(f[1][1])' = pos[f[1][1]]
      BY <2>2, <2>4, <3>1 DEF Broker!From
    <3> QED
      BY <3>1, <3>2
  <2> QED
    BY <2>5, <2>6 DEF AloneFits
<1> QED
  BY <1>1, <1>4, <1>7, <1>8 DEF AloneInv, Only

LEMMA GoneAlone ==
  ASSUME Inv, NEW r \in Runtimes, phase[r] # "down", Broker!Gone(r), deaths' = deaths + 1 PROVE AloneInv'
<1>1. /\ UNCHANGED <<topic, committed, pos, owner, members, processLife, folded, moves>>
      /\ Broker!Ended(r, 1)
  BY DEF Broker!Gone, Broker!Ended
<1>2. /\ phase'[r] = "down" /\ code'[r] = 1 /\ hand'[r] = <<>>
      /\ \A q \in Runtimes \ {r} : phase'[q] = phase[q] /\ hand'[q] = hand[q] /\ code'[q] = code[q]
  BY <1>1, EndedIs DEF Inv
<1>3. processLife[r] # 0 /\ deaths \in Nat
  BY DEF Inv, AloneInv, LivesFit, ChannelInv, ChannelTypes
<1>4. LivesFit'
  BY <1>1, <1>2, <1>3, FoldIs DEF Inv, ChannelInv, AloneInv, LivesFit, Broker!Me
<1>5. \A m \in members : m[1] \in Runtimes
  BY DEF Inv, ChannelInv, ChannelTypes, Processes
<1>6. ASSUME NEW m \in members, Dead(m)', deaths' < 2 PROVE m = Broker!Me(r)
  <2>1. deaths = 0
    BY <1>3, <1>6
  <2>2. ~Dead(m)
    BY <2>1 DEF Inv, AloneInv, DeadFit
  <2> QED
    BY <1>1, <1>2, <1>5, <1>6, <2>2 DEF Dead, Broker!Me
<1>7. DeadFit'
  <2>1. deaths' # 0
    BY <1>3
  <2> QED
    BY <1>1, <1>6, <2>1 DEF DeadFit, Dead
<1>8. ASSUME NEW p \in Runtimes, Only(p) PROVE AloneFits(p)'
  <2>1. p = r /\ ~Working(r)' /\ deaths' # 0 /\ code'[r] # 0
    BY <1>2, <1>3, <1>8, OnlyIs DEF Working
  <2> QED
    BY <1>2, <2>1 DEF AloneFits, AloneKeeps, AloneGoesOn
<1> QED
  BY <1>1, <1>4, <1>7, <1>8 DEF AloneInv, Only

-----------------------------------------------------------------------------
(* Together *)

LEMMA ChannelStarts == ASSUME Broker!ChannelAssumption, Broker!Init PROVE Inv
<1>1. <<>> \in Seq(Nat) /\ <<>> \in Seq(Messages \X (Sessions \X Nat)) /\ Len(<<>>) = 0
  BY EmptySeq
<1>2. /\ topic = [s \in Sessions |-> <<>>] /\ committed = [s \in Sessions |-> None]
      /\ pos = [s \in Sessions |-> 0] /\ owner = [s \in Sessions |-> None] /\ members = {}
      /\ phase = [r \in Runtimes |-> "down"] /\ processLife = [r \in Runtimes |-> 0]
      /\ processAsked = [r \in Runtimes |-> {}] /\ hand = [r \in Runtimes |-> <<>>]
      /\ seenBy = [r \in Runtimes |-> Broker!NothingSeen] /\ lapsed = [r \in Runtimes |-> {}]
      /\ belief = [r \in Runtimes |-> <<>>]
      /\ code = [r \in Runtimes |-> None]
      /\ folded = {} /\ channelLetGo = {} /\ deaths = 0 /\ moves = 0
  BY DEF Broker!Init, Broker!Idle
<1>3. ChannelTypes
  <2>1. Broker!NothingSeen \in Memories
    BY <1>1 DEF Memories, Broker!NothingSeen
  <2> QED
    BY <1>1, <1>2, <2>1 DEF ChannelTypes
<1>4. None \notin Processes /\ None # 0
  BY DEF Broker!ChannelAssumption, Processes
<1>5. MembersFit /\ OffsetsFit /\ HandsFit
  BY <1>1, <1>2 DEF MembersFit, OffsetsFit, HandsFit, Working, Broker!Me
<1>6. \A r \in Runtimes : belief[r] = <<>> /\ hand[r] = <<>>
  BY <1>2
<1>7. \A i : i \notin 1..Len(<<>>) /\ i \notin DOMAIN <<>>
  OBVIOUS
<1>8. BeliefsFit /\ OrderFits
  BY <1>6, <1>7 DEF BeliefsFit, OrderFits, HandIsNewest, Broker!OnceInALife, Broker!InTopicOrder
<1>9. CoverFits
  <2>1. \A r \in Runtimes, s \in Sessions : owner[s] # Broker!Me(r)
    BY <1>2 DEF Broker!Me, Broker!ChannelAssumption
  <2> QED
    BY <1>6, <1>7, <2>1 DEF CoverFits
<1>10. LivesFit /\ DeadFit
  BY <1>2, <1>4 DEF LivesFit, DeadFit
<1>11. \A p \in Runtimes : AloneFits(p)
  BY <1>2 DEF AloneFits, AloneKeeps, AloneGoesOn
<1> QED
  BY <1>3, <1>5, <1>8, <1>9, <1>10, <1>11 DEF Inv, ChannelInv, AloneInv

\* What is quiet keeps all of it.
LEMMA QuietStep == ASSUME ChannelInv, Fits', Quiet PROVE ChannelInv'
BY QuietKeeps DEF Fits, ChannelInv

LEMMA ChannelSteps ==
  ASSUME Broker!ChannelAssumption, Inv, [Broker!Next]_(Broker!vars) PROVE Inv'
<1>1. ChannelInv
  BY DEF Inv
<1>2. ASSUME NEW s \in Sessions, Broker!Publish(s) PROVE Inv'
  <2>1. ChannelInv'
    BY <1>1, <1>2, PublishQuiet, QuietStep
  <2> QED
    BY <1>2, <2>1, PublishAlone DEF Inv, ChannelInv
<1>3. ASSUME NEW r \in Runtimes, Broker!Start(r) PROVE Inv'
  BY <1>1, <1>3, StartKeeps, StartAlone DEF Inv
<1>4. ASSUME NEW r \in Runtimes, Broker!Ask(r) PROVE Inv'
  BY <1>1, <1>4, AskQuiet, QuietStep, AskAlone DEF Inv
<1>5. ASSUME NEW r \in Runtimes, Broker!Join(r) PROVE Inv'
  <2>1. processLife[r] \in Nat /\ processLife[r] # 0
    BY <1>5 DEF Inv, AloneInv, LivesFit, ChannelInv, ChannelTypes, Broker!Join
  <2>2. processLife[r] > 0
    BY <2>1
  <2> QED
    BY <1>1, <1>5, <2>2, JoinQuiet, QuietStep, JoinAlone DEF Inv
<1>6. ASSUME NEW r \in Runtimes, Broker!Stop(r) PROVE Inv'
  BY <1>1, <1>6, StopQuiet, QuietStep, StopAlone DEF Inv
<1>7. ASSUME NEW r \in Runtimes, Broker!CloseDone(r) PROVE Inv'
  BY <1>1, <1>7, CloseQuiet, QuietStep, CloseAlone DEF Inv
<1>8. ASSUME NEW r \in Runtimes, phase[r] # "down", Broker!Gone(r), deaths' = deaths + 1 PROVE Inv'
  BY <1>1, <1>8, GoneQuiet, QuietStep, GoneAlone DEF Inv
<1>9. ASSUME NEW r \in Runtimes, NEW s \in Sessions, Broker!Deliver(r, s) PROVE Inv'
  <2>1. ChannelInv'
    BY <1>1, <1>9, DeliverKeeps
  <2> QED
    BY <1>9, <2>1, DeliverAlone DEF Inv, ChannelInv
<1>10. ASSUME NEW r \in Runtimes, Broker!Fold(r) PROVE Inv'
  <2>1. ChannelInv'
    BY <1>1, <1>10, FoldKeeps
  <2> QED
    BY <1>10, <2>1, FoldAlone DEF Inv, ChannelInv
<1>11. ASSUME NEW r \in Runtimes, Broker!FoldFails(r) PROVE Inv'
  <2>1. ChannelInv'
    BY <1>1, <1>11, FoldFailsKeeps
  <2> QED
    BY <1>11, <2>1, FoldFailsAlone DEF Inv, ChannelInv
<1>12. ASSUME NEW r \in Runtimes, NEW s \in Sessions, Broker!Commit(r, s) PROVE Inv'
  <2>1. ChannelInv'
    BY <1>1, <1>12, CommitQuiet, QuietStep
  <2> QED
    BY <1>12, <2>1, CommitAlone DEF Inv, ChannelInv
<1>13. ASSUME NEW m \in members, Broker!Expire(m) PROVE Inv'
  BY <1>1, <1>13, ExpireQuiet, QuietStep, ExpireAlone DEF Inv
<1>14. ASSUME Broker!Move PROVE Inv'
  BY <1>1, <1>14, MoveQuiet, QuietStep, MoveAlone DEF Inv
<1>15. ASSUME UNCHANGED Broker!vars PROVE Inv'
  <2>1. UNCHANGED <<topic, committed, pos, owner, members, phase, processLife, processAsked, hand, seenBy,
                    lapsed, belief, code, folded, channelLetGo, deaths, moves>>
    BY <1>15 DEF Broker!vars
  <2>2. ChannelTypes'
    <3>1. ChannelTypes
      BY DEF Inv, ChannelInv
    <3> QED
      BY <2>1, <3>1 DEF ChannelTypes
  <2>3. MembersFit' /\ OffsetsFit'
    BY <2>1 DEF Inv, ChannelInv, MembersFit, OffsetsFit, Broker!Me, Working
  <2>4. HandsFit' /\ BeliefsFit'
    BY <2>1 DEF Inv, ChannelInv, HandsFit, BeliefsFit, Working, InTopic, Says, SeenBy
  <2>5. CoverFits' /\ OrderFits'
    BY <2>1 DEF Inv, ChannelInv, CoverFits, CoveredBy, OrderFits, HandIsNewest, Broker!OnceInALife,
                Broker!InTopicOrder, Broker!Me, Says, SeenBy
  <2>6. AloneInv'
    <3>1. AloneInv
      BY DEF Inv
    <3>2. LivesFit' /\ DeadFit'
      BY <2>1, <3>1 DEF AloneInv, LivesFit, DeadFit, Dead, Broker!Me
    <3>3. ASSUME NEW p \in Runtimes, Only(p)' PROVE AloneFits(p)'
      <4>1. AloneFits(p)
        BY <2>1, <3>1, <3>3 DEF AloneInv, Only
      <4>2. AloneKeeps(p)'
        BY <2>1, <4>1 DEF AloneFits, AloneKeeps, Working, Broker!Me
      <4>3. AloneGoesOn(p)'
        BY <2>1, <4>1 DEF AloneFits, AloneGoesOn, Working, Broker!Me, Broker!From
      <4> QED
        BY <4>2, <4>3 DEF AloneFits
    <3> QED
      BY <3>2, <3>3 DEF AloneInv
  <2> QED
    BY <2>2, <2>5, <2>6, <2>3, <2>4 DEF Inv, ChannelInv
<1>16. ASSUME NEW r \in Runtimes, Broker!EndAnyway(r) \/ Broker!Crash(r) PROVE Inv'
  BY <1>8, <1>16 DEF Broker!EndAnyway, Broker!Crash, Broker!Deadline
<1> QED
  BY <1>2, <1>3, <1>4, <1>5, <1>6, <1>7, <1>9, <1>10, <1>11, <1>12, <1>13, <1>14, <1>15, <1>16
     DEF Broker!Next, Broker!Consume

LEMMA ChannelDelivers == ASSUME Inv PROVE DeliveredOnceInOrder
<1>1. Broker!OnceInALife /\ Broker!InTopicOrder
  BY DEF Inv, ChannelInv, OrderFits
<1>2. Broker!SecondIsRefused
  BY DEF Inv, ChannelInv, ChannelTypes, Broker!SecondIsRefused
<1>3. ASSUME Broker!OneProcess PROVE \E p \in Runtimes : Only(p)
  BY <1>3 DEF Broker!OneProcess, Only
<1>4. Broker!CleanStopsRefoldNothing
  BY <1>3 DEF Broker!CleanStopsRefoldNothing, Inv, AloneInv, AloneFits, AloneGoesOn
<1>5. Broker!CleanExitLeftNothing
  <2> SUFFICES ASSUME NEW r \in Runtimes, code[r] = 0
               PROVE  /\ Broker!Me(r) \notin members
                      /\ Broker!OneProcess /\ moves = 0 /\ deaths < 2 =>
                           \A f \in folded : f[2] = Broker!Me(r) =>
                             committed[f[1][1]] # None /\ f[1][2] <= committed[f[1][1]]
    BY DEF Broker!CleanExitLeftNothing
  <2>1. Broker!Me(r) \notin members /\ ~Working(r)
    BY DEF Inv, AloneInv, LivesFit, Working
  <2>2. ASSUME Broker!OneProcess, moves = 0, deaths < 2, NEW f \in folded, f[2] = Broker!Me(r)
        PROVE  committed[f[1][1]] # None /\ f[1][2] <= committed[f[1][1]]
    <3>1. PICK p \in Runtimes : Only(p)
      BY <1>3, <2>2
    <3>2. p = r
      BY <2>2, <3>1, OnlyIs DEF Broker!Me
    <3>3. AloneKeeps(r)
      BY <3>1, <3>2 DEF Inv, AloneInv, AloneFits
    <3> QED
      BY <2>1, <2>2, <3>3 DEF AloneKeeps
  <2> QED
    BY <2>1, <2>2
<1> QED
  BY <1>1, <1>2, <1>4, <1>5 DEF DeliveredOnceInOrder

\* From the broker to the belief no life folds an event twice or out of the order of its partition, but
\* for what a lane let go and what the bounds of its memory made it forget, whatever those bounds are
\* (kafka.ts, publish; runtime.ts, fold; seen.ts); two share the group only if the broker named neither
\* (kafka.ts, refuseASecondRuntime); and a process alone that closes in time folds nothing twice and
\* leaves nothing behind (shutdown.ts).
THEOREM EventsAreDeliveredOnceInOrder ==
  ASSUME Broker!ChannelAssumption PROVE Broker!Spec => []DeliveredOnceInOrder
<1>1. Broker!Init => Inv
  BY ChannelStarts
<1>2. Inv /\ [Broker!Next]_(Broker!vars) => Inv'
  BY ChannelSteps
<1>3. Inv => DeliveredOnceInOrder
  BY ChannelDelivers
<1> QED
  BY <1>1, <1>2, <1>3, PTL DEF Broker!Spec

-----------------------------------------------------------------------------
(* The worker of the browser extension: what it sends was declared *)

\* A set of numbers has a least, and a bounded one a greatest.
LEMMA LeastNumber ==
  ASSUME NEW T \in SUBSET Nat, T # {}
  PROVE  \E i \in T : \A j \in T : i <= j
<1> DEFINE Below == {p \in Nat \X Nat : p[1] < p[2]}
<1>1. IsWellFoundedOn(Below, Nat)
  BY NatLessThanWellFounded DEF OpToRel
<1>2. \A j, k \in Nat : j < k => <<j, k>> \in Below
  OBVIOUS
<1> HIDE DEF Below
<1>3. PICK i \in T : \A j \in T : <<j, i>> \notin Below
  BY <1>1, WFMin
<1>4. \A j \in T : ~(j < i)
  BY <1>2, <1>3
<1> QED
  BY <1>4

LEMMA GreatestNumber ==
  ASSUME NEW n \in Nat, NEW D \in SUBSET (1..n), D # {}
  PROVE  \E i \in D : \A j \in D : j <= i
<1> DEFINE Back == {m \in Nat : n - m \in D}
<1>1. PICK i \in D : TRUE
  OBVIOUS
<1>2. Back \in SUBSET Nat /\ n - i \in Back
  OBVIOUS
<1>3. PICK least \in Back : \A m \in Back : least <= m
  BY <1>2, LeastNumber
<1>4. n - least \in D /\ least \in Nat
  BY <1>3
<1>5. \A j \in D : n - j \in Back
  OBVIOUS
<1>6. \A j \in D : j <= n - least
  <2> SUFFICES ASSUME NEW j \in D PROVE j <= n - least
    OBVIOUS
  <2>1. least <= n - j
    BY <1>3, <1>5
  <2> QED
    BY <1>4, <2>1
<1> QED
  BY <1>4, <1>6

LEMMA SomeLong ==
  ASSUME NEW A, NEW s \in Seq(A), Len(s) # 0
  PROVE  s # <<>>
BY EmptySeq

\* What is last when the first is taken off.
LEMMA LastOfTail ==
  ASSUME NEW A, NEW s \in Seq(A), s # <<>>
  PROVE  /\ Head(s) \in A /\ Head(s) = s[1] /\ Tail(s) \in Seq(A)
         /\ Len(s) = 1 => Tail(s) = <<>>
         /\ Tail(s) = <<>> => Head(s) = s[Len(s)]
         /\ Tail(s) # <<>> => Tail(s)[Len(Tail(s))] = s[Len(s)]
<1>1. Len(s) \in Nat /\ Len(s) # 0 /\ Head(s) = s[1] /\ Head(s) \in A /\ Tail(s) \in Seq(A)
      /\ Len(Tail(s)) = Len(s) - 1
      /\ \A i \in 1..Len(Tail(s)) : Tail(s)[i] = s[i + 1]
  BY EmptySeq, HeadTailProperties
<1>2. Len(Tail(s)) = 0 <=> Tail(s) = <<>>
  BY <1>1, EmptySeq
<1>3. Tail(s) = <<>> => Len(s) = 1
  BY <1>1, <1>2
<1>4. ASSUME Tail(s) # <<>> PROVE Tail(s)[Len(Tail(s))] = s[Len(s)]
  <2>1. Len(Tail(s)) \in 1..Len(Tail(s)) /\ Len(Tail(s)) + 1 = Len(s)
    BY <1>1, <1>2, <1>4
  <2> QED
    BY <1>1, <2>1
<1> QED
  BY <1>1, <1>2, <1>3, <1>4

\* The declarations before an item, and what the last of them says.
Items == [declares : BOOLEAN, layers : SUBSET Worker!Layers, excused : BOOLEAN]
\* What may be put in line: what is allowed, unless the declaration of that was dropped, and what is excused.
Observations(allowed, silent) ==
  {item \in Items : ~item.declares /\ (item.excused \/ (~silent /\ item.layers \subseteq allowed))}
Declared(box, n) == {i \in 1..(n - 1) : box[i].declares}
Latest(D) == CHOOSE i \in D : \A j \in D : j <= i
Ahead(box, before, n) == IF Declared(box, n) = {} THEN before ELSE box[Latest(Declared(box, n))].layers
Follows(box, before) ==
  \A i \in 1..Len(box) : ~box[i].declares /\ ~box[i].excused => box[i].layers \subseteq Ahead(box, before, i)

\* Of a queue: what is observed in it was declared before it, and this is declared last unless
\* the queue dropped that declaration and is silent on it.
Told(box, before, allowed, silent) ==
  /\ box \in Seq(Items) /\ Follows(box, before)
  /\ ~silent => Ahead(box, before, Len(box) + 1) = allowed

LEMMA LatestIs ==
  ASSUME NEW n \in Nat, NEW D \in SUBSET (1..n), D # {}
  PROVE  Latest(D) \in D /\ \A j \in D : j <= Latest(D)
BY GreatestNumber DEF Latest

LEMMA LatestIsOne ==
  ASSUME NEW n \in Nat, NEW D \in SUBSET (1..n), NEW i \in D, \A j \in D : j <= i
  PROVE  Latest(D) = i
<1>1. Latest(D) \in D /\ i <= Latest(D)
  BY LatestIs
<1>2. Latest(D) <= i /\ Latest(D) \in 1..n /\ i \in 1..n
  BY <1>1
<1> QED
  BY <1>1, <1>2

\* What is ahead of an item is not changed by what comes behind it, ...
LEMMA AheadStays ==
  ASSUME NEW box, NEW more, NEW before, NEW n \in Nat \ {0}, \A i \in 1..(n - 1) : more[i] = box[i]
  PROVE  Ahead(more, before, n) = Ahead(box, before, n)
<1>1. Declared(more, n) = Declared(box, n)
  BY DEF Declared
<1>2. n - 1 \in Nat /\ Declared(box, n) \in SUBSET (1..(n - 1))
  BY DEF Declared
<1>3. Declared(box, n) # {} => Latest(Declared(box, n)) \in 1..(n - 1)
  BY <1>2, LatestIs
<1> QED
  BY <1>1, <1>3 DEF Ahead

\* ... nor by observations; a declaration is what is ahead from then on, ...
LEMMA AheadOfNone ==
  ASSUME NEW box, NEW before, NEW n \in Nat \ {0}, NEW m \in Nat, m >= n,
         \A i \in n..(m - 1) : ~box[i].declares
  PROVE  Ahead(box, before, m) = Ahead(box, before, n)
<1>1. \A i : i \in 1..(m - 1) <=> i \in 1..(n - 1) \/ i \in n..(m - 1)
  OBVIOUS
<1>2. Declared(box, m) = Declared(box, n)
  BY <1>1 DEF Declared
<1> QED
  BY <1>2 DEF Ahead

LEMMA AheadOfDeclared ==
  ASSUME NEW box, NEW before, NEW n \in Nat \ {0}, box[n].declares
  PROVE  Ahead(box, before, n + 1) = box[n].layers
<1>1. n \in Declared(box, n + 1) /\ Declared(box, n + 1) \in SUBSET (1..n)
  BY DEF Declared
<1>2. \A j \in Declared(box, n + 1) : j <= n
  BY <1>1
<1>3. Latest(Declared(box, n + 1)) = n
  BY <1>1, <1>2, LatestIsOne
<1> QED
  BY <1>1, <1>3 DEF Ahead

\* ... and what is taken off is what was said before the rest.
LEMMA AheadOfTail ==
  ASSUME NEW box, NEW rest, NEW before, NEW n \in Nat \ {0},
         \A i \in 1..(n - 1) : rest[i] = box[i + 1],
         NEW after, box[1].declares => after = box[1].layers, ~box[1].declares => after = before
  PROVE  Ahead(rest, after, n) = Ahead(box, before, n + 1)
<1> DEFINE D == Declared(rest, n)
           E == Declared(box, n + 1)
<1>1. D \in SUBSET (1..(n - 1)) /\ E \in SUBSET (1..n) /\ n - 1 \in Nat /\ n \in Nat
  BY DEF Declared
<1>2. \A i \in 1..(n - 1) : i + 1 \in 1..n /\ (i \in D <=> i + 1 \in E)
  BY DEF Declared
<1>3. 1 \in E <=> box[1].declares
  BY DEF Declared
<1>4. \A i \in E : i = 1 \/ i - 1 \in 1..(n - 1)
  BY <1>1
<1> HIDE DEF D, E
<1>5. \A i \in E : i = 1 \/ i - 1 \in D
  BY <1>1, <1>2, <1>4
<1>6. CASE D # {}
  <2>1. Latest(D) \in D /\ (\A j \in D : j <= Latest(D)) /\ Latest(D) \in 1..(n - 1)
    BY <1>1, <1>6, LatestIs
  <2>2. Latest(D) + 1 \in E
    BY <1>2, <2>1
  <2>3. \A j \in E : j <= Latest(D) + 1
    <3> SUFFICES ASSUME NEW j \in E PROVE j <= Latest(D) + 1
      OBVIOUS
    <3>1. CASE j = 1
      BY <2>1, <3>1
    <3>2. CASE j - 1 \in D
      BY <1>1, <2>1, <3>2
    <3> QED
      BY <1>5, <3>1, <3>2
  <2>4. Latest(E) = Latest(D) + 1
    BY <1>1, <2>2, <2>3, LatestIsOne
  <2>5. rest[Latest(D)] = box[Latest(E)]
    BY <2>1, <2>4
  <2> QED
    BY <1>6, <2>2, <2>5 DEF Ahead, D, E
<1>7. CASE D = {} /\ box[1].declares
  <2>1. 1 \in E /\ \A j \in E : j <= 1
    BY <1>3, <1>5, <1>7
  <2>2. Latest(E) = 1
    BY <1>1, <2>1, LatestIsOne
  <2> QED
    BY <1>7, <2>1, <2>2 DEF Ahead, D, E
<1>8. CASE D = {} /\ ~box[1].declares
  <2>1. E = {}
    BY <1>3, <1>5, <1>8
  <2> QED
    BY <1>8, <2>1 DEF Ahead, D, E
<1> QED
  BY <1>6, <1>7, <1>8

LEMMA AheadOfRest ==
  ASSUME NEW box, NEW rest, NEW before, NEW after, NEW n \in Nat \ {0},
         \A i \in 1..(n - 1) : rest[i] = box[i + 1],
         after = IF Head(box).declares THEN Head(box).layers ELSE before, Head(box) = box[1]
  PROVE  Ahead(rest, after, n) = Ahead(box, before, n + 1)
<1> DEFINE first == box[1]
<1>1. (first.declares => after = first.layers) /\ (~first.declares => after = before)
  OBVIOUS
<1> QED
  BY <1>1, AheadOfTail

\* Sequences of a set, one behind the other, are a sequence of that set: the function that
\* joins the first n of them exists for every n, for no n is the least for which it does not.
Joins(seqs, n, f) ==
  f = [i \in 1..n |-> IF i = 1 THEN seqs[i] ELSE f[i - 1] \o seqs[i]]

LEMMA JoinsOneMore ==
  ASSUME NEW seqs, NEW n \in Nat \ {0}, NEW f, Joins(seqs, n - 1, f),
         NEW g, g = [i \in 1..n |-> IF i < n THEN f[i] ELSE IF i = 1 THEN seqs[i] ELSE f[i - 1] \o seqs[i]]
  PROVE  Joins(seqs, n, g)
<1>1. ASSUME NEW i \in 1..n
      PROVE  g[i] = IF i = 1 THEN seqs[i] ELSE g[i - 1] \o seqs[i]
  <2>1. CASE i = 1 /\ i < n
    <3>1. 1 \in 1..(n - 1)
      BY <2>1
    <3>2. f[1] = seqs[1]
      BY <3>1 DEF Joins
    <3> QED
      BY <2>1, <3>2
  <2>2. CASE i = 1 /\ ~(i < n)
    BY <2>2
  <2>3. CASE i # 1 /\ i < n
    <3>1. i \in 1..(n - 1) /\ i - 1 \in 1..n /\ i - 1 < n
      BY <2>3
    <3>2. f[i] = f[i - 1] \o seqs[i]
      BY <2>3, <3>1 DEF Joins
    <3>3. g[i - 1] = f[i - 1] /\ g[i] = f[i]
      BY <2>3, <3>1
    <3> QED
      BY <2>3, <3>2, <3>3
  <2>4. CASE i # 1 /\ ~(i < n)
    <3>1. i - 1 \in 1..n /\ i - 1 < n
      BY <2>4
    <3>2. g[i - 1] = f[i - 1]
      BY <3>1
    <3> QED
      BY <2>4, <3>2
  <2> QED
    BY <2>1, <2>2, <2>3, <2>4
<1>2. g = [i \in 1..n |-> g[i]]
  OBVIOUS
<1> DEFINE h == [i \in 1..n |-> IF i = 1 THEN seqs[i] ELSE g[i - 1] \o seqs[i]]
<1>3. h = [i \in 1..n |-> h[i]]
  OBVIOUS
<1>5. ASSUME NEW i \in 1..n PROVE h[i] = g[i]
  <2>1. h[i] = IF i = 1 THEN seqs[i] ELSE g[i - 1] \o seqs[i]
    OBVIOUS
  <2>2. g[i] = IF i = 1 THEN seqs[i] ELSE g[i - 1] \o seqs[i]
    BY <1>1
  <2> QED
    BY <2>1, <2>2
<1> HIDE DEF h
<1>4. g = h
  BY <1>2, <1>3, <1>5
<1> QED
  BY <1>4 DEF Joins, h

LEMMA JoinsExist ==
  ASSUME NEW seqs, NEW n \in Nat
  PROVE  \E f : Joins(seqs, n, f)
<1> DEFINE Without == {m \in Nat : ~\E f : Joins(seqs, m, f)}
<1>1. SUFFICES ASSUME Without # {} PROVE FALSE
  OBVIOUS
<1>2. PICK least \in Without : \A m \in Without : least <= m
  BY <1>1, LeastNumber
<1>3. Joins(seqs, 0, [i \in 1..0 |-> seqs[i]])
  <2>1. 1..0 = {}
    OBVIOUS
  <2> QED
    BY <2>1 DEF Joins
<1>4. least \in Nat \ {0}
  BY <1>2, <1>3
<1>5. least - 1 \in Nat /\ least - 1 \notin Without
  BY <1>2, <1>4
<1>6. PICK f : Joins(seqs, least - 1, f)
  BY <1>5
<1>7. Joins(seqs, least, [i \in 1..least |-> IF i < least THEN f[i] ELSE
                           IF i = 1 THEN seqs[i] ELSE f[i - 1] \o seqs[i]])
  BY <1>4, <1>6, JoinsOneMore
<1> QED
  BY <1>2, <1>7

LEMMA FlattenSeqIs ==
  ASSUME NEW seqs, Len(seqs) # 0
  PROVE  Worker!FlattenSeq(seqs) = (CHOOSE f : Joins(seqs, Len(seqs), f))[Len(seqs)]
BY DEF Worker!FlattenSeq, Joins

LEMMA FlattenSeqType ==
  ASSUME NEW A, NEW seqs, Len(seqs) \in Nat, \A i \in 1..Len(seqs) : seqs[i] \in Seq(A),
         Len(seqs) = 0 => seqs = <<>>
  PROVE  Worker!FlattenSeq(seqs) \in Seq(A)
<1>1. CASE Len(seqs) = 0
  <2>1. Worker!FlattenSeq(seqs) = <<>>
    BY <1>1 DEF Worker!FlattenSeq
  <2> QED
    BY <2>1
<1>2. CASE Len(seqs) # 0
  <2> DEFINE n == Len(seqs)
             f == CHOOSE g : Joins(seqs, n, g)
  <2>1. Joins(seqs, n, f)
    BY JoinsExist
  <2> HIDE DEF f
  <2>2. n \in Nat \ {0}
    BY <1>2
  <2> HIDE DEF n
  <2>3. ASSUME NEW i \in 1..n PROVE f[i] = IF i = 1 THEN seqs[i] ELSE f[i - 1] \o seqs[i]
    BY <2>1 DEF Joins
  <2> DEFINE Not == {m \in 1..n : f[m] \notin Seq(A)}
  <2>4. ASSUME Not # {} PROVE FALSE
    <3>1. Not \in SUBSET Nat
      OBVIOUS
    <3>2. PICK least \in Not : \A m \in Not : least <= m
      BY <2>4, <3>1, LeastNumber
    <3>3. seqs[least] \in Seq(A)
      BY <3>2 DEF n
    <3>4. CASE least = 1
      BY <2>3, <3>2, <3>3, <3>4
    <3>5. CASE least # 1
      <4>1. least - 1 \in 1..n /\ ~(least <= least - 1)
        BY <2>2, <3>2, <3>5
      <4>2. f[least - 1] \in Seq(A)
        BY <3>2, <4>1
      <4>3. f[least] = f[least - 1] \o seqs[least]
        BY <2>3, <3>2, <3>5
      <4>4. f[least] \in Seq(A)
        BY <3>3, <4>2, <4>3, ConcatProperties
      <4> QED
        BY <3>2, <4>4
    <3> QED
      BY <3>4, <3>5
  <2>5. f[n] \in Seq(A)
    BY <2>2, <2>4
  <2> QED
    BY <1>2, <2>5, FlattenSeqIs DEF f, n
<1> QED
  BY <1>1, <1>2

LEMMA ObservationIs ==
  ASSUME unsaid \in BOOLEAN, NEW allowed \in SUBSET Worker!Layers, NEW layer \in Worker!Layers,
         NEW granted \in BOOLEAN, granted \/ layer \in allowed
  PROVE  Worker!Observation(layer, granted) \in Observations(allowed, unsaid)
<1> DEFINE item == Worker!Observation(layer, granted)
           excused == unsaid \/ granted
<1>1. {layer} \in SUBSET Worker!Layers /\ (~granted => {layer} \subseteq allowed)
  OBVIOUS
<1>2. excused \in BOOLEAN /\ (excused <=> unsaid \/ granted)
  OBVIOUS
<1>3. item = [declares |-> FALSE, layers |-> {layer}, excused |-> excused]
  BY Zenon DEF Worker!Observation
<1> HIDE DEF item, excused
<1>4. item.declares = FALSE /\ item.layers = {layer} /\ item.excused = excused
  BY <1>3
<1>5. item \in Items
  BY <1>1, <1>2, <1>3 DEF Items
<1>6. item.excused \/ (~unsaid /\ item.layers \subseteq allowed)
  BY <1>1, <1>2, <1>4, Zenon
<1> QED
  BY <1>4, <1>5, <1>6, Zenon DEF Observations, item

LEMMA AdmittedType ==
  ASSUME unsaid \in BOOLEAN, NEW allowed \in SUBSET Worker!Layers, NEW layer
  PROVE  Worker!Admitted(layer, allowed) \in Seq(Observations(allowed, unsaid))
<1>1. CASE layer \in allowed
  <2> DEFINE item == Worker!Observation(layer, FALSE)
  <2>1. item \in Observations(allowed, unsaid)
    <3>1. layer \in Worker!Layers /\ FALSE \in BOOLEAN
      BY <1>1
    <3> QED
      BY <1>1, <3>1, ObservationIs
  <2>2. Worker!Admitted(layer, allowed) = <<item>>
    BY <1>1 DEF Worker!Admitted
  <2> HIDE DEF item
  <2>3. <<item>> \in Seq(Observations(allowed, unsaid))
    BY <2>1
  <2> QED
    BY <2>2, <2>3
<1>2. CASE layer \notin allowed
  BY <1>2 DEF Worker!Admitted
<1> QED
  BY <1>1, <1>2

LEMMA AdmittedAllType ==
  ASSUME unsaid \in BOOLEAN, NEW allowed \in SUBSET Worker!Layers, NEW layers \in Seq(Worker!Layers)
  PROVE  Worker!AdmittedAll(layers, allowed) \in Seq(Observations(allowed, unsaid))
<1> DEFINE seqs == [i \in DOMAIN layers |-> Worker!Admitted(layers[i], allowed)]
           A == Observations(allowed, unsaid)
<1>1. DOMAIN layers = 1..Len(layers) /\ Len(layers) \in Nat
  OBVIOUS
<1>2. \A i \in 1..Len(layers) : seqs[i] \in Seq(A)
  BY <1>1, AdmittedType
<1>3. seqs \in Seq(Seq(A)) /\ Len(seqs) = Len(layers)
  BY <1>1, <1>2
<1>4. Len(seqs) = 0 => seqs = <<>>
  BY <1>3
<1> HIDE DEF seqs, A
<1>5. Worker!FlattenSeq(seqs) \in Seq(A)
  BY <1>1, <1>2, <1>3, <1>4, FlattenSeqType
<1> QED
  BY <1>5 DEF Worker!AdmittedAll, seqs, A

\* The three things that happen to the queue.
LEMMA MoreObserved ==
  ASSUME NEW box, NEW before, NEW allowed, NEW silent \in BOOLEAN, Told(box, before, allowed, silent),
         NEW more \in Seq(Observations(allowed, silent))
  PROVE  Told(box \o more, before, allowed, silent)
<1>1. box \in Seq(Items) /\ Follows(box, before) /\ (~silent => Ahead(box, before, Len(box) + 1) = allowed)
  BY DEF Told
<1> DEFINE all == box \o more
<1>2. \A item \in Observations(allowed, silent) :
        item \in Items /\ ~item.declares /\ (item.excused \/ (~silent /\ item.layers \subseteq allowed))
  BY DEF Observations
<1>3. more \in Seq(Items) /\ Len(more) \in Nat /\ Len(box) \in Nat
  BY <1>1, <1>2
<1>4. all \in Seq(Items) /\ Len(all) = Len(box) + Len(more)
      /\ (\A i \in 1..Len(box) : all[i] = box[i])
      /\ \A i \in (Len(box) + 1)..Len(all) : all[i] = more[i - Len(box)] /\ i - Len(box) \in 1..Len(more)
  BY <1>1, <1>3
<1>5. \A i \in (Len(box) + 1)..Len(all) :
        ~all[i].declares /\ (all[i].excused \/ (~silent /\ all[i].layers \subseteq allowed))
  BY <1>2, <1>4
<1> HIDE DEF all
<1>6. Len(all) \in Nat /\ Len(all) >= Len(box)
  BY <1>3, <1>4
<1>7. ASSUME NEW n \in 1..(Len(box) + 1) PROVE Ahead(all, before, n) = Ahead(box, before, n)
  <2>1. n \in Nat \ {0} /\ \A i \in 1..(n - 1) : i \in 1..Len(box)
    BY <1>3
  <2> QED
    BY <1>4, <2>1, AheadStays
<1>8. ASSUME NEW n \in (Len(box) + 1)..(Len(all) + 1), ~silent PROVE Ahead(all, before, n) = allowed
  <2>1. n \in Nat /\ n >= Len(box) + 1 /\ Len(box) + 1 \in Nat \ {0} /\ Len(box) + 1 \in 1..(Len(box) + 1)
    BY <1>3, <1>6
  <2>2. \A i \in (Len(box) + 1)..(n - 1) : i \in (Len(box) + 1)..Len(all)
    BY <1>3, <1>6
  <2>3. \A i \in (Len(box) + 1)..(n - 1) : ~all[i].declares
    BY <1>5, <2>2
  <2>4. Ahead(all, before, n) = Ahead(all, before, Len(box) + 1)
    BY <2>1, <2>3, AheadOfNone
  <2> QED
    BY <1>1, <1>7, <1>8, <2>1, <2>4
<1>9. Follows(all, before)
  <2> SUFFICES ASSUME NEW i \in 1..Len(all), ~all[i].declares, ~all[i].excused
               PROVE  all[i].layers \subseteq Ahead(all, before, i)
    BY DEF Follows
  <2>1. CASE i \in 1..Len(box)
    <3>1. i \in 1..(Len(box) + 1)
      BY <1>3, <2>1
    <3> QED
      BY <1>1, <1>4, <1>7, <2>1, <3>1 DEF Follows
  <2>2. CASE i \notin 1..Len(box)
    <3>1. i \in (Len(box) + 1)..Len(all) /\ i \in (Len(box) + 1)..(Len(all) + 1)
      BY <1>3, <1>6, <2>2
    <3> QED
      BY <1>5, <1>8, <3>1
  <2> QED
    BY <2>1, <2>2
<1>10. ~silent => Ahead(all, before, Len(all) + 1) = allowed
  <2>1. Len(all) + 1 \in (Len(box) + 1)..(Len(all) + 1)
    BY <1>3, <1>6
  <2> QED
    BY <1>8, <2>1
<1> QED
  BY <1>4, <1>9, <1>10 DEF all, Told

LEMMA MoreDeclared ==
  ASSUME NEW box, NEW before, NEW ahead, NEW silent, Told(box, before, ahead, silent),
         NEW allowed \in SUBSET Worker!Layers
  PROVE  Told(box \o <<Worker!Declaration(allowed)>>, before, allowed, FALSE)
<1> USE DEF Told
<1> DEFINE item == Worker!Declaration(allowed)
           all == box \o <<item>>
<1>1. item \in Items /\ item.declares = TRUE /\ item.layers = allowed
  BY DEF Worker!Declaration, Items
<1> HIDE DEF item
<1>2. all \in Seq(Items) /\ Len(all) = Len(box) + 1 /\ Len(box) \in Nat /\ all[Len(box) + 1] = item
      /\ \A i \in 1..Len(box) : all[i] = box[i]
  BY <1>1
<1> HIDE DEF all
<1>3. Ahead(all, before, Len(all) + 1) = allowed
  <2>1. Len(all) \in Nat \ {0} /\ all[Len(all)].declares
    BY <1>1, <1>2
  <2>2. Ahead(all, before, Len(all) + 1) = all[Len(all)].layers
    BY <2>1, AheadOfDeclared
  <2> QED
    BY <1>1, <1>2, <2>2
<1>4. Follows(all, before)
  <2> SUFFICES ASSUME NEW i \in 1..Len(all), ~all[i].declares, ~all[i].excused
               PROVE  all[i].layers \subseteq Ahead(all, before, i)
    BY DEF Follows
  <2>1. i \in 1..Len(box)
    BY <1>1, <1>2
  <2>2. i \in Nat \ {0} /\ \A j \in 1..(i - 1) : j \in 1..Len(box)
    BY <1>2, <2>1
  <2>3. Ahead(all, before, i) = Ahead(box, before, i)
    BY <1>2, <2>2, AheadStays
  <2> QED
    BY <1>2, <2>1, <2>3 DEF Follows
<1> QED
  BY <1>2, <1>3, <1>4 DEF all, item

LEMMA NothingTold ==
  ASSUME NEW before
  PROVE  Told(<<>>, before, before, FALSE)
<1>1. 1..0 = {} /\ Len(<<>>) = 0 /\ Declared(<<>>, 1) = {}
  BY DEF Declared
<1> QED
  BY <1>1, EmptySeq DEF Told, Follows, Ahead

LEMMA OneTaken ==
  ASSUME NEW box, box # <<>>, NEW before, NEW ahead, NEW silent, Told(box, before, ahead, silent),
         NEW after, after = IF Head(box).declares THEN Head(box).layers ELSE before
  PROVE  Told(Tail(box), after, ahead, silent) /\ Len(Tail(box)) = Len(box) - 1 /\ Len(box) \in Nat
<1> USE DEF Told
<1> DEFINE rest == Tail(box)
<1>1. rest \in Seq(Items) /\ Len(box) \in Nat /\ Len(box) # 0 /\ Len(rest) = Len(box) - 1
      /\ \A i \in 1..Len(rest) : rest[i] = box[i + 1]
  OBVIOUS
<1>2. Head(box) = box[1]
  OBVIOUS
<1> HIDE DEF rest
<1>3. ASSUME NEW n \in 1..(Len(rest) + 1) PROVE Ahead(rest, after, n) = Ahead(box, before, n + 1)
  <2>1. n \in Nat \ {0} /\ \A i \in 1..(n - 1) : i \in 1..Len(rest)
    BY <1>1
  <2>2. \A i \in 1..(n - 1) : rest[i] = box[i + 1]
    BY <1>1, <2>1
  <2> QED
    BY <1>1, <2>1, <2>2, AheadOfRest
<1>4. Follows(rest, after)
  <2> SUFFICES ASSUME NEW i \in 1..Len(rest), ~rest[i].declares, ~rest[i].excused
               PROVE  rest[i].layers \subseteq Ahead(rest, after, i)
    BY DEF Follows
  <2>1. i + 1 \in 1..Len(box) /\ i \in 1..(Len(rest) + 1) /\ rest[i] = box[i + 1]
    BY <1>1
  <2>2. Ahead(rest, after, i) = Ahead(box, before, i + 1)
    BY <1>3, <2>1
  <2> QED
    BY <2>1, <2>2 DEF Follows
<1>5. Ahead(rest, after, Len(rest) + 1) = Ahead(box, before, Len(box) + 1)
  <2>1. Len(rest) + 1 \in 1..(Len(rest) + 1) /\ (Len(rest) + 1) + 1 = Len(box) + 1
    BY <1>1
  <2>2. Ahead(rest, after, Len(rest) + 1) = Ahead(box, before, (Len(rest) + 1) + 1)
    BY <1>3, <2>1
  <2> QED
    BY <2>1, <2>2
<1> QED
  BY <1>1, <1>4, <1>5 DEF rest

\* The two things that are put in line, with the ceiling.
LEMMA InLineIs ==
  ASSUME NEW A, NEW B, NEW box \in Seq(A), Len(box) <= MaxPending, NEW items \in Seq(B), MaxPending \in Nat
  PROVE  \E more \in Seq(B) :
           /\ Worker!InLine(box, items) = box \o more /\ Len(more) \in Nat
           /\ Len(box) + Len(more) <= MaxPending
           /\ Len(items) <= Worker!Room(box) => more = items
<1> DEFINE room == Worker!Room(box)
<1>1. room \in Nat /\ Len(box) + room <= MaxPending /\ Len(box) \in Nat /\ Len(items) \in Nat
  BY DEF Worker!Room
<1>2. CASE Len(items) <= room
  <2>1. Worker!InLine(box, items) = box \o items
    BY <1>2 DEF Worker!InLine
  <2>2. Len(box) + Len(items) <= MaxPending
    BY <1>1, <1>2
  <2> QED
    BY <1>1, <2>1, <2>2
<1>3. CASE ~(Len(items) <= room)
  <2> DEFINE more == SubSeq(items, 1, room)
  <2>1. Worker!InLine(box, items) = box \o more
    BY <1>3 DEF Worker!InLine
  <2> HIDE DEF room
  <2>2. \A i \in 1..room : items[i] \in B
    BY <1>1, <1>3
  <2>3. more \in Seq(B) /\ Len(more) = IF 1 <= room THEN room - 1 + 1 ELSE 0
    BY <1>1, <2>2, SubSeqProperties
  <2>4. Len(more) = room
    BY <1>1, <2>3
  <2> QED
    BY <1>1, <1>3, <2>1, <2>3, <2>4 DEF room
<1> QED
  BY <1>2, <1>3

LEMMA ObservedInLine ==
  ASSUME MaxPending \in Nat, NEW box, NEW before, NEW allowed, NEW silent \in BOOLEAN,
         Told(box, before, allowed, silent), Len(box) <= MaxPending,
         NEW items \in Seq(Observations(allowed, silent))
  PROVE  /\ Told(Worker!InLine(box, items), before, allowed, silent)
         /\ Len(Worker!InLine(box, items)) <= MaxPending
<1>1. box \in Seq(Items)
  BY DEF Told
<1>2. PICK more \in Seq(Observations(allowed, silent)) :
        /\ Worker!InLine(box, items) = box \o more /\ Len(more) \in Nat
        /\ Len(box) + Len(more) <= MaxPending
  BY <1>1, InLineIs
<1>3. Told(box \o more, before, allowed, silent)
  BY <1>2, MoreObserved
<1>4. Len(box \o more) = Len(box) + Len(more)
  BY <1>1, <1>2
<1> QED
  BY <1>2, <1>3, <1>4

LEMMA DeclaredInLine ==
  ASSUME MaxPending \in Nat, NEW box, NEW before, NEW ahead, NEW silent,
         Told(box, before, ahead, silent), Len(box) <= MaxPending, NEW allowed \in SUBSET Worker!Layers
  PROVE  /\ Told(Worker!InLine(box, <<Worker!Declaration(allowed)>>), before, allowed, Worker!Room(box) = 0)
         /\ Len(Worker!InLine(box, <<Worker!Declaration(allowed)>>)) <= MaxPending
<1> DEFINE item == Worker!Declaration(allowed)
<1>1. box \in Seq(Items) /\ Follows(box, before)
  BY DEF Told
<1>2. <<item>> \in Seq({item}) /\ Len(<<item>>) = 1
  OBVIOUS
<1> HIDE DEF item
<1>3. PICK more \in Seq({item}) :
        /\ Worker!InLine(box, <<item>>) = box \o more /\ Len(more) \in Nat
        /\ Len(box) + Len(more) <= MaxPending
        /\ Len(<<item>>) <= Worker!Room(box) => more = <<item>>
  BY <1>1, <1>2, InLineIs
<1>4. Len(box \o more) = Len(box) + Len(more) /\ Len(box) \in Nat
  BY <1>1, <1>3
<1>5. CASE Worker!Room(box) = 0
  <2>1. Len(more) = 0
    BY <1>3, <1>4, <1>5 DEF Worker!Room
  <2>2. box \o more = box
    BY <1>1, <1>3, <2>1
  <2> QED
    BY <1>1, <1>3, <1>4, <1>5, <2>2 DEF Told, item
<1>6. CASE Worker!Room(box) # 0
  <2>1. 1 <= Worker!Room(box)
    BY <1>4, <1>6 DEF Worker!Room
  <2>2. Told(box \o <<item>>, before, allowed, FALSE)
    BY MoreDeclared DEF item
  <2> QED
    BY <1>3, <1>4, <1>6, <2>1, <2>2 DEF Told, item
<1> QED
  BY <1>5, <1>6

\* Types, and what the worker holds in each part of its life.
Counts == [waiting : Nat, checked : Nat, overtaken : Nat]
Answers == (SUBSET Worker!Layers) \cup {None, Failed}

WorkerTypes ==
  /\ stored \in SUBSET Worker!Layers /\ consent \in SUBSET Worker!Layers
  /\ form \in [Tabs -> SUBSET Worker!Layers]
  /\ life \in {"asleep", "reading", "awake"}
  /\ reads \in Seq(Answers) /\ workerNotices \in Nat
  /\ held \in Seq(Worker!Layers)
  /\ returns \in Counts /\ unsaid \in BOOLEAN

ByLife ==
  /\ life = "asleep" => reads = <<>> /\ held = <<>> /\ workerNotices = 0 /\ returns.checked = 0
  /\ life = "reading" => Len(reads) = 1

\* What is sent was declared, and the worker observes what it last declared unless that was dropped.
SendsDeclared ==
  /\ life = "awake" => Told(outbox, workerSaid, consent, unsaid) /\ Len(outbox) <= MaxPending
  /\ life # "awake" => outbox = <<>> /\ unsaid = FALSE

\* A return that was checked is of a layer that is still allowed.
ReturnsAllowed == returns.checked # 0 => Browsing \in consent

\* Where nothing more is to be looked up, the last look-up, or what the worker holds when there
\* is none on its way, is of what is stored.
LooksAtStore ==
  workerNotices = 0 =>
    /\ reads # <<>> => reads[Len(reads)] \in {None, Failed, stored}
    /\ life = "awake" /\ reads = <<>> /\ ~missed => consent \in {stored, {}}

\* The last change the script was told of, or what it read when there is none, is of what is stored.
Scripts == [read : BOOLEAN \cup {None}, ready : BOOLEAN, behind : Seq(BOOLEAN), page : BOOLEAN]
IsStored(page, layers) == page => Page \in layers
Reads(one, layers) ==
  /\ one.behind # <<>> => one.behind[Len(one.behind)] = (Page \in layers)
  /\ one.behind = <<>> /\ ~one.ready /\ one.read # None => IsStored(one.read, layers)
  /\ one.behind = <<>> /\ one.ready => IsStored(one.page, layers)
ScriptLooksAtStore == script \in Scripts /\ Reads(script, stored)

WorkerInv ==
  WorkerTypes /\ ByLife /\ SendsDeclared /\ ReturnsAllowed /\ LooksAtStore /\ ScriptLooksAtStore

LEMMA CeilingIs == MaxPending \in Nat \ {0}
BY AgentSendsAssumption

LEMMA WorkerStarts ==
  ASSUME Worker!Init
  PROVE  WorkerInv
<1> USE DEF Worker!Init, Worker!Default, Worker!Layers
<1>1. WorkerTypes /\ ByLife
  BY EmptySeq DEF WorkerTypes, ByLife, Answers, Counts, Worker!NoReturns
<1>3. SendsDeclared /\ LooksAtStore /\ ReturnsAllowed
  BY DEF SendsDeclared, LooksAtStore, ReturnsAllowed, Worker!NoReturns
<1>4. ScriptLooksAtStore
  <2>1. script = [read |-> None, ready |-> FALSE, behind |-> <<>>, page |-> FALSE]
    OBVIOUS
  <2>2. script \in Scripts
    BY <2>1, EmptySeq DEF Scripts
  <2>3. Reads(script, stored)
    BY <2>1 DEF Reads
  <2> QED
    BY <2>2, <2>3 DEF ScriptLooksAtStore
<1> QED
  BY <1>1, <1>3, <1>4 DEF WorkerInv

LEMMA ScriptStays ==
  ASSUME WorkerInv, UNCHANGED <<script, stored>>
  PROVE  ScriptLooksAtStore'
BY DEF WorkerInv, ScriptLooksAtStore

\* A worker that starts, by itself or for something that happens.
LEMMA WorkerWakes ==
  ASSUME WorkerInv, Worker!Wakes
  PROVE  WorkerInv'
<1> USE DEF WorkerInv, Worker!Wakes, Worker!Starts, Worker!store, Worker!wire
<1>1. <<None>> \in Seq(Answers) /\ Len(<<None>>) = 1 /\ <<None>>[1] = None /\ <<None>> # <<>>
  BY DEF Answers
<1>2. WorkerTypes' /\ ByLife'
  BY <1>1 DEF WorkerTypes, ByLife
<1>3. SendsDeclared' /\ ReturnsAllowed'
  BY DEF SendsDeclared, ReturnsAllowed, ByLife
<1>4. LooksAtStore'
  BY <1>1 DEF LooksAtStore
<1> QED
  BY <1>2, <1>3, <1>4, ScriptStays

LEMMA WorkerAnswer ==
  ASSUME WorkerInv, Worker!Answer
  PROVE  WorkerInv'
<1> USE DEF WorkerInv, WorkerTypes
<1>1. PICK i \in DOMAIN reads :
        /\ \E answer \in {stored, Failed} : reads' = [reads EXCEPT ![i] = answer]
        /\ UNCHANGED <<stored, form, chosen, changes, life, consent, workerNotices, missed, held, returns, wakes,
                       outbox, unsaid, workerSaid, shown, strays, script, observed>>
  BY DEF Worker!Answer, Worker!store, Worker!wire
<1>2. PICK answer \in {stored, Failed} : reads' = [reads EXCEPT ![i] = answer]
  BY <1>1
<1>3. answer \in Answers
  BY DEF Answers
<1>4. DOMAIN reads = 1..Len(reads) /\ Len(reads) \in Nat
  OBVIOUS
<1>5. reads' \in Seq(Answers) /\ Len(reads') = Len(reads) /\ reads # <<>>
  BY <1>1, <1>2, <1>3, <1>4, ExceptSeq
<1>6. reads'[Len(reads)] \in {answer, reads[Len(reads)]}
  BY <1>2, <1>4, <1>5
<1>7. WorkerTypes' /\ ByLife'
  BY <1>1, <1>5 DEF ByLife
<1>8. SendsDeclared' /\ ReturnsAllowed'
  BY <1>1 DEF SendsDeclared, ReturnsAllowed
<1>9. LooksAtStore'
  BY <1>1, <1>2, <1>5, <1>6 DEF LooksAtStore
<1> QED
  BY <1>1, <1>7, <1>8, <1>9, ScriptStays

LEMMA WorkerReady ==
  ASSUME WorkerInv, Worker!Ready
  PROVE  WorkerInv'
<1> USE DEF WorkerInv, WorkerTypes
<1> DEFINE allowed == Worker!FirstConsent(Head(reads))
           first == Worker!InLine(outbox, <<Worker!Declaration(allowed)>>)
           more == Worker!AdmittedAll(held, allowed)
<1>1. Len(reads) = 1 /\ Head(reads) \in Answers /\ Head(reads) # None /\ Head(reads) = reads[Len(reads)]
      /\ Tail(reads) = <<>> /\ reads # <<>> /\ outbox = <<>> /\ unsaid = FALSE
  <2>1. Len(reads) = 1 /\ Head(reads) # None /\ outbox = <<>> /\ unsaid = FALSE /\ reads \in Seq(Answers)
    BY DEF Worker!Ready, ByLife, SendsDeclared
  <2>2. Len(reads) # 0 /\ reads \in Seq(Answers)
    BY <2>1
  <2>3. reads # <<>>
    BY <2>2, SomeLong
  <2> QED
    BY <2>1, <2>3, LastOfTail
<1>2. allowed \in SUBSET Worker!Layers
  BY <1>1 DEF Worker!FirstConsent, Answers
<1>3. allowed \in {Head(reads), {}} /\ (Head(reads) = Failed => allowed = {})
  BY DEF Worker!FirstConsent
<1>4. /\ consent' = allowed
      /\ outbox' = Worker!InLine(first, more)
      /\ life' = "awake" /\ reads' = <<>> /\ held' = <<>>
      /\ returns' = [Worker!NoReturns EXCEPT !.checked = IF Browsing \in allowed THEN returns.waiting ELSE 0]
      /\ UNCHANGED <<stored, form, workerNotices, missed, unsaid, workerSaid, script>>
  BY <1>1 DEF Worker!Ready, Worker!store
<1> HIDE DEF allowed
<1>5. Told(first, workerSaid, allowed, FALSE) /\ Len(first) <= MaxPending
  <2>1. Told(<<>>, workerSaid, workerSaid, FALSE)
    BY NothingTold
  <2>0. Len(<<>>) <= MaxPending
    BY CeilingIs
  <2>2. /\ Told(first, workerSaid, allowed, Worker!Room(<<>>) = 0) /\ Len(first) <= MaxPending
    BY <1>1, <1>2, <2>0, <2>1, CeilingIs, DeclaredInLine
  <2>3. Worker!Room(<<>>) # 0
    BY CeilingIs DEF Worker!Room
  <2> QED
    BY <2>2, <2>3
<1>6. more \in Seq(Observations(allowed, FALSE))
  <2>1. more \in Seq(Observations(allowed, unsaid))
    BY <1>2, AdmittedAllType
  <2> QED
    BY <1>1, <2>1
<1> HIDE DEF first, more
<1>7. /\ Told(Worker!InLine(first, more), workerSaid, allowed, FALSE)
      /\ Len(Worker!InLine(first, more)) <= MaxPending
  BY <1>5, <1>6, CeilingIs, ObservedInLine
<1>8. returns' \in Counts /\ (returns'.checked # 0 => Browsing \in consent')
  <2>1. returns' = [waiting |-> 0, checked |-> IF Browsing \in allowed THEN returns.waiting ELSE 0, overtaken |-> 0]
    BY <1>4 DEF Worker!NoReturns
  <2>2. returns.waiting \in Nat
    BY DEF Counts
  <2>3. CASE Browsing \in allowed
    <3>1. returns' = [waiting |-> 0, checked |-> returns.waiting, overtaken |-> 0]
      BY <2>1, <2>3
    <3>2. returns' \in Counts
      BY <2>2, <3>1 DEF Counts
    <3> QED
      BY <1>4, <2>3, <3>2
  <2>4. CASE Browsing \notin allowed
    <3>1. returns' = [waiting |-> 0, checked |-> 0, overtaken |-> 0]
      BY <2>1, <2>4
    <3> QED
      BY <3>1 DEF Counts
  <2> QED
    BY <2>3, <2>4
<1>9. WorkerTypes' /\ ByLife'
  BY <1>2, <1>4, <1>8, EmptySeq DEF ByLife
<1>10. SendsDeclared' /\ ReturnsAllowed'
  BY <1>1, <1>4, <1>7, <1>8 DEF SendsDeclared, ReturnsAllowed
<1>11. LooksAtStore'
  BY <1>1, <1>3, <1>4 DEF LooksAtStore
<1> QED
  BY <1>4, <1>9, <1>10, <1>11, ScriptStays

LEMMA WorkerLooksUp ==
  ASSUME WorkerInv, Worker!LooksUp
  PROVE  WorkerInv'
<1> USE DEF WorkerInv, WorkerTypes
<1>1. /\ life = "awake" /\ workerNotices' \in Nat /\ reads' = Append(reads, None)
      /\ UNCHANGED <<stored, form, life, consent, missed, held, returns, outbox, unsaid, workerSaid, script>>
  BY DEF Worker!LooksUp, Worker!AfterTheFirstRead, Worker!store, Worker!wire
<1>2. None \in Answers
  BY DEF Answers
<1>3. reads' \in Seq(Answers) /\ reads' # <<>> /\ reads'[Len(reads')] = None
  BY <1>1, <1>2, AppendProperties
<1>4. WorkerTypes' /\ ByLife'
  BY <1>1, <1>3 DEF ByLife
<1>5. SendsDeclared' /\ ReturnsAllowed'
  BY <1>1 DEF SendsDeclared, ReturnsAllowed
<1>6. LooksAtStore'
  BY <1>3 DEF LooksAtStore
<1> QED
  BY <1>1, <1>4, <1>5, <1>6, ScriptStays

LEMMA WorkerApplies ==
  ASSUME WorkerInv, Worker!Applies
  PROVE  WorkerInv'
<1> USE DEF WorkerInv, WorkerTypes
<1>1. /\ life = "awake" /\ reads # <<>> /\ Head(reads) # None /\ reads' = Tail(reads)
      /\ UNCHANGED <<stored, form, life, workerNotices, held, workerSaid, script>>
  BY DEF Worker!Applies, Worker!store
<1>2. Head(reads) \in Answers /\ reads' \in Seq(Answers)
  BY <1>1, LastOfTail
<1>3. reads' # <<>> => reads'[Len(reads')] = reads[Len(reads)]
  BY <1>1, LastOfTail
<1>4. reads' = <<>> => Head(reads) = reads[Len(reads)]
  BY <1>1, LastOfTail
<1>5. CASE Head(reads) = Failed
  <2>1. missed' = TRUE /\ UNCHANGED <<consent, outbox, unsaid, returns>>
    BY <1>5 DEF Worker!Applies
  <2>2. WorkerTypes' /\ ByLife'
    BY <1>1, <1>2, <2>1 DEF ByLife
  <2>3. SendsDeclared' /\ ReturnsAllowed'
    BY <1>1, <2>1 DEF SendsDeclared, ReturnsAllowed
  <2>4. LooksAtStore'
    BY <1>1, <1>3, <2>1 DEF LooksAtStore
  <2> QED
    BY <1>1, <2>2, <2>3, <2>4, ScriptStays
<1>6. CASE Head(reads) # Failed
  <2> DEFINE allowed == Head(reads)
             line == Worker!InLine(outbox, <<Worker!Declaration(allowed)>>)
  <2>1. /\ consent' = allowed /\ outbox' = line /\ unsaid' = (Worker!Room(outbox) = 0)
        /\ returns' = IF Browsing \in allowed THEN returns ELSE Worker!Overtaken
    BY <1>6 DEF Worker!Applies, Worker!Declares
  <2>2. allowed \in SUBSET Worker!Layers
    BY <1>1, <1>2, <1>6 DEF Answers
  <2>3. Told(line, workerSaid, allowed, Worker!Room(outbox) = 0) /\ Len(line) <= MaxPending
    <3>1. Told(outbox, workerSaid, consent, unsaid) /\ Len(outbox) <= MaxPending
      BY <1>1 DEF SendsDeclared
    <3> QED
      BY <2>2, <3>1, CeilingIs, DeclaredInLine
  <2> HIDE DEF allowed, line
  <2>4. unsaid' \in BOOLEAN
    BY <2>1
  <2>5. Told(outbox', workerSaid', consent', unsaid') /\ Len(outbox') <= MaxPending
    BY <1>1, <2>1, <2>3
  <2>6. returns' \in Counts /\ (returns'.checked # 0 => Browsing \in consent')
    <3>1. CASE Browsing \in allowed
      BY <2>1, <3>1
    <3>2. CASE Browsing \notin allowed
      <4>1. returns' = Worker!Overtaken
        BY <2>1, <3>2
      <4>2. Worker!Overtaken \in Counts /\ Worker!Overtaken.checked = 0
        <5>1. returns.waiting \in Nat /\ returns.overtaken + returns.checked \in Nat
          BY DEF Counts
        <5> QED
          BY <5>1 DEF Worker!Overtaken, Counts
      <4> QED
        BY <4>1, <4>2
    <3> QED
      BY <3>1, <3>2
  <2>7. WorkerTypes' /\ ByLife'
    BY <1>1, <1>2, <2>1, <2>2, <2>4, <2>6 DEF ByLife
  <2>8. SendsDeclared' /\ ReturnsAllowed'
    BY <1>1, <2>5, <2>6 DEF SendsDeclared, ReturnsAllowed
  <2>9. LooksAtStore'
    BY <1>1, <1>3, <1>4, <1>6, <2>1 DEF LooksAtStore, allowed
  <2> QED
    BY <1>1, <2>7, <2>8, <2>9, ScriptStays
<1> QED
  BY <1>5, <1>6

LEMMA WorkerSleeps ==
  ASSUME WorkerInv, Worker!Sleeps
  PROVE  WorkerInv'
<1> USE DEF WorkerInv, Worker!Sleeps, Worker!store
<1>1. returns' \in Counts /\ returns'.checked = 0
  BY DEF Worker!NoReturns, Counts
<1>2. WorkerTypes' /\ ByLife'
  BY <1>1, EmptySeq DEF WorkerTypes, ByLife
<1>3. SendsDeclared' /\ ReturnsAllowed' /\ LooksAtStore'
  BY <1>1 DEF SendsDeclared, ReturnsAllowed, LooksAtStore
<1> QED
  BY <1>2, <1>3, ScriptStays

\* Something happens: a worker that slept starts, one that was awake goes on.
LEMMA WorkerHappens ==
  ASSUME WorkerInv, Worker!Happens, returns' \in Counts,
         held' \in Seq(Worker!Layers), returns'.checked # 0 => Browsing \in consent',
         life = "awake" => Told(outbox', workerSaid, consent, unsaid) /\ Len(outbox') <= MaxPending,
         life # "awake" => outbox' = outbox
  PROVE  WorkerInv'
<1> USE DEF WorkerInv, WorkerTypes
<1>1. UNCHANGED <<stored, form, workerNotices, unsaid, workerSaid, script>>
  BY DEF Worker!Happens, Worker!store
<1>2. CASE life = "asleep"
  <2>1. life' = "reading" /\ consent' = {} /\ reads' = <<None>>
    BY <1>2 DEF Worker!Happens, Worker!Starts
  <2>2. <<None>> \in Seq(Answers) /\ Len(<<None>>) = 1 /\ <<None>>[1] = None /\ <<None>> # <<>>
    BY DEF Answers
  <2>3. WorkerTypes' /\ ByLife'
    BY <1>1, <2>1, <2>2 DEF ByLife
  <2>4. SendsDeclared' /\ ReturnsAllowed'
    BY <1>1, <1>2, <2>1 DEF SendsDeclared, ReturnsAllowed
  <2>5. LooksAtStore'
    BY <2>1, <2>2 DEF LooksAtStore
  <2> QED
    BY <1>1, <2>3, <2>4, <2>5, ScriptStays
<1>3. CASE life # "asleep"
  <2>1. UNCHANGED <<life, consent, missed, reads>>
    BY <1>3 DEF Worker!Happens, Worker!Stays
  <2>2. WorkerTypes' /\ ByLife'
    BY <1>1, <1>3, <2>1 DEF ByLife
  <2>3. SendsDeclared' /\ ReturnsAllowed'
    BY <1>1, <2>1 DEF SendsDeclared, ReturnsAllowed
  <2>4. LooksAtStore'
    BY <1>1, <2>1 DEF LooksAtStore
  <2> QED
    BY <1>1, <2>2, <2>3, <2>4, ScriptStays
<1> QED
  BY <1>2, <1>3

LEMMA WorkerObserves ==
  ASSUME WorkerInv, NEW layer \in Worker!Layers, Worker!Observes(layer)
  PROVE  WorkerInv'
<1> USE DEF WorkerInv, WorkerTypes
<1>1. Worker!Happens /\ returns' = returns
  BY DEF Worker!Observes
<1>2. life = "asleep" => returns.checked = 0
  BY DEF ByLife
<1>3. life # "asleep" => consent' = consent
  BY <1>1 DEF Worker!Happens, Worker!Stays
<1>4. returns'.checked # 0 => Browsing \in consent'
  BY <1>1, <1>2, <1>3 DEF ReturnsAllowed
<1>5. CASE life = "awake"
  <2>1. outbox' = Worker!InLine(outbox, Worker!Admitted(layer, consent)) /\ held' = held
    BY <1>5 DEF Worker!Observes
  <2>2. Worker!Admitted(layer, consent) \in Seq(Observations(consent, unsaid))
    BY AdmittedType
  <2>3. Told(outbox, workerSaid, consent, unsaid) /\ Len(outbox) <= MaxPending
    BY <1>5 DEF SendsDeclared
  <2>4. Told(outbox', workerSaid, consent, unsaid) /\ Len(outbox') <= MaxPending
    BY <2>1, <2>2, <2>3, CeilingIs, ObservedInLine
  <2> QED
    BY <1>1, <1>4, <1>5, <2>1, <2>4, WorkerHappens
<1>6. CASE life # "awake"
  <2>1. outbox' = outbox /\ held' \in Seq(Worker!Layers)
    BY <1>6 DEF Worker!Observes
  <2> QED
    BY <1>1, <1>4, <1>6, <2>1, WorkerHappens
<1> QED
  BY <1>5, <1>6

LEMMA WorkerComesBack ==
  ASSUME WorkerInv, Worker!ComesBack
  PROVE  WorkerInv'
<1> USE DEF WorkerInv, WorkerTypes
<1>1. /\ Worker!Happens /\ UNCHANGED <<outbox, held>>
      /\ returns' = IF life # "awake" THEN [returns EXCEPT !.waiting = @ + 1]
                    ELSE IF Browsing \in consent THEN [returns EXCEPT !.checked = @ + 1] ELSE returns
  BY DEF Worker!ComesBack
<1>2. returns' \in Counts
  BY <1>1 DEF Counts
<1>3. life # "awake" => returns'.checked = returns.checked
  BY <1>1 DEF Counts
<1>4. life # "asleep" => consent' = consent
  BY <1>1 DEF Worker!Happens, Worker!Stays
<1>5. returns'.checked # 0 => Browsing \in consent'
  BY <1>1, <1>3, <1>4 DEF ReturnsAllowed, ByLife
<1>6. life = "awake" => Told(outbox', workerSaid, consent, unsaid) /\ Len(outbox') <= MaxPending
  BY <1>1 DEF SendsDeclared
<1> QED
  BY <1>1, <1>2, <1>5, <1>6, WorkerHappens

LEMMA WorkerTellsOfReturn ==
  ASSUME WorkerInv, NEW how \in {"checked", "overtaken"}, Worker!ReturnIsTold(how)
  PROVE  WorkerInv'
<1> USE DEF WorkerInv, WorkerTypes
<1> DEFINE granted == how = "overtaken"
           item == Worker!Observation(Browsing, granted)
<1>1. /\ life = "awake" /\ returns[how] > 0 /\ returns' = [returns EXCEPT ![how] = @ - 1]
      /\ outbox' = Worker!InLine(outbox, <<item>>) \/ outbox' = outbox
      /\ UNCHANGED <<stored, form, life, consent, reads, workerNotices, missed, held, unsaid, workerSaid, script>>
  BY DEF Worker!ReturnIsTold, Worker!store
<1>2. returns' \in Counts /\ (returns'.checked # 0 => returns.checked # 0)
  <2>1. CASE how = "checked"
    BY <1>1, <2>1 DEF Counts
  <2>2. CASE how = "overtaken"
    BY <1>1, <2>2 DEF Counts
  <2> QED
    BY <2>1, <2>2
<1>3. item \in Observations(consent, unsaid)
  <2>1. Browsing \in Worker!Layers /\ granted \in BOOLEAN
    BY DEF Worker!Layers
  <2>2. granted \/ Browsing \in consent
    <3>1. CASE how = "checked"
      <4>1. returns.checked # 0
        BY <1>1, <3>1 DEF Counts
      <4> QED
        BY <4>1 DEF ReturnsAllowed
    <3> QED
      BY <3>1
  <2> HIDE DEF granted
  <2> QED
    BY <2>1, <2>2, ObservationIs
<1> HIDE DEF item
<1>4. Told(outbox', workerSaid, consent, unsaid) /\ Len(outbox') <= MaxPending
  <2>1. Told(outbox, workerSaid, consent, unsaid) /\ Len(outbox) <= MaxPending
    BY <1>1 DEF SendsDeclared
  <2>2. <<item>> \in Seq(Observations(consent, unsaid))
    BY <1>3
  <2>3. /\ Told(Worker!InLine(outbox, <<item>>), workerSaid, consent, unsaid)
        /\ Len(Worker!InLine(outbox, <<item>>)) <= MaxPending
    BY <2>1, <2>2, CeilingIs, ObservedInLine
  <2> QED
    BY <1>1, <2>1, <2>3
<1>5. WorkerTypes' /\ ByLife'
  BY <1>1, <1>2 DEF ByLife
<1>6. SendsDeclared' /\ ReturnsAllowed'
  BY <1>1, <1>2, <1>4 DEF SendsDeclared, ReturnsAllowed
<1>7. LooksAtStore'
  BY <1>1 DEF LooksAtStore
<1> QED
  BY <1>1, <1>5, <1>6, <1>7, ScriptStays

\* What is taken off the queue arrives or is lost: the worker has said it either way.
LEMMA WorkerSends ==
  ASSUME WorkerInv, Worker!Arrives \/ Worker!IsLost
  PROVE  WorkerInv'
<1> USE DEF WorkerInv, WorkerTypes
<1>1. /\ outbox # <<>> /\ outbox' = Tail(outbox) /\ Worker!Taken(Head(outbox))
      /\ UNCHANGED <<stored, form, life, consent, reads, workerNotices, missed, held, returns, unsaid, script>>
  BY DEF Worker!Arrives, Worker!IsLost, Worker!store, Worker!worker
<1>2. workerSaid' = IF Head(outbox).declares THEN Head(outbox).layers ELSE workerSaid
  BY <1>1 DEF Worker!Taken
<1>3. life = "awake" /\ Told(outbox, workerSaid, consent, unsaid) /\ Len(outbox) <= MaxPending
  BY <1>1 DEF SendsDeclared
<1>4. /\ Told(Tail(outbox), workerSaid', consent, unsaid)
      /\ Len(Tail(outbox)) = Len(outbox) - 1 /\ Len(outbox) \in Nat
  BY <1>1, <1>2, <1>3, OneTaken
<1>5. Len(Tail(outbox)) <= MaxPending
  BY <1>3, <1>4, CeilingIs
<1>6. WorkerTypes' /\ ByLife'
  BY <1>1 DEF ByLife
<1>7. SendsDeclared' /\ ReturnsAllowed'
  BY <1>1, <1>3, <1>4, <1>5 DEF SendsDeclared, ReturnsAllowed
<1>8. LooksAtStore'
  BY <1>1 DEF LooksAtStore
<1> QED
  BY <1>1, <1>6, <1>7, <1>8, ScriptStays

LEMMA WorkerChooses ==
  ASSUME WorkerInv, NEW tab \in Tabs, NEW layer \in Worker!Layers, Worker!Chooses(tab, layer)
  PROVE  WorkerInv'
<1> USE DEF WorkerInv, WorkerTypes
<1> DEFINE new == Worker!Toggle(form[tab], layer)
<1>1. new \in SUBSET Worker!Layers
  BY DEF Worker!Toggle
<1>2. form' = [form EXCEPT ![tab] = new] /\ form'[tab] = new /\ stored' = new
  BY DEF Worker!Chooses
<1> HIDE DEF new
<1>3. /\ workerNotices' = workerNotices + 1 /\ UNCHANGED <<held, returns, outbox, unsaid, workerSaid>>
      /\ script' = [script EXCEPT !.behind = Append(@, Page \in form'[tab])]
  BY DEF Worker!Chooses, Worker!wire
<1>4. IF life = "asleep" THEN Worker!Starts ELSE Worker!Stays
  BY DEF Worker!Chooses
<1>5. /\ life' = IF life = "asleep" THEN "reading" ELSE life
      /\ reads' = IF life = "asleep" THEN <<None>> ELSE reads
      /\ consent' = IF life = "asleep" THEN {} ELSE consent
  BY <1>4 DEF Worker!Starts, Worker!Stays
<1>6. reads' \in Seq(Answers) /\ (life = "asleep" => Len(reads') = 1) /\ consent' \in SUBSET Worker!Layers
  <2>1. <<None>> \in Seq(Answers) /\ Len(<<None>>) = 1
    BY DEF Answers
  <2> QED
    BY <1>5, <2>1
<1>7. WorkerTypes'
  BY <1>1, <1>2, <1>3, <1>5, <1>6
<1>8. ByLife'
  BY <1>3, <1>5, <1>6 DEF ByLife
<1>9. SendsDeclared' /\ ReturnsAllowed'
  BY <1>3, <1>5 DEF SendsDeclared, ReturnsAllowed, ByLife
<1>10. LooksAtStore'
  BY <1>3 DEF LooksAtStore
<1>11. ScriptLooksAtStore'
  <2> DEFINE one == Page \in new
             all == Append(script.behind, one)
  <2>1. script \in Scripts
    BY DEF ScriptLooksAtStore
  <2>2. script' = [script EXCEPT !.behind = all]
    BY <1>2, <1>3
  <2>3. one \in BOOLEAN /\ script.behind \in Seq(BOOLEAN)
    BY <2>1 DEF Scripts
  <2> HIDE DEF one
  <2>4. all \in Seq(BOOLEAN) /\ all # <<>> /\ all[Len(all)] = one
    <3>1. /\ all \in Seq(BOOLEAN) /\ all # <<>> /\ Len(all) = Len(script.behind) + 1
          /\ all[Len(script.behind) + 1] = one
      BY ONLY <2>3, AppendProperties
    <3> QED
      BY ONLY <3>1
  <2> HIDE DEF all
  <2>5. script' \in Scripts
    BY <2>1, <2>2, <2>4 DEF Scripts
  <2>6. script'.behind = all
    BY <2>1, <2>2 DEF Scripts
  <2>7. Reads(script', stored')
    BY <1>2, <2>4, <2>6, Zenon DEF Reads, one
  <2> QED
    BY <2>5, <2>7 DEF ScriptLooksAtStore
<1> QED
  BY <1>7, <1>8, <1>9, <1>10, <1>11

\* The page's script moves by itself.
LEMMA ScriptMoves ==
  ASSUME WorkerInv, ScriptLooksAtStore',
         UNCHANGED <<stored, form, life, consent, reads, workerNotices, missed, held, returns, outbox, unsaid,
                        workerSaid>>
  PROVE  WorkerInv'
BY DEF WorkerInv, WorkerTypes, ByLife, SendsDeclared, ReturnsAllowed, LooksAtStore

LEMMA ScriptAnswered ==
  ASSUME WorkerInv, Worker!ScriptAnswer
  PROVE  WorkerInv'
<1>1. script \in Scripts /\ Reads(script, stored)
  BY DEF WorkerInv, ScriptLooksAtStore
<1>2. PICK answer \in BOOLEAN : (answer => Page \in stored) /\ script' = [script EXCEPT !.read = answer]
  <2>1. CASE script' = [script EXCEPT !.read = FALSE]
    BY <2>1
  <2>2. CASE script' = [script EXCEPT !.read = Page \in stored]
    <3>1. CASE Page \in stored
      <4>1. (Page \in stored) = TRUE
        BY <3>1
      <4>2. script' = [script EXCEPT !.read = TRUE]
        BY <2>2, <4>1
      <4> QED
        BY <3>1, <4>2
    <3>2. CASE Page \notin stored
      <4>1. (Page \in stored) = FALSE
        BY <3>2
      <4>2. script' = [script EXCEPT !.read = FALSE]
        BY <2>2, <4>1
      <4> QED
        BY <4>2
    <3> QED
      BY <3>1, <3>2
  <2> QED
    BY <2>1, <2>2 DEF Worker!ScriptAnswer
<1>3. UNCHANGED <<stored, form, life, consent, reads, workerNotices, missed, held, returns, outbox, unsaid,
                        workerSaid>>
  BY DEF Worker!ScriptAnswer, Worker!store, Worker!worker, Worker!wire
<1>4. answer \in BOOLEAN /\ IsStored(answer, stored)
  BY <1>2 DEF IsStored
<1>5. script' \in Scripts
  BY <1>1, <1>2, <1>4 DEF Scripts
<1>6. /\ script'.read = answer /\ script'.behind = script.behind
      /\ script'.ready = script.ready /\ script'.page = script.page
  BY <1>1, <1>2 DEF Scripts
<1>7. Reads(script', stored)
  BY <1>1, <1>4, <1>6 DEF Reads
<1> QED
  BY <1>3, <1>5, <1>7, ScriptMoves DEF ScriptLooksAtStore

LEMMA ScriptIsReady ==
  ASSUME WorkerInv, Worker!ScriptReady
  PROVE  WorkerInv'
<1>1. script \in Scripts /\ Reads(script, stored)
  BY DEF WorkerInv, ScriptLooksAtStore
<1>2. script.read # None /\ ~script.ready /\ script' = [script EXCEPT !.ready = TRUE, !.page = script.read]
  BY DEF Worker!ScriptReady
<1>3. UNCHANGED <<stored, form, life, consent, reads, workerNotices, missed, held, returns, outbox, unsaid,
                        workerSaid>>
  BY DEF Worker!ScriptReady, Worker!store, Worker!worker, Worker!wire
<1>4. script.read \in BOOLEAN
  BY <1>1, <1>2 DEF Scripts
<1>5. script' \in Scripts
  BY <1>1, <1>2, <1>4 DEF Scripts
<1>6. /\ script'.read = script.read /\ script'.behind = script.behind
      /\ script'.ready = TRUE /\ script'.page = script.read
  BY <1>1, <1>2 DEF Scripts
<1>7. Reads(script', stored)
  BY <1>1, <1>2, <1>6 DEF Reads
<1> QED
  BY <1>3, <1>5, <1>7, ScriptMoves DEF ScriptLooksAtStore

LEMMA ScriptIsTold ==
  ASSUME WorkerInv, Worker!ScriptChanges
  PROVE  WorkerInv'
<1>1. script \in Scripts /\ Reads(script, stored)
  BY DEF WorkerInv, ScriptLooksAtStore
<1> DEFINE behind == script.behind
           first == Head(behind)
           rest == Tail(behind)
<1>2. behind # <<>> /\ script.ready /\ script' = [script EXCEPT !.page = first, !.behind = rest]
  BY DEF Worker!ScriptChanges, Worker!BehindTheRead
<1>3. UNCHANGED <<stored, form, life, consent, reads, workerNotices, missed, held, returns, outbox, unsaid,
                        workerSaid>>
  BY DEF Worker!ScriptChanges, Worker!store, Worker!worker, Worker!wire
<1>4. behind \in Seq(BOOLEAN)
  BY <1>1 DEF Scripts
<1>5. behind[Len(behind)] = (Page \in stored)
  BY <1>1, <1>2 DEF Reads
<1> HIDE DEF behind
<1>6. first \in BOOLEAN /\ rest \in Seq(BOOLEAN)
  BY <1>2, <1>4, LastOfTail
<1>7. rest = <<>> => first = behind[Len(behind)]
  BY <1>2, <1>4, LastOfTail
<1>8. rest # <<>> => rest[Len(rest)] = behind[Len(behind)]
  BY <1>2, <1>4, LastOfTail
<1> HIDE DEF first, rest
<1>9. script' \in Scripts
  BY <1>1, <1>2, <1>6 DEF Scripts
<1>10. /\ script'.read = script.read /\ script'.behind = rest
       /\ script'.ready = script.ready /\ script'.page = first
  BY <1>1, <1>2 DEF Scripts
<1>11. Reads(script', stored)
  BY <1>2, <1>5, <1>7, <1>8, <1>10, Zenon DEF Reads, IsStored
<1> QED
  BY <1>3, <1>9, <1>11, ScriptMoves DEF ScriptLooksAtStore

LEMMA WorkerStep ==
  ASSUME WorkerInv, [Worker!Next]_(Worker!vars)
  PROVE  WorkerInv'
<1>1. CASE Worker!Observes(Browsing) \/ Worker!ReadsPage
  BY <1>1, WorkerObserves DEF Worker!ReadsPage, Worker!Layers
<1>2. CASE \E tab \in Tabs, layer \in Worker!Layers : Worker!Chooses(tab, layer)
  BY <1>2, WorkerChooses
<1>3. CASE UNCHANGED Worker!vars
  <2>1. UNCHANGED <<stored, form, life, consent, reads, workerNotices, missed, held, returns, outbox,
                    unsaid, workerSaid, script>>
    BY <1>3 DEF Worker!vars, Worker!store, Worker!worker, Worker!wire
  <2>2. ScriptLooksAtStore'
    BY <2>1, ScriptStays
  <2> QED
    BY <2>1, <2>2, ScriptMoves
<1> QED
  BY <1>1, <1>2, <1>3, WorkerWakes, WorkerAnswer, WorkerReady, WorkerLooksUp, WorkerApplies,
     WorkerSleeps, WorkerComesBack, WorkerTellsOfReturn, WorkerSends, ScriptAnswered, ScriptIsReady, ScriptIsTold DEF Worker!Next

\* Whatever was declared, chosen, lost, dropped at the ceiling or thrown away, the worker and the
\* page's script that have heard of everything observe what storage says, or nothing; the worker
\* observes what it last declared unless that was dropped, and nothing it sends overtakes the
\* declaration that covers it but a return allowed before it (background.ts, content.ts).
THEOREM ConsentIsAlwaysFollowed ==
  Worker!Spec => []ConsentIsFollowed
<1>1. Worker!Init => WorkerInv
  BY WorkerStarts
<1>2. WorkerInv /\ [Worker!Next]_(Worker!vars) => WorkerInv'
  BY WorkerStep
<1>3. WorkerInv => ConsentIsFollowed
  <2> SUFFICES ASSUME WorkerInv PROVE ConsentIsFollowed
    OBVIOUS
  <2> USE DEF WorkerInv, WorkerTypes
  <2>1. \A n : Worker!DeclaredAhead(n) = Ahead(outbox, workerSaid, n)
    BY DEF Worker!DeclaredAhead, Ahead, Declared, Latest
  <2>2. Worker!SettledConsentIsTheChoice
    BY DEF Worker!SettledConsentIsTheChoice, Worker!Settled, LooksAtStore
  <2>3. Worker!ScriptKeepsToTheChoice
    BY DEF Worker!ScriptKeepsToTheChoice, ScriptLooksAtStore, Reads, IsStored
  <2>4. Worker!ObservesWhatItDeclared
    BY <2>1 DEF Worker!ObservesWhatItDeclared, SendsDeclared, Told
  <2>5. CASE life = "awake"
    <3>1. outbox \in Seq(Items) /\ Follows(outbox, workerSaid)
      BY <2>5 DEF SendsDeclared, Told
    <3>2. DOMAIN outbox = 1..Len(outbox)
      BY <3>1
    <3> QED
      BY <2>1, <2>2, <2>3, <2>4, <3>1, <3>2 DEF Worker!DeclaredBeforeItIsSent, Follows, ConsentIsFollowed
  <2>6. CASE life # "awake"
    <3>1. DOMAIN outbox = {}
      BY <2>6 DEF SendsDeclared
    <3> QED
      BY <2>2, <2>3, <2>4, <3>1 DEF Worker!DeclaredBeforeItIsSent, ConsentIsFollowed
  <2> QED
    BY <2>5, <2>6
<1> QED
  BY <1>1, <1>2, <1>3, PTL DEF Worker!Spec
================================================================================
