------------------------ MODULE SessionLanes_proofs ------------------------
(***************************************************************************)
(* Theorems about SessionLanes, for every set of sessions and events and   *)
(* every limit.  In order:                                                 *)
(*   types; the order of runs, which needs more than the order: an idle    *)
(*     lane has nothing waiting, and no ticket is newer than the last;     *)
(*   that every event is somewhere, from the tickets of a lane being one   *)
(*     unbroken range;                                                     *)
(*   the memory: ids are remembered once, oldest first, and what is on a   *)
(*     session's hands is followed in the memory by few newer ids, so the  *)
(*     oldest id that is pushed out was always run;                        *)
(*   the refinement of OnceOnly, which rests on all of it;                 *)
(*   what a session shows whose lane has room: the body of Reconcile.      *)
(***************************************************************************)
EXTENDS MCIntake, TLAPS, SequenceTheorems, FiniteSetTheorems

Lane == [waiting : Seq(Job), running : Job \cup {NoJob}]

-----------------------------------------------------------------------------
(* Sequences *)

LEMMA AppendType ==
  ASSUME NEW S, NEW q \in Seq(S), NEW x \in S
  PROVE  /\ Append(q, x) \in Seq(S)
         /\ Len(Append(q, x)) = Len(q) + 1
         /\ \A i \in 1..Len(q) : Append(q, x)[i] = q[i]
         /\ Append(q, x)[Len(q) + 1] = x
  BY AppendProperties

LEMMA TailType ==
  ASSUME NEW S, NEW q \in Seq(S), q # <<>>
  PROVE  /\ Head(q) \in S /\ Head(q) = q[1]
         /\ Tail(q) \in Seq(S)
         /\ Len(q) \in Nat \ {0}
         /\ Len(Tail(q)) = Len(q) - 1
         /\ \A i \in 1..(Len(q) - 1) : Tail(q)[i] = q[i + 1]
  BY HeadTailProperties

LEMMA WithoutType ==
  ASSUME NEW S, NEW q \in Seq(S), NEW x
  PROVE  Without(q, x) \in Seq(S)
<1>1. CASE x \in Members(q)
  <2> DEFINE at == CHOOSE i \in 1..Len(q) : q[i] = x
  <2>1. at \in 1..Len(q)
    BY <1>1 DEF Members
  <2>2. at \in Int /\ Len(q) \in Nat /\ \A i \in 1..Len(q) : q[i] \in S
    BY <2>1, LenProperties, ElementOfSeq
  <2> HIDE DEF at
  <2>3. SubSeq(q, 1, at - 1) \in Seq(S)
    <3>1. \A i \in 1..(at - 1) : q[i] \in S
      BY <2>1, <2>2
    <3> QED
      BY <2>2, <3>1, SubSeqProperties
  <2>4. SubSeq(q, at + 1, Len(q)) \in Seq(S)
    <3>1. \A i \in (at + 1)..Len(q) : q[i] \in S
      BY <2>1, <2>2
    <3> QED
      BY <2>2, <3>1, SubSeqProperties
  <2>5. RemoveAt(q, at) \in Seq(S)
    BY <2>3, <2>4, ConcatProperties DEF RemoveAt
  <2> QED
    BY <1>1, <2>5 DEF Without, at
<1>2. CASE x \notin Members(q)
  BY <1>2 DEF Without
<1> QED
  BY <1>1, <1>2

LEMMA MembersType ==
  ASSUME NEW S, NEW q \in Seq(S)
  PROVE  Members(q) \subseteq S
  BY ElementOfSeq, LenProperties DEF Members
-----------------------------------------------------------------------------
(* A lane *)

LEMMA PumpedType ==
  ASSUME NEW lane \in Lane
  PROVE  Pumped(lane) \in Lane
  BY TailType DEF Lane, Pumped

LEMMA QueuedType ==
  ASSUME TypeOK, NEW s \in Sessions, NEW job \in Job
  PROVE  Queued(s, job) \in [Sessions -> Lane]
<1> DEFINE waiting == IF Full(s) THEN Tail(lanes[s].waiting) ELSE lanes[s].waiting
<1>1. lanes \in [Sessions -> Lane] /\ lanes[s].waiting \in Seq(Job)
  BY DEF TypeOK, Lane
<1>2. Full(s) => lanes[s].waiting # <<>>
  BY <1>1, EmptySeq, ConstantsAssumption DEF Full
<1>3. waiting \in Seq(Job)
  BY <1>1, <1>2, TailType
<1> HIDE DEF waiting
<1>4. [lanes[s] EXCEPT !.waiting = Append(waiting, job)] \in Lane
  <2>1. Append(waiting, job) \in Seq(Job)
    BY <1>3, AppendType
  <2>2. ASSUME NEW q \in Seq(Job)
        PROVE  [lanes[s] EXCEPT !.waiting = q] \in Lane
    BY <1>1 DEF Lane
  <2> QED
    BY <2>1, <2>2
<1>5. Pumped([lanes[s] EXCEPT !.waiting = Append(waiting, job)]) \in Lane
  BY <1>4, PumpedType
<1>6. Queued(s, job) =
        [lanes EXCEPT ![s] = Pumped([@ EXCEPT !.waiting = Append(waiting, job)])]
  BY DEF Queued, waiting
<1> QED
  BY <1>1, <1>5, <1>6

-----------------------------------------------------------------------------
(* Types *)

LEMMA RememberType ==
  ASSUME TypeOK, NEW s \in Sessions, Remember(s)
  PROVE  /\ lossOrder' \in Seq(Sessions)
         /\ losses' \in [Sessions -> Nat]
<1> DEFINE order == MovedToEnd(lossOrder, s)
           counts == [losses EXCEPT ![s] = @ + 1]
<1>1. order \in Seq(Sessions) /\ order # <<>>
  <2>1. Without(lossOrder, s) \in Seq(Sessions)
    BY WithoutType DEF TypeOK
  <2>2. Len(order) = Len(Without(lossOrder, s)) + 1 /\ order \in Seq(Sessions)
    BY <2>1, AppendType DEF MovedToEnd
  <2> QED
    BY <2>1, <2>2, LenProperties, EmptySeq
<1>2. Tail(order) \in Seq(Sessions) /\ Head(order) \in Sessions
  BY <1>1, TailType
<1>3. counts \in [Sessions -> Nat]
  BY DEF TypeOK
<1>4. [counts EXCEPT ![Head(order)] = 0] \in [Sessions -> Nat]
  BY <1>2, <1>3
<1> QED
  BY <1>1, <1>2, <1>3, <1>4 DEF Remember

LEMMA SubmitType ==
  ASSUME TypeOK, NEW s \in Sessions, NEW e \in Events \cup {Tick}, Submit(s, e)
  PROVE  /\ (lanes \in [Sessions -> Lane])'
         /\ lossOrder' \in Seq(Sessions)
         /\ losses' \in [Sessions -> Nat]
         /\ droppedTotal' \in Nat
         /\ unsettled' \in [Sessions -> SUBSET [event : Events, at : Nat]]
         /\ tickets' \in [Sessions -> Nat]
         /\ settled' \in [Sessions -> Seq(Job)]
         /\ lost' \in [Sessions -> SUBSET Job]
<1> DEFINE job == [event |-> e, ticket |-> tickets[s] + 1]
           oldest == Head(lanes[s].waiting)
<1>1. job \in Job
  BY DEF TypeOK, Job
<1>2. lanes' \in [Sessions -> Lane]
  BY <1>1, QueuedType DEF Submit
<1>3. tickets' \in [Sessions -> Nat] /\ settled' \in [Sessions -> Seq(Job)]
  BY DEF Submit, TypeOK
<1>4. CASE Full(s)
  <2>1. oldest \in Job
    <3>1. lanes[s].waiting \in Seq(Job) /\ lanes[s].waiting # <<>>
      BY <1>4, EmptySeq, ConstantsAssumption DEF Full, TypeOK
    <3> QED
      BY <3>1, TailType
  <2>2. lossOrder' \in Seq(Sessions) /\ losses' \in [Sessions -> Nat]
    BY <1>4, RememberType DEF Submit
  <2>3. droppedTotal' \in Nat /\ lost' \in [Sessions -> SUBSET Job]
    <3>1. /\ droppedTotal' = droppedTotal + 1
          /\ lost' = [lost EXCEPT ![s] = @ \cup {oldest}]
      BY <1>4 DEF Submit
    <3> HIDE DEF oldest
    <3> QED
      BY <2>1, <3>1 DEF TypeOK
  <2>4. unsettled' \in [Sessions -> SUBSET [event : Events, at : Nat]]
    <3>1. oldest.event # Tick => oldest.event \in Events
      BY <2>1 DEF Job
    <3>2. tickets[s] + 1 \in Nat
      BY DEF TypeOK
    <3>3. \/ unsettled' = unsettled
          \/ /\ oldest.event # Tick
             /\ unsettled' = [unsettled EXCEPT ![s] =
                               @ \cup {[event |-> oldest.event, at |-> tickets[s] + 1]}]
      BY <1>4 DEF Submit, Told
    <3>4. CASE unsettled' = unsettled
      BY <3>4 DEF TypeOK
    <3>5. CASE /\ oldest.event # Tick
               /\ unsettled' = [unsettled EXCEPT ![s] =
                                 @ \cup {[event |-> oldest.event, at |-> tickets[s] + 1]}]
      <4> DEFINE told == [event |-> oldest.event, at |-> tickets[s] + 1]
      <4>1. told \in [event : Events, at : Nat]
        BY <3>1, <3>2, <3>5
      <4>2. unsettled' = [unsettled EXCEPT ![s] = @ \cup {told}]
        BY <3>5
      <4> HIDE DEF told
      <4> QED
        BY <4>1, <4>2 DEF TypeOK
    <3> QED
      BY <3>3, <3>4, <3>5
  <2> QED
    BY <1>2, <1>3, <2>2, <2>3, <2>4
<1>5. CASE ~Full(s)
  BY <1>2, <1>3, <1>5 DEF Submit, lossVars, TypeOK
<1> QED
  BY <1>4, <1>5

LEMMA MarkType ==
  ASSUME TypeOK, NEW s \in Sessions, NEW e \in Events, Mark(s, e)
  PROVE  /\ seenOrder' \in Seq(Sessions)
         /\ seenIds' \in [Sessions -> Seq(Events)]
         /\ lapsed' \subseteq Events
<1> DEFINE ids == Append(seenIds[s], e)
           kept == IF Len(ids) > IdsPerSession THEN Tail(ids) ELSE ids
<1>1. kept \in Seq(Events)
  <2>1. seenIds[s] \in Seq(Events)
    BY DEF TypeOK
  <2>2. ids \in Seq(Events) /\ Len(ids) = Len(seenIds[s]) + 1
    BY <2>1, AppendType
  <2>3. ids # <<>>
    BY <2>1, <2>2, LenProperties, EmptySeq
  <2> QED
    BY <2>2, <2>3, TailType
<1>2. CASE Crowded(s)
  <2>1. seenOrder \in Seq(Sessions) /\ seenOrder # <<>>
    BY <1>2, EmptySeq, ConstantsAssumption DEF Crowded, TypeOK
  <2>2. Tail(seenOrder) \in Seq(Sessions) /\ Head(seenOrder) \in Sessions
    BY <2>1, TailType
  <2>3. seenOrder' \in Seq(Sessions)
    BY <1>2, <2>2, AppendType DEF Mark
  <2>4. <<>> \in Seq(Events) /\ Members(seenIds[Head(seenOrder)]) \subseteq Events
    BY <2>2, EmptySeq, MembersType DEF TypeOK
  <2>5. seenIds' = [seenIds EXCEPT ![Head(seenOrder)] = <<>>, ![s] = kept]
    BY <1>2 DEF Mark
  <2> HIDE DEF kept
  <2>6. seenIds' \in [Sessions -> Seq(Events)]
    BY <1>1, <2>2, <2>4, <2>5 DEF TypeOK
  <2>7. lapsed' \subseteq Events
    BY <1>2, <2>4 DEF Mark, TypeOK
  <2> QED
    BY <2>3, <2>6, <2>7
<1>3. CASE ~Crowded(s)
  <2>1. seenOrder' \in Seq(Sessions)
    <3>1. Without(seenOrder, s) \in Seq(Sessions)
      BY WithoutType DEF TypeOK
    <3>2. seenOrder' = Append(Without(seenOrder, s), s)
      BY <1>3 DEF Mark, MovedToEnd
    <3> QED
      BY <3>1, <3>2, AppendType
  <2>2. seenIds' = [seenIds EXCEPT ![s] = kept] /\ lapsed' = lapsed
    BY <1>3 DEF Mark
  <2> HIDE DEF kept
  <2> QED
    BY <1>1, <2>1, <2>2 DEF TypeOK
<1> QED
  BY <1>2, <1>3

\* Every step of the intake keeps its state well formed, whatever the channels
\* hand it and in whatever order lanes, losses and memory change (queue.ts,
\* seen.ts, runtime.ts fold and ingest).
THEOREM TypeCorrect == Spec => []TypeOK
<1>1. Init => TypeOK
  <2> SUFFICES ASSUME Init PROVE TypeOK
    OBVIOUS
  <2>1. \A S : <<>> \in Seq(S)
    BY EmptySeq
  <2>2. EmptyLane \in Lane
    BY <2>1 DEF EmptyLane, Lane
  <2> QED
    BY <2>1, <2>2 DEF Init, TypeOK, Lane
<1>2. TypeOK /\ [Next]_vars => TypeOK'
  <2> SUFFICES ASSUME TypeOK, [Next]_vars PROVE TypeOK'
    OBVIOUS
  <2>1. ASSUME NEW e \in Events, FoldFresh(e) PROVE TypeOK'
    <3>1. SessionOf[e] \in Sessions
      BY ConstantsAssumption
    <3>2. Mark(SessionOf[e], e) /\ Submit(SessionOf[e], e)
      BY <2>1 DEF FoldFresh
    <3> QED
      BY <3>1, <3>2, MarkType, SubmitType DEF TypeOK, Lane
  <2>2. ASSUME NEW e \in Events, FoldDuplicate(e) PROVE TypeOK'
    <3>1. SessionOf[e] \in Sessions
      BY ConstantsAssumption
    <3>2. Without(seenOrder, SessionOf[e]) \in Seq(Sessions)
      BY WithoutType DEF TypeOK
    <3>3. seenOrder' \in Seq(Sessions)
      BY <2>2, <3>1, <3>2, AppendType DEF FoldDuplicate, MovedToEnd
    <3> QED
      BY <2>2, <3>3 DEF FoldDuplicate, TypeOK, laneVars, lossVars
  <2>3. ASSUME NEW s \in Sessions, IngestTick(s) PROVE TypeOK'
    <3>1. Submit(s, Tick)
      BY <2>3 DEF IngestTick
    <3> QED
      BY <2>3, <3>1, SubmitType DEF IngestTick, seenVars, TypeOK, Lane
  <2>4. ASSUME NEW s \in Sessions, Finish(s) PROVE TypeOK'
    <3>1. lanes[s] \in Lane /\ lanes[s].running \in Job
      BY <2>4 DEF Finish, TypeOK, Lane
    <3>2. [lanes[s] EXCEPT !.running = NoJob] \in Lane
      BY <3>1 DEF Lane
    <3>3. Pumped([lanes[s] EXCEPT !.running = NoJob]) \in Lane
      BY <3>2, PumpedType
    <3>4. lanes' \in [Sessions -> Lane]
      BY <2>4, <3>3 DEF Finish, TypeOK, Lane
    <3>5. Append(settled[s], lanes[s].running) \in Seq(Job)
      BY <3>1, AppendType DEF TypeOK
    <3>6. settled' \in [Sessions -> Seq(Job)]
      BY <2>4, <3>5 DEF Finish, TypeOK
    <3> QED
      BY <2>4, <3>4, <3>6 DEF Finish, lossVars, seenVars, TypeOK, Lane
  <2>5. ASSUME NEW s \in Sessions, Forget(s) PROVE TypeOK'
    <3> PICK u \in unsettled[s] :
          /\ unsettled' = [unsettled EXCEPT ![s] = @ \ {u}]
          /\ LET ids == Without(seenIds[s], u.event)
             IN  /\ seenIds' = [seenIds EXCEPT ![s] = ids]
                 /\ seenOrder' = IF ids = <<>> THEN Without(seenOrder, s) ELSE seenOrder
          /\ UNCHANGED <<laneVars, lossVars, lapsed>>
      BY <2>5 DEF Forget
    <3>1. Without(seenIds[s], u.event) \in Seq(Events)
      BY WithoutType DEF TypeOK
    <3>2. Without(seenOrder, s) \in Seq(Sessions)
      BY WithoutType DEF TypeOK
    <3>3. seenIds' \in [Sessions -> Seq(Events)] /\ seenOrder' \in Seq(Sessions)
      BY <3>1, <3>2 DEF TypeOK
    <3>4. unsettled' \in [Sessions -> SUBSET [event : Events, at : Nat]]
      BY DEF TypeOK
    <3> QED
      BY <3>3, <3>4 DEF laneVars, lossVars, TypeOK
  <2>6. CASE UNCHANGED vars
    BY <2>6 DEF vars, laneVars, lossVars, seenVars, TypeOK
  <2> QED
    BY <2>1, <2>2, <2>3, <2>4, <2>5, <2>6 DEF Next
<1> QED
  BY <1>1, <1>2, PTL DEF Spec

-----------------------------------------------------------------------------
(* Order *)

Within(q, lo, hi) == \A i \in 1..Len(q) : lo < q[i].ticket /\ q[i].ticket <= hi

\* One lane in order: what has run, what runs and what waits, up to ticket n.
InOrder(lane, run, n) ==
  /\ lane.running = NoJob => lane.waiting = <<>>
  /\ Ascending(run) /\ Ascending(lane.waiting)
  /\ IF lane.running = NoJob THEN \A i \in 1..Len(run) : run[i].ticket <= n
     ELSE /\ \A i \in 1..Len(run) : run[i].ticket < lane.running.ticket
          /\ lane.running.ticket <= n
          /\ Within(lane.waiting, lane.running.ticket, n)

OrderInv == \A s \in Sessions : InOrder(lanes[s], settled[s], tickets[s])

LEMMA TicketsOfJobs ==
  ASSUME NEW q \in Seq(Job)
  PROVE  \A i \in 1..Len(q) : q[i] \in Job /\ q[i].ticket \in Nat
<1> SUFFICES ASSUME NEW i \in 1..Len(q) PROVE q[i] \in Job /\ q[i].ticket \in Nat
  OBVIOUS
<1>1. q[i] \in Job
  BY ElementOfSeq
<1> QED
  BY <1>1 DEF Job

LEMMA AscendingAppend ==
  ASSUME NEW q \in Seq(Job), NEW x \in Job, Ascending(q),
         \A i \in 1..Len(q) : q[i].ticket < x.ticket
  PROVE  Ascending(Append(q, x))
<1>1. /\ Len(q) \in Nat
      /\ Len(Append(q, x)) = Len(q) + 1
      /\ \A i \in 1..Len(q) : Append(q, x)[i] = q[i]
      /\ Append(q, x)[Len(q) + 1] = x
  BY AppendType, LenProperties
<1> SUFFICES ASSUME NEW i \in 1..(Len(q) + 1), NEW j \in 1..(Len(q) + 1), i < j
             PROVE  Append(q, x)[i].ticket < Append(q, x)[j].ticket
  BY <1>1 DEF Ascending
<1>2. i \in 1..Len(q) /\ (j \in 1..Len(q) \/ j = Len(q) + 1)
  BY <1>1
<1> QED
  BY <1>1, <1>2 DEF Ascending

LEMMA AscendingTail ==
  ASSUME NEW q \in Seq(Job), q # <<>>, Ascending(q)
  PROVE  /\ Ascending(Tail(q))
         /\ \A i \in 1..Len(Tail(q)) : Head(q).ticket < Tail(q)[i].ticket
<1>1. /\ Len(q) \in Nat \ {0}
      /\ Len(Tail(q)) = Len(q) - 1
      /\ Head(q) = q[1]
      /\ \A i \in 1..(Len(q) - 1) : Tail(q)[i] = q[i + 1]
  BY TailType
<1> QED
  BY <1>1 DEF Ascending

LEMMA QueuedInOrder ==
  ASSUME NEW lane \in Lane, NEW run \in Seq(Job), NEW n \in Nat, NEW job \in Job,
         job.ticket = n + 1, InOrder(lane, run, n),
         NEW waiting \in Seq(Job),
         \/ waiting = lane.waiting
         \/ lane.waiting # <<>> /\ waiting = Tail(lane.waiting)
  PROVE  InOrder(Pumped([lane EXCEPT !.waiting = Append(waiting, job)]), run, n + 1)
<1> DEFINE queued == [lane EXCEPT !.waiting = Append(waiting, job)]
<1>1. /\ lane.waiting \in Seq(Job) /\ lane.running \in Job \cup {NoJob}
      /\ queued.waiting = Append(waiting, job) /\ queued.running = lane.running
  BY DEF Lane
<1>2. /\ Append(waiting, job) \in Seq(Job)
      /\ Len(Append(waiting, job)) = Len(waiting) + 1
      /\ \A i \in 1..Len(waiting) : Append(waiting, job)[i] = waiting[i]
      /\ Append(waiting, job)[Len(waiting) + 1] = job
      /\ Len(waiting) \in Nat /\ Len(run) \in Nat
  BY AppendType, LenProperties
<1>3. \A i \in 1..Len(run) : run[i] \in Job /\ run[i].ticket \in Nat
  BY TicketsOfJobs
<1>4. CASE lane.running = NoJob
  <2>1. waiting = <<>>
    BY <1>4 DEF InOrder
  <2>2. Append(waiting, job) = <<job>>
    BY <2>1
  <2>3. Pumped(queued) = [waiting |-> <<>>, running |-> job]
    BY <1>1, <1>4, <2>2 DEF Pumped
  <2>4. job # NoJob
    BY NoJobAssumption
  <2>5. Ascending(<<>>) /\ Within(<<>>, job.ticket, n + 1)
    BY DEF Ascending, Within
  <2>6. \A i \in 1..Len(run) : run[i].ticket < n + 1
    BY <1>3, <1>4 DEF InOrder
  <2>7. Ascending(run) /\ n + 1 <= n + 1
    BY DEF InOrder
  <2> DEFINE started == [waiting |-> <<>>, running |-> job]
  <2>8. started.waiting = <<>> /\ started.running = job
    OBVIOUS
  <2>9. Pumped(queued) = started
    BY <2>3
  <2> HIDE DEF started
  <2>10. InOrder(started, run, n + 1)
    BY <2>4, <2>5, <2>6, <2>7, <2>8 DEF InOrder
  <2> QED
    BY <2>9, <2>10
<1>5. CASE lane.running # NoJob
  <2>1. Pumped(queued) = queued
    BY <1>1, <1>5 DEF Pumped
  <2>2. lane.running.ticket \in Nat /\ lane.running.ticket <= n
    BY <1>1, <1>5 DEF InOrder, Job
  <2>3. Ascending(waiting) /\ Within(waiting, lane.running.ticket, n)
    <3>1. CASE waiting = lane.waiting
      BY <1>5, <3>1 DEF InOrder
    <3>2. CASE lane.waiting # <<>> /\ waiting = Tail(lane.waiting)
      <4>1. Ascending(waiting)
        BY <1>1, <3>2, AscendingTail DEF InOrder
      <4>2. Within(lane.waiting, lane.running.ticket, n)
        BY <1>5 DEF InOrder
      <4>3. /\ Len(lane.waiting) \in Nat \ {0}
            /\ Len(waiting) = Len(lane.waiting) - 1
            /\ \A i \in 1..(Len(lane.waiting) - 1) : waiting[i] = lane.waiting[i + 1]
        BY <1>1, <3>2, TailType
      <4>4. Within(waiting, lane.running.ticket, n)
        BY <4>2, <4>3 DEF Within
      <4> QED
        BY <4>1, <4>4
    <3> QED
      BY <3>1, <3>2
  <2>4. \A i \in 1..Len(waiting) : waiting[i].ticket \in Nat
    BY TicketsOfJobs
  <2>5. Ascending(Append(waiting, job))
    <3>1. \A i \in 1..Len(waiting) : waiting[i].ticket < job.ticket
      BY <2>3, <2>4 DEF Within
    <3> QED
      BY <2>3, <3>1, AscendingAppend
  <2>6. Within(Append(waiting, job), lane.running.ticket, n + 1)
    <3> SUFFICES ASSUME NEW i \in 1..(Len(waiting) + 1)
                 PROVE  /\ lane.running.ticket < Append(waiting, job)[i].ticket
                        /\ Append(waiting, job)[i].ticket <= n + 1
      BY <1>2 DEF Within
    <3>1. CASE i \in 1..Len(waiting)
      BY <1>2, <2>2, <2>3, <2>4, <3>1 DEF Within
    <3>2. CASE i = Len(waiting) + 1
      BY <1>2, <2>2, <3>2
    <3> QED
      BY <1>2, <3>1, <3>2
  <2>7. Ascending(run) /\ \A i \in 1..Len(run) : run[i].ticket < lane.running.ticket
    BY <1>5 DEF InOrder
  <2>8. lane.running.ticket <= n + 1
    BY <2>2
  <2> QED
    BY <1>1, <1>5, <2>1, <2>5, <2>6, <2>7, <2>8 DEF InOrder
<1> QED
  BY <1>4, <1>5

LEMMA FinishInOrder ==
  ASSUME NEW lane \in Lane, NEW run \in Seq(Job), NEW n \in Nat,
         InOrder(lane, run, n), lane.running # NoJob
  PROVE  InOrder(Pumped([lane EXCEPT !.running = NoJob]), Append(run, lane.running), n)
<1> DEFINE now == lane.running
           done == Append(run, now)
           freed == [lane EXCEPT !.running = NoJob]
<1>1. /\ lane.waiting \in Seq(Job) /\ now \in Job /\ now.ticket \in Nat
      /\ freed.waiting = lane.waiting /\ freed.running = NoJob
  BY DEF Lane, Job
<1>2. /\ Ascending(run) /\ Ascending(lane.waiting)
      /\ \A i \in 1..Len(run) : run[i].ticket < now.ticket
      /\ now.ticket <= n
      /\ Within(lane.waiting, now.ticket, n)
  BY DEF InOrder
<1>3. Ascending(done)
  BY <1>1, <1>2, AscendingAppend
<1>4. /\ Len(run) \in Nat /\ Len(done) = Len(run) + 1
      /\ \A i \in 1..Len(run) : done[i] = run[i] /\ run[i].ticket \in Nat
      /\ done[Len(run) + 1] = now
  BY <1>1, AppendType, LenProperties, TicketsOfJobs
<1>5. \A i \in 1..Len(done) : done[i].ticket <= now.ticket
  <2> SUFFICES ASSUME NEW i \in 1..(Len(run) + 1) PROVE done[i].ticket <= now.ticket
    BY <1>4
  <2>1. CASE i \in 1..Len(run)
    BY <1>1, <1>2, <1>4, <2>1
  <2>2. CASE i = Len(run) + 1
    BY <1>1, <1>4, <2>2
  <2> QED
    BY <1>4, <2>1, <2>2
<1>6. \A i \in 1..Len(done) : done[i].ticket \in Nat
  <2>1. done \in Seq(Job)
    BY <1>1, AppendType
  <2> QED
    BY <2>1, TicketsOfJobs
<1> HIDE DEF now, done
<1>7. CASE lane.waiting = <<>>
  <2>1. Pumped(freed) = freed
    BY <1>1, <1>7 DEF Pumped
  <2>2. \A i \in 1..Len(done) : done[i].ticket <= n
    BY <1>1, <1>2, <1>5, <1>6
  <2> QED
    BY <1>1, <1>2, <1>3, <1>7, <2>1, <2>2 DEF InOrder, done, now
<1>8. CASE lane.waiting # <<>>
  <2> DEFINE next == Head(lane.waiting)
             rest == Tail(lane.waiting)
  <2>1. Pumped(freed) = [waiting |-> rest, running |-> next]
    BY <1>1, <1>8 DEF Pumped
  <2>2. /\ Len(lane.waiting) \in Nat \ {0} /\ next = lane.waiting[1] /\ next \in Job
        /\ Len(rest) = Len(lane.waiting) - 1
        /\ \A i \in 1..(Len(lane.waiting) - 1) : rest[i] = lane.waiting[i + 1]
    BY <1>1, <1>8, TailType
  <2>3. Ascending(rest) /\ \A i \in 1..Len(rest) : next.ticket < rest[i].ticket
    BY <1>1, <1>2, <1>8, AscendingTail
  <2>4. now.ticket < next.ticket /\ next.ticket <= n /\ next.ticket \in Nat
    BY <1>2, <2>2 DEF Within, Job
  <2>5. Within(rest, next.ticket, n)
    BY <1>2, <2>2, <2>3 DEF Within
  <2>6. \A i \in 1..Len(done) : done[i].ticket < next.ticket
    BY <1>1, <1>5, <1>6, <2>4
  <2>7. next # NoJob
    BY <2>2, NoJobAssumption
  <2> HIDE DEF next, rest
  <2> QED
    BY <1>3, <2>1, <2>3, <2>4, <2>5, <2>6, <2>7 DEF InOrder, done, now
<1> QED
  BY <1>7, <1>8

\* Whatever arrives, is let go or fails: a session's events run one at a time,
\* in the order they were handed over, and a lane with work in it is being
\* worked on (queue.ts, run and pump).
LEMMA OrderInvariant == Spec => []OrderInv
<1>1. Init => OrderInv
  BY DEF Init, OrderInv, InOrder, EmptyLane, Ascending
<1>2. TypeOK /\ TypeOK' /\ OrderInv /\ [Next]_vars => OrderInv'
  <2> SUFFICES ASSUME TypeOK, TypeOK', OrderInv, [Next]_vars PROVE OrderInv'
    OBVIOUS
  <2>0. \A s \in Sessions : lanes[s] \in Lane /\ settled[s] \in Seq(Job) /\ tickets[s] \in Nat
    BY DEF TypeOK, Lane
  <2>1. ASSUME NEW s \in Sessions, NEW e \in Events \cup {Tick}, Submit(s, e)
        PROVE  OrderInv'
    <3> DEFINE job == [event |-> e, ticket |-> tickets[s] + 1]
               waiting == IF Full(s) THEN Tail(lanes[s].waiting) ELSE lanes[s].waiting
    <3>1. job \in Job /\ job.ticket = tickets[s] + 1
      BY <2>0 DEF Job
    <3>2. lanes[s].waiting \in Seq(Job) /\ (Full(s) => lanes[s].waiting # <<>>)
      BY <2>0, EmptySeq, ConstantsAssumption DEF Full, Lane
    <3>3. /\ waiting \in Seq(Job)
          /\ \/ waiting = lanes[s].waiting
             \/ lanes[s].waiting # <<>> /\ waiting = Tail(lanes[s].waiting)
      BY <3>2, TailType
    <3>4. /\ lanes' = [lanes EXCEPT ![s] =
                         Pumped([@ EXCEPT !.waiting = Append(waiting, job)])]
          /\ tickets' = [tickets EXCEPT ![s] = @ + 1]
          /\ settled' = settled
      BY <2>1 DEF Submit, Queued
    <3> HIDE DEF job, waiting
    <3>5. InOrder(lanes[s], settled[s], tickets[s])
      BY DEF OrderInv
    <3>6. InOrder(Pumped([lanes[s] EXCEPT !.waiting = Append(waiting, job)]),
                  settled[s], tickets[s] + 1)
      BY <2>0, <3>1, <3>3, <3>5, QueuedInOrder
    <3> SUFFICES ASSUME NEW t \in Sessions
                 PROVE  InOrder(lanes'[t], settled'[t], tickets'[t])
      BY DEF OrderInv
    <3>7. CASE t = s
      <4>1. /\ lanes'[t] = Pumped([lanes[s] EXCEPT !.waiting = Append(waiting, job)])
            /\ settled'[t] = settled[s] /\ tickets'[t] = tickets[s] + 1
        BY <3>4, <3>7 DEF TypeOK
      <4> QED
        BY <3>6, <4>1
    <3>8. CASE t # s
      <4>1. lanes'[t] = lanes[t] /\ settled'[t] = settled[t] /\ tickets'[t] = tickets[t]
        BY <3>4, <3>8 DEF TypeOK
      <4> QED
        BY <4>1 DEF OrderInv
    <3> QED
      BY <3>7, <3>8
  <2>2. ASSUME NEW e \in Events, FoldFresh(e) PROVE OrderInv'
    BY <2>1, <2>2, ConstantsAssumption DEF FoldFresh
  <2>3. ASSUME NEW e \in Events, FoldDuplicate(e) PROVE OrderInv'
    BY <2>3 DEF FoldDuplicate, laneVars, OrderInv
  <2>4. ASSUME NEW s \in Sessions, IngestTick(s) PROVE OrderInv'
    BY <2>1, <2>4 DEF IngestTick
  <2>5. ASSUME NEW s \in Sessions, Finish(s) PROVE OrderInv'
    <3>1. InOrder(Pumped([lanes[s] EXCEPT !.running = NoJob]),
                  Append(settled[s], lanes[s].running), tickets[s])
      BY <2>0, <2>5, FinishInOrder DEF Finish, OrderInv
    <3> SUFFICES ASSUME NEW t \in Sessions
                 PROVE  InOrder(lanes'[t], settled'[t], tickets'[t])
      BY DEF OrderInv
    <3>2. CASE t = s
      <4>1. /\ lanes'[t] = Pumped([lanes[s] EXCEPT !.running = NoJob])
            /\ settled'[t] = Append(settled[s], lanes[s].running)
            /\ tickets'[t] = tickets[s]
        BY <2>5, <3>2 DEF Finish, TypeOK
      <4> QED
        BY <3>1, <4>1
    <3>3. CASE t # s
      <4>1. lanes'[t] = lanes[t] /\ settled'[t] = settled[t] /\ tickets'[t] = tickets[t]
        BY <2>5, <3>3 DEF Finish, TypeOK
      <4> QED
        BY <4>1 DEF OrderInv
    <3> QED
      BY <3>2, <3>3
  <2>6. ASSUME NEW s \in Sessions, Forget(s) PROVE OrderInv'
    BY <2>6 DEF Forget, laneVars, OrderInv
  <2>7. CASE UNCHANGED vars
    BY <2>7 DEF vars, laneVars, OrderInv
  <2> QED
    BY <2>2, <2>3, <2>4, <2>5, <2>6, <2>7 DEF Next
<1> QED
  BY <1>1, <1>2, TypeCorrect, PTL DEF Spec

\* A session's events run one at a time in the order they were handed over,
\* with any number of sessions, events, copies and drops (queue.ts: "a session
\* runs one at a time, in the order it was handed them").
THEOREM EventsRunInOrder == Spec => []RunsInOrder
<1>1. TypeOK /\ OrderInv => RunsInOrder
  <2> SUFFICES ASSUME TypeOK, OrderInv, NEW s \in Sessions
               PROVE  /\ Ascending(settled[s]) /\ Ascending(lanes[s].waiting)
                      /\ lanes[s].running # NoJob =>
                           /\ \A j \in Members(settled[s]) : j.ticket < lanes[s].running.ticket
                           /\ \A j \in Members(lanes[s].waiting) :
                                lanes[s].running.ticket < j.ticket
    BY DEF RunsInOrder
  <2>1. InOrder(lanes[s], settled[s], tickets[s])
    BY DEF OrderInv
  <2> QED
    BY <2>1 DEF InOrder, Within, Members
<1> QED
  BY <1>1, TypeCorrect, OrderInvariant, PTL

\* No drop, failure or finish leaves a session with events waiting and nobody
\* running them (queue.ts, pump).
THEOREM NoLaneStalls == Spec => []NoStalledLane
<1>1. OrderInv => NoStalledLane
  BY DEF OrderInv, InOrder, NoStalledLane
<1> QED
  BY <1>1, OrderInvariant, PTL

-----------------------------------------------------------------------------
(* What is in hand *)

LEMMA MembersAppend ==
  ASSUME NEW S, NEW q \in Seq(S), NEW x \in S
  PROVE  Members(Append(q, x)) = Members(q) \cup {x}
<1>1. /\ Len(Append(q, x)) = Len(q) + 1 /\ Len(q) \in Nat
      /\ \A i \in 1..Len(q) : Append(q, x)[i] = q[i]
      /\ Append(q, x)[Len(q) + 1] = x
  BY AppendType, LenProperties
<1>2. Members(Append(q, x)) \subseteq Members(q) \cup {x}
  <2> SUFFICES ASSUME NEW i \in 1..(Len(q) + 1)
               PROVE  Append(q, x)[i] \in Members(q) \cup {x}
    BY <1>1 DEF Members
  <2>1. i \in 1..Len(q) \/ i = Len(q) + 1
    BY <1>1
  <2> QED
    BY <1>1, <2>1 DEF Members
<1>3. Members(q) \cup {x} \subseteq Members(Append(q, x))
  <2>1. \A i \in 1..Len(q) : i \in 1..(Len(q) + 1)
    BY <1>1
  <2>2. Len(q) + 1 \in 1..(Len(q) + 1)
    BY <1>1
  <2> QED
    BY <1>1, <2>1, <2>2 DEF Members
<1> QED
  BY <1>2, <1>3

LEMMA MembersTail ==
  ASSUME NEW S, NEW q \in Seq(S), q # <<>>
  PROVE  Members(q) = {Head(q)} \cup Members(Tail(q))
<1>1. /\ Len(q) \in Nat \ {0} /\ Len(Tail(q)) = Len(q) - 1 /\ Head(q) = q[1]
      /\ \A i \in 1..(Len(q) - 1) : Tail(q)[i] = q[i + 1]
  BY TailType
<1>2. Members(q) \subseteq {Head(q)} \cup Members(Tail(q))
  <2> SUFFICES ASSUME NEW i \in 1..Len(q), i # 1 PROVE q[i] \in Members(Tail(q))
    BY <1>1 DEF Members
  <2>1. i - 1 \in 1..Len(Tail(q)) /\ Tail(q)[i - 1] = q[(i - 1) + 1] /\ (i - 1) + 1 = i
    BY <1>1
  <2> QED
    BY <2>1 DEF Members
<1>3. {Head(q)} \cup Members(Tail(q)) \subseteq Members(q)
  <2>1. 1 \in 1..Len(q)
    BY <1>1
  <2>2. \A i \in 1..Len(Tail(q)) : i + 1 \in 1..Len(q) /\ Tail(q)[i] = q[i + 1]
    BY <1>1
  <2> QED
    BY <1>1, <2>1, <2>2 DEF Members
<1> QED
  BY <1>2, <1>3

\* What a lane has in hand, as a function of the lane.
Hands(lane) ==
  Members(lane.waiting) \cup (IF lane.running = NoJob THEN {} ELSE {lane.running})

LEMMA HandsPumped ==
  ASSUME NEW lane \in Lane
  PROVE  Hands(Pumped(lane)) = Hands(lane)
<1>1. CASE lane.running = NoJob /\ lane.waiting # <<>>
  <2>1. /\ Pumped(lane).waiting = Tail(lane.waiting)
        /\ Pumped(lane).running = Head(lane.waiting)
    BY <1>1 DEF Pumped
  <2>2. lane.waiting \in Seq(Job)
    BY DEF Lane
  <2>3. Head(lane.waiting) # NoJob
    BY <1>1, <2>2, TailType, NoJobAssumption
  <2> QED
    BY <1>1, <2>1, <2>2, <2>3, MembersTail DEF Hands
<1>2. CASE ~(lane.running = NoJob /\ lane.waiting # <<>>)
  BY <1>2 DEF Pumped
<1> QED
  BY <1>1, <1>2

\* The job at the front of an ordered lane is in it once.
LEMMA OldestIsApart ==
  ASSUME NEW lane \in Lane, NEW run \in Seq(Job), NEW n \in Nat,
         InOrder(lane, run, n), lane.waiting # <<>>
  PROVE  LET rest == [lane EXCEPT !.waiting = Tail(@)]
         IN  /\ Head(lane.waiting) \in Job
             /\ Hands(lane) = Hands(rest) \cup {Head(lane.waiting)}
             /\ \A j \in Hands(rest) : j.ticket # Head(lane.waiting).ticket
<1> DEFINE q == lane.waiting
           rest == [lane EXCEPT !.waiting = Tail(@)]
<1>1. q \in Seq(Job) /\ rest.waiting = Tail(q) /\ rest.running = lane.running
  BY DEF Lane
<1>2. /\ Len(q) \in Nat \ {0} /\ Head(q) = q[1] /\ Head(q) \in Job
      /\ Head(q).ticket \in Nat
  <2>1. Len(q) \in Nat \ {0} /\ Head(q) = q[1] /\ Head(q) \in Job
    BY <1>1, TailType
  <2> QED
    BY <2>1 DEF Job
<1>3. Hands(lane) = Hands(rest) \cup {Head(q)}
  BY <1>1, MembersTail DEF Hands
<1>4. \A i \in 1..Len(Tail(q)) : Head(q).ticket < Tail(q)[i].ticket
  BY <1>1, AscendingTail DEF InOrder
<1>5. \A j \in Members(Tail(q)) : j.ticket # Head(q).ticket
  <2>1. Tail(q) \in Seq(Job)
    BY <1>1, TailType
  <2>2. \A i \in 1..Len(Tail(q)) : Tail(q)[i].ticket \in Nat
    BY <2>1, TicketsOfJobs
  <2> QED
    BY <1>2, <1>4, <2>2 DEF Members
<1>6. lane.running # NoJob => lane.running.ticket # Head(q).ticket
  <2> SUFFICES ASSUME lane.running # NoJob PROVE lane.running.ticket # Head(q).ticket
    OBVIOUS
  <2>1. lane.running.ticket < q[1].ticket /\ lane.running.ticket \in Nat
    BY <1>2 DEF InOrder, Within, Lane, Job
  <2> QED
    BY <1>2, <2>1
<1> QED
  BY <1>1, <1>2, <1>3, <1>5, <1>6 DEF Hands

\* The job that runs is not also waiting, nor among those that ran.
LEMMA RunningIsApart ==
  ASSUME NEW lane \in Lane, NEW run \in Seq(Job), NEW n \in Nat,
         InOrder(lane, run, n), lane.running # NoJob
  PROVE  LET freed == [lane EXCEPT !.running = NoJob]
         IN  /\ Hands(lane) = Hands(freed) \cup {lane.running}
             /\ \A j \in Hands(freed) : j.ticket # lane.running.ticket
             /\ \A j \in Members(run) : j.ticket # lane.running.ticket
<1>1. /\ lane.running.ticket \in Nat /\ lane.waiting \in Seq(Job)
      /\ \A i \in 1..Len(lane.waiting) : lane.waiting[i].ticket \in Nat
      /\ \A i \in 1..Len(run) : run[i].ticket \in Nat
  BY TicketsOfJobs DEF Lane, Job
<1>2. \A j \in Members(lane.waiting) : j.ticket # lane.running.ticket
  BY <1>1 DEF InOrder, Within, Members
<1>3. \A j \in Members(run) : j.ticket # lane.running.ticket
  BY <1>1 DEF InOrder, Members
<1>4. /\ [lane EXCEPT !.running = NoJob].waiting = lane.waiting
      /\ [lane EXCEPT !.running = NoJob].running = NoJob
  BY DEF Lane
<1> QED
  BY <1>2, <1>3, <1>4 DEF Hands

\* No ticket in a lane is newer than the last one handed out.
LEMMA HandsAreOld ==
  ASSUME NEW lane \in Lane, NEW run \in Seq(Job), NEW n \in Nat, InOrder(lane, run, n)
  PROVE  \A j \in Hands(lane) : j \in Job /\ j.ticket <= n
<1>1. lane.waiting \in Seq(Job)
  BY DEF Lane
<1>2. \A j \in Members(lane.waiting) : j \in Job
  BY <1>1, MembersType
<1>3. lane.running # NoJob => lane.running \in Job /\ lane.running.ticket <= n
  BY DEF Lane, InOrder
<1>4. \A j \in Members(lane.waiting) : j.ticket <= n
  <2>1. CASE lane.running = NoJob
    <3>1. Members(lane.waiting) = {}
      BY <2>1, EmptySeq DEF InOrder, Members
    <3> QED
      BY <3>1
  <2>2. CASE lane.running # NoJob
    BY <2>2 DEF InOrder, Within, Members
  <2> QED
    BY <2>1, <2>2
<1> QED
  BY <1>2, <1>3, <1>4 DEF Hands

\* What the lane lets go when it is handed a job.
LetGo(s) == IF Full(s) THEN {Head(lanes[s].waiting)} ELSE {}

\* Handing a lane a job adds it to what is in hand; the one let go is among the lost.
LEMMA SubmitMoves ==
  ASSUME TypeOK, OrderInv, NEW s \in Sessions, NEW e \in Events \cup {Tick}, Submit(s, e)
  PROVE  LET job == [event |-> e, ticket |-> tickets[s] + 1]
         IN  \E rest :
               /\ job \in Job
               /\ LetGo(s) \subseteq Job
               /\ InHand(s) = rest \cup LetGo(s)
               /\ \A j \in rest, g \in LetGo(s) : j.ticket # g.ticket
               /\ InHand(s)' = rest \cup {job}
               /\ lost' = [lost EXCEPT ![s] = @ \cup LetGo(s)]
               /\ settled' = settled
               /\ tickets' = [tickets EXCEPT ![s] = @ + 1]
               /\ \A t \in Sessions \ {s} : InHand(t)' = InHand(t)
<1> DEFINE job == [event |-> e, ticket |-> tickets[s] + 1]
           lane == lanes[s]
           waiting == IF Full(s) THEN Tail(lane.waiting) ELSE lane.waiting
           room == [lane EXCEPT !.waiting = waiting]
           queued == [lane EXCEPT !.waiting = Append(waiting, job)]
<1>1. lane \in Lane /\ settled[s] \in Seq(Job) /\ tickets[s] \in Nat /\ lane.waiting \in Seq(Job)
  BY DEF TypeOK, Lane
<1>2. job \in Job
  BY <1>1 DEF Job
<1>3. Full(s) => lane.waiting # <<>>
  BY <1>1, EmptySeq, ConstantsAssumption DEF Full
<1>4. waiting \in Seq(Job)
  BY <1>1, <1>3, TailType
<1>5. InOrder(lane, settled[s], tickets[s])
  BY DEF OrderInv
<1>6. /\ lanes' = [lanes EXCEPT ![s] = Pumped(queued)]
      /\ settled' = settled
      /\ tickets' = [tickets EXCEPT ![s] = @ + 1]
  BY DEF Submit, Queued
<1>7. lost' = [lost EXCEPT ![s] = @ \cup LetGo(s)]
  <2>1. CASE Full(s)
    BY <2>1 DEF Submit, LetGo
  <2>2. CASE ~Full(s)
    BY <2>2 DEF Submit, LetGo, TypeOK
  <2> QED
    BY <2>1, <2>2
<1>8. /\ LetGo(s) \subseteq Job
      /\ Hands(lane) = Hands(room) \cup LetGo(s)
      /\ \A j \in Hands(room), g \in LetGo(s) : j.ticket # g.ticket
  <2>1. CASE Full(s)
    <3>1. room = [lane EXCEPT !.waiting = Tail(@)]
      BY <2>1
    <3> HIDE DEF lane, room
    <3>2. /\ Head(lane.waiting) \in Job
          /\ Hands(lane) = Hands([lane EXCEPT !.waiting = Tail(@)]) \cup {Head(lane.waiting)}
          /\ \A j \in Hands([lane EXCEPT !.waiting = Tail(@)]) :
               j.ticket # Head(lane.waiting).ticket
      BY <1>1, <1>3, <1>5, <2>1, OldestIsApart
    <3>3. LetGo(s) = {Head(lane.waiting)}
      BY <2>1 DEF LetGo, lane
    <3> QED
      BY <3>1, <3>2, <3>3
  <2>2. CASE ~Full(s)
    <3>1. room.waiting = lane.waiting /\ room.running = lane.running
      BY <1>1, <2>2 DEF Lane
    <3> QED
      BY <2>2, <3>1 DEF LetGo, Hands
  <2> QED
    BY <2>1, <2>2
<1>9. Hands(Pumped(queued)) = Hands(room) \cup {job}
  <2>1. /\ queued \in Lane /\ queued.waiting = Append(waiting, job)
        /\ queued.running = lane.running
        /\ room.waiting = waiting /\ room.running = lane.running
    <3>1. Append(waiting, job) \in Seq(Job)
      BY <1>2, <1>4, AppendType
    <3>2. ASSUME NEW q \in Seq(Job)
          PROVE  /\ [lane EXCEPT !.waiting = q] \in Lane
                 /\ [lane EXCEPT !.waiting = q].waiting = q
                 /\ [lane EXCEPT !.waiting = q].running = lane.running
      BY <1>1 DEF Lane
    <3> HIDE DEF waiting, job, lane
    <3> QED
      BY <1>4, <3>1, <3>2
  <2>2. Members(Append(waiting, job)) = Members(waiting) \cup {job}
    <3> HIDE DEF waiting, job
    <3> QED
      BY <1>2, <1>4, MembersAppend
  <2>3. Hands(queued) = Hands(room) \cup {job}
    BY <2>1, <2>2 DEF Hands
  <2> HIDE DEF queued
  <2> QED
    BY <2>1, <2>3, HandsPumped
<1>10. InHand(s) = Hands(lane) /\ InHand(s)' = Hands(Pumped(queued))
  BY <1>6 DEF InHand, Hands, TypeOK
<1>11. \A t \in Sessions \ {s} : InHand(t)' = InHand(t)
  BY <1>6 DEF InHand, TypeOK
<1> HIDE DEF job, lane, waiting, room, queued
<1>12. /\ job \in Job
       /\ LetGo(s) \subseteq Job
       /\ InHand(s) = Hands(room) \cup LetGo(s)
       /\ \A j \in Hands(room), g \in LetGo(s) : j.ticket # g.ticket
       /\ InHand(s)' = Hands(room) \cup {job}
       /\ lost' = [lost EXCEPT ![s] = @ \cup LetGo(s)]
       /\ settled' = settled
       /\ tickets' = [tickets EXCEPT ![s] = @ + 1]
       /\ \A t \in Sessions \ {s} : InHand(t)' = InHand(t)
  BY <1>2, <1>6, <1>7, <1>8, <1>9, <1>10, <1>11
<1> QED
  BY <1>12 DEF job

\* A run that ends leaves the hand and joins what was run.
LEMMA FinishMoves ==
  ASSUME TypeOK, OrderInv, NEW s \in Sessions, Finish(s)
  PROVE  LET job == lanes[s].running
         IN  \E rest :
               /\ job \in Job
               /\ InHand(s) = rest \cup {job}
               /\ \A j \in rest : j.ticket # job.ticket
               /\ \A j \in Members(settled[s]) : j.ticket # job.ticket
               /\ InHand(s)' = rest
               /\ Members(settled[s])' = Members(settled[s]) \cup {job}
               /\ \A t \in Sessions \ {s} :
                    InHand(t)' = InHand(t) /\ settled'[t] = settled[t]
<1> DEFINE job == lanes[s].running
           lane == lanes[s]
           freed == [lane EXCEPT !.running = NoJob]
<1>1. /\ lane \in Lane /\ settled[s] \in Seq(Job) /\ tickets[s] \in Nat
      /\ job # NoJob /\ job \in Job
  BY DEF TypeOK, Lane, Finish
<1>2. InOrder(lane, settled[s], tickets[s])
  BY DEF OrderInv
<1>3. freed \in Lane
  BY <1>1 DEF Lane
<1>4. /\ lanes' = [lanes EXCEPT ![s] = Pumped(freed)]
      /\ settled' = [settled EXCEPT ![s] = Append(@, job)]
  BY DEF Finish
<1>5. InHand(s) = Hands(lane) /\ InHand(s)' = Hands(Pumped(freed))
  BY <1>4 DEF InHand, Hands, TypeOK
<1>6. Members(settled[s])' = Members(settled[s]) \cup {job}
  <2>1. settled'[s] = Append(settled[s], job)
    BY <1>4 DEF TypeOK
  <2>2. Members(Append(settled[s], job)) = Members(settled[s]) \cup {job}
    BY <1>1, MembersAppend
  <2>3. Members(settled[s])' = Members(settled'[s])
    BY DEF Members
  <2> QED
    BY <2>1, <2>2, <2>3
<1>7. \A t \in Sessions \ {s} : InHand(t)' = InHand(t) /\ settled'[t] = settled[t]
  BY <1>4 DEF InHand, TypeOK
<1>8. Hands(Pumped(freed)) = Hands(freed)
  BY <1>3, HandsPumped
<1>9. /\ Hands(lane) = Hands(freed) \cup {job}
      /\ \A j \in Hands(freed) : j.ticket # job.ticket
      /\ \A j \in Members(settled[s]) : j.ticket # job.ticket
  BY <1>1, <1>2, RunningIsApart
<1> HIDE DEF job, lane, freed
<1> QED
  BY <1>1, <1>5, <1>6, <1>7, <1>8, <1>9 DEF job

\* One session's tickets: those run, those in hand and those lost share out 1..n.
SharedOut(run, now, out, n) ==
  /\ TicketsOf(run) \cup TicketsOf(now) \cup TicketsOf(out) = 1..n
  /\ TicketsOf(run) \cap TicketsOf(now) = {}
  /\ TicketsOf(run) \cap TicketsOf(out) = {}
  /\ TicketsOf(now) \cap TicketsOf(out) = {}

LEMMA TicketsOfUnion ==
  ASSUME NEW S, NEW T
  PROVE  /\ TicketsOf(S \cup T) = TicketsOf(S) \cup TicketsOf(T)
         /\ \A x : TicketsOf({x}) = {x.ticket}
         /\ TicketsOf({}) = {}
  BY DEF TicketsOf

\* Whatever is let go, run or handed over, every event handed to a lane is in
\* exactly one place (queue.ts, run and pump).
THEOREM NothingIsLostUncounted == Spec => []NothingVanishes
<1> DEFINE Inv == \A s \in Sessions :
                    SharedOut(Members(settled[s]), InHand(s), lost[s], tickets[s])
<1>1. Init => Inv
  <2> SUFFICES ASSUME Init, NEW s \in Sessions
               PROVE  SharedOut(Members(settled[s]), InHand(s), lost[s], tickets[s])
    OBVIOUS
  <2>1. Members(settled[s]) = {} /\ InHand(s) = {} /\ lost[s] = {} /\ tickets[s] = 0
    BY DEF Init, InHand, EmptyLane, Members
  <2> QED
    BY <2>1, TicketsOfUnion DEF SharedOut
<1>2. TypeOK /\ OrderInv /\ Inv /\ [Next]_vars => Inv'
  <2> SUFFICES ASSUME TypeOK, OrderInv, Inv, [Next]_vars, NEW t \in Sessions
               PROVE  SharedOut(Members(settled[t])', InHand(t)', lost'[t], tickets'[t])
    OBVIOUS
  <2> USE DEF Inv
  <2>1. ASSUME NEW s \in Sessions, NEW e \in Events \cup {Tick}, Submit(s, e)
        PROVE  SharedOut(Members(settled[t])', InHand(t)', lost'[t], tickets'[t])
    <3> DEFINE job == [event |-> e, ticket |-> tickets[s] + 1]
    <3>1. PICK rest :
            /\ InHand(s) = rest \cup LetGo(s)
            /\ \A j \in rest, g \in LetGo(s) : j.ticket # g.ticket
            /\ InHand(s)' = rest \cup {job}
            /\ lost' = [lost EXCEPT ![s] = @ \cup LetGo(s)]
            /\ settled' = settled
            /\ tickets' = [tickets EXCEPT ![s] = @ + 1]
            /\ \A u \in Sessions \ {s} : InHand(u)' = InHand(u)
      BY <2>1, SubmitMoves
    <3>2. tickets[s] \in Nat /\ job.ticket = tickets[s] + 1
      BY DEF TypeOK
    <3> HIDE DEF job
    <3>3. CASE t = s
      <4>1. SharedOut(Members(settled[s]), rest \cup LetGo(s), lost[s], tickets[s])
        BY <3>1
      <4>2. /\ Members(settled[s])' = Members(settled[s])
            /\ lost'[s] = lost[s] \cup LetGo(s)
            /\ tickets'[s] = tickets[s] + 1
        BY <3>1 DEF Members, TypeOK
      <4>3. TicketsOf(rest) \cap TicketsOf(LetGo(s)) = {}
        BY <3>1 DEF TicketsOf
      <4>4. TicketsOf({job}) = {tickets[s] + 1}
        BY <3>2, TicketsOfUnion
      <4>5. 1..(tickets[s] + 1) = (1..tickets[s]) \cup {tickets[s] + 1}
        BY <3>2
      <4>6. tickets[s] + 1 \notin 1..tickets[s]
        BY <3>2
      <4> DEFINE RR == TicketsOf(Members(settled[s]))
                 H == TicketsOf(rest)
                 G == TicketsOf(LetGo(s))
                 L == TicketsOf(lost[s])
                 I == 1..tickets[s]
                 x == tickets[s] + 1
      <4>7. /\ RR \cup (H \cup G) \cup L = I
            /\ RR \cap (H \cup G) = {} /\ RR \cap L = {} /\ (H \cup G) \cap L = {}
        BY <4>1, TicketsOfUnion DEF SharedOut
      <4>8. /\ TicketsOf(rest \cup {job}) = H \cup {x}
            /\ TicketsOf(lost[s] \cup LetGo(s)) = L \cup G
        BY <4>4, TicketsOfUnion
      <4> HIDE DEF RR, H, G, L, I, x
      <4>9. /\ RR \cup (H \cup {x}) \cup (L \cup G) = I \cup {x}
            /\ RR \cap (H \cup {x}) = {} /\ RR \cap (L \cup G) = {}
            /\ (H \cup {x}) \cap (L \cup G) = {}
        BY <4>3, <4>6, <4>7 DEF H, G, I, x
      <4> QED
        BY <3>1, <3>3, <4>2, <4>5, <4>8, <4>9 DEF SharedOut, RR, H, G, L, I, x
    <3>4. CASE t # s
      <4>1. /\ Members(settled[t])' = Members(settled[t]) /\ InHand(t)' = InHand(t)
            /\ lost'[t] = lost[t] /\ tickets'[t] = tickets[t]
        BY <3>1, <3>4 DEF Members, TypeOK
      <4> QED
        BY <4>1
    <3> QED
      BY <3>3, <3>4
  <2>2. CASE UNCHANGED <<lanes, settled, lost, tickets>>
    <3>1. /\ Members(settled[t])' = Members(settled[t]) /\ InHand(t)' = InHand(t)
          /\ lost'[t] = lost[t] /\ tickets'[t] = tickets[t]
      BY <2>2 DEF Members, InHand
    <3> QED
      BY <3>1
  <2>3. ASSUME NEW e \in Events, FoldFresh(e)
        PROVE  SharedOut(Members(settled[t])', InHand(t)', lost'[t], tickets'[t])
    BY <2>1, <2>3, ConstantsAssumption DEF FoldFresh
  <2>4. ASSUME NEW e \in Events, FoldDuplicate(e)
        PROVE  SharedOut(Members(settled[t])', InHand(t)', lost'[t], tickets'[t])
    BY <2>2, <2>4 DEF FoldDuplicate, laneVars
  <2>5. ASSUME NEW s \in Sessions, IngestTick(s)
        PROVE  SharedOut(Members(settled[t])', InHand(t)', lost'[t], tickets'[t])
    BY <2>1, <2>5 DEF IngestTick
  <2>6. ASSUME NEW s \in Sessions, Finish(s)
        PROVE  SharedOut(Members(settled[t])', InHand(t)', lost'[t], tickets'[t])
    <3> DEFINE job == lanes[s].running
    <3>1. PICK rest :
            /\ InHand(s) = rest \cup {job}
            /\ \A j \in rest : j.ticket # job.ticket
            /\ \A j \in Members(settled[s]) : j.ticket # job.ticket
            /\ InHand(s)' = rest
            /\ Members(settled[s])' = Members(settled[s]) \cup {job}
            /\ \A u \in Sessions \ {s} : InHand(u)' = InHand(u) /\ settled'[u] = settled[u]
      BY <2>6, FinishMoves
    <3>2. lost' = lost /\ tickets' = tickets
      BY <2>6 DEF Finish
    <3> HIDE DEF job
    <3>3. CASE t = s
      <4> DEFINE RR == TicketsOf(Members(settled[s]))
                 H == TicketsOf(rest)
                 L == TicketsOf(lost[s])
                 x == job.ticket
      <4>1. SharedOut(Members(settled[s]), rest \cup {job}, lost[s], tickets[s])
        BY <3>1
      <4>2. /\ RR \cup (H \cup {x}) \cup L = 1..tickets[s]
            /\ RR \cap (H \cup {x}) = {} /\ RR \cap L = {} /\ (H \cup {x}) \cap L = {}
        <5>1. TicketsOf(rest \cup {job}) = TicketsOf(rest) \cup TicketsOf({job})
          BY TicketsOfUnion
        <5>2. TicketsOf({job}) = {job.ticket}
          BY DEF TicketsOf
        <5> QED
          BY <4>1, <5>1, <5>2 DEF SharedOut
      <4>3. x \notin H
        BY <3>1 DEF TicketsOf
      <4>4. TicketsOf(Members(settled[s]) \cup {job}) = RR \cup {x}
        <5>1. TicketsOf(Members(settled[s]) \cup {job}) = RR \cup TicketsOf({job})
          BY TicketsOfUnion
        <5>2. TicketsOf({job}) = {job.ticket}
          BY DEF TicketsOf
        <5> QED
          BY <5>1, <5>2
      <4> HIDE DEF RR, H, L, x
      <4>5. /\ (RR \cup {x}) \cup H \cup L = 1..tickets[s]
            /\ (RR \cup {x}) \cap H = {} /\ (RR \cup {x}) \cap L = {} /\ H \cap L = {}
        BY <4>2, <4>3
      <4> QED
        BY <3>1, <3>2, <3>3, <4>4, <4>5 DEF SharedOut, RR, H, L, x
    <3>4. CASE t # s
      <4>1. /\ Members(settled[t])' = Members(settled[t]) /\ InHand(t)' = InHand(t)
            /\ lost'[t] = lost[t] /\ tickets'[t] = tickets[t]
        BY <3>1, <3>2, <3>4 DEF Members
      <4> QED
        BY <4>1
    <3> QED
      BY <3>3, <3>4
  <2>7. ASSUME NEW s \in Sessions, Forget(s)
        PROVE  SharedOut(Members(settled[t])', InHand(t)', lost'[t], tickets'[t])
    BY <2>2, <2>7 DEF Forget, laneVars
  <2>8. CASE UNCHANGED vars
    BY <2>2, <2>8 DEF vars, laneVars
  <2> QED
    BY <2>3, <2>4, <2>5, <2>6, <2>7, <2>8 DEF Next
<1>3. Inv => NothingVanishes
  BY DEF NothingVanishes, SharedOut
<1> QED
  BY <1>1, <1>2, <1>3, TypeCorrect, OrderInvariant, PTL DEF Spec

-----------------------------------------------------------------------------
(* What is remembered *)

\* A sequence in which nothing is twice: the order of a Map or of a Set.
Once(q) == \A i, j \in 1..Len(q) : q[i] = q[j] => i = j

LEMMA WithoutShifts ==
  ASSUME NEW S, NEW q \in Seq(S), NEW x, x \in Members(q)
  PROVE  \E c \in 1..Len(q) :
           /\ q[c] = x
           /\ Len(Without(q, x)) = Len(q) - 1
           /\ \A i \in 1..(Len(q) - 1) :
                Without(q, x)[i] = IF i < c THEN q[i] ELSE q[i + 1]
<1> DEFINE c == CHOOSE i \in 1..Len(q) : q[i] = x
           left == SubSeq(q, 1, c - 1)
           right == SubSeq(q, c + 1, Len(q))
<1>1. c \in 1..Len(q) /\ q[c] = x
  BY DEF Members
<1>2. Without(q, x) = left \o right
  BY DEF Without, RemoveAt
<1> HIDE DEF c
<1>3. c \in Int /\ Len(q) \in Nat /\ \A i \in 1..Len(q) : q[i] \in S
  BY <1>1, LenProperties, ElementOfSeq
<1>4. /\ left \in Seq(S) /\ Len(left) = c - 1
      /\ \A i \in 1..(c - 1) : left[i] = q[i]
  <2>1. \A i \in 1..(c - 1) : q[i] \in S
    BY <1>1, <1>3
  <2>2. /\ left \in Seq(S) /\ Len(left) = IF 1 <= c - 1 THEN (c - 1) - 1 + 1 ELSE 0
        /\ \A i \in 1..((c - 1) - 1 + 1) : left[i] = q[1 + i - 1]
    BY <1>3, <2>1, SubSeqProperties
  <2> QED
    BY <1>1, <1>3, <2>2
<1>5. /\ right \in Seq(S) /\ Len(right) = Len(q) - c
      /\ \A i \in 1..(Len(q) - c) : right[i] = q[c + i]
  <2>1. \A i \in (c + 1)..Len(q) : q[i] \in S
    BY <1>1, <1>3
  <2>2. /\ right \in Seq(S)
        /\ Len(right) = IF c + 1 <= Len(q) THEN Len(q) - (c + 1) + 1 ELSE 0
        /\ \A i \in 1..(Len(q) - (c + 1) + 1) : right[i] = q[(c + 1) + i - 1]
    BY <1>3, <2>1, SubSeqProperties
  <2> QED
    BY <1>1, <1>3, <2>2
<1> HIDE DEF left, right
<1>6. /\ Len(left \o right) = Len(left) + Len(right)
      /\ \A i \in 1..(Len(left) + Len(right)) :
           (left \o right)[i] = IF i <= Len(left) THEN left[i] ELSE right[i - Len(left)]
  BY <1>4, <1>5, ConcatProperties
<1>7. Len(Without(q, x)) = Len(q) - 1
  BY <1>1, <1>2, <1>3, <1>4, <1>5, <1>6
<1>8. ASSUME NEW i \in 1..(Len(q) - 1)
      PROVE  Without(q, x)[i] = IF i < c THEN q[i] ELSE q[i + 1]
  <2>1. Without(q, x)[i] = IF i <= c - 1 THEN left[i] ELSE right[i - (c - 1)]
    BY <1>1, <1>2, <1>3, <1>4, <1>5, <1>6
  <2>2. CASE i < c
    <3>1. i \in 1..(c - 1) /\ i <= c - 1
      BY <1>3, <2>2
    <3> QED
      BY <1>4, <2>1, <2>2, <3>1
  <2>3. CASE ~(i < c)
    <3>1. i - (c - 1) \in 1..(Len(q) - c) /\ ~(i <= c - 1) /\ c + (i - (c - 1)) = i + 1
      BY <1>1, <1>3, <2>3
    <3>2. right[i - (c - 1)] = q[c + (i - (c - 1))]
      BY <1>5, <3>1
    <3> QED
      BY <2>1, <2>3, <3>1, <3>2
  <2> QED
    BY <2>2, <2>3
<1> QED
  BY <1>1, <1>7, <1>8

LEMMA WithoutOnce ==
  ASSUME NEW S, NEW q \in Seq(S), NEW x, Once(q)
  PROVE  /\ Once(Without(q, x))
         /\ Members(Without(q, x)) = Members(q) \ {x}
<1>1. CASE x \notin Members(q)
  BY <1>1 DEF Without
<1>2. CASE x \in Members(q)
  <2> DEFINE w == Without(q, x)
  <2>1. PICK c \in 1..Len(q) :
          /\ q[c] = x /\ Len(w) = Len(q) - 1
          /\ \A i \in 1..(Len(q) - 1) : w[i] = IF i < c THEN q[i] ELSE q[i + 1]
    BY <1>2, WithoutShifts
  <2>2. Len(q) \in Nat /\ c \in Nat
    BY <2>1, LenProperties
  <2> HIDE DEF w
  <2> DEFINE at(i) == IF i < c THEN i ELSE i + 1
  <2>3. \A i \in 1..(Len(q) - 1) : at(i) \in 1..Len(q) /\ at(i) # c /\ w[i] = q[at(i)]
    BY <2>1, <2>2
  <2>4. \A i, j \in 1..(Len(q) - 1) : at(i) = at(j) => i = j
    BY <2>2
  <2>5. \A k \in 1..Len(q) : k # c => \E i \in 1..(Len(q) - 1) : at(i) = k
    <3> SUFFICES ASSUME NEW k \in 1..Len(q), k # c
                 PROVE  \E i \in 1..(Len(q) - 1) : at(i) = k
      OBVIOUS
    <3>1. CASE k < c
      BY <2>1, <2>2, <3>1
    <3>2. CASE k > c
      <4>1. k - 1 \in 1..(Len(q) - 1) /\ at(k - 1) = k
        BY <2>1, <2>2, <3>2
      <4> QED
        BY <4>1
    <3> QED
      BY <2>1, <2>2, <3>1, <3>2
  <2> HIDE DEF at
  <2>6. Once(w)
    BY <2>1, <2>3, <2>4 DEF Once
  <2>7. Members(w) \subseteq Members(q) \ {x}
    BY <2>1, <2>3 DEF Members, Once
  <2>8. Members(q) \ {x} \subseteq Members(w)
    <3> SUFFICES ASSUME NEW k \in 1..Len(q), k # c PROVE q[k] \in Members(w)
      BY <2>1 DEF Members
    <3>1. PICK i \in 1..(Len(q) - 1) : at(i) = k
      BY <2>5
    <3>2. w[i] = q[k] /\ i \in 1..Len(w)
      BY <2>1, <2>3, <3>1
    <3> QED
      BY <3>2 DEF Members
  <2> QED
    BY <2>6, <2>7, <2>8 DEF w
<1> QED
  BY <1>1, <1>2

LEMMA AppendOnce ==
  ASSUME NEW S, NEW q \in Seq(S), NEW x \in S, Once(q), x \notin Members(q)
  PROVE  Once(Append(q, x))
<1>1. /\ Len(q) \in Nat /\ Len(Append(q, x)) = Len(q) + 1
      /\ \A i \in 1..Len(q) : Append(q, x)[i] = q[i] /\ q[i] # x
      /\ Append(q, x)[Len(q) + 1] = x
  BY AppendType, LenProperties DEF Members
<1> QED
  BY <1>1 DEF Once

LEMMA TailOnce ==
  ASSUME NEW S, NEW q \in Seq(S), q # <<>>, Once(q)
  PROVE  Once(Tail(q)) /\ Members(Tail(q)) = Members(q) \ {Head(q)}
<1>1. /\ Len(q) \in Nat \ {0} /\ Len(Tail(q)) = Len(q) - 1 /\ Head(q) = q[1]
      /\ \A i \in 1..(Len(q) - 1) : Tail(q)[i] = q[i + 1]
  BY TailType
<1>2. Once(Tail(q))
  BY <1>1 DEF Once
<1>3. Head(q) \notin Members(Tail(q))
  BY <1>1 DEF Once, Members
<1> QED
  BY <1>2, <1>3, MembersTail

IdsOnce == \A s \in Sessions : Once(seenIds[s])

\* What a session remembers once a new id is marked: the oldest may be pushed out.
Kept(s, e) ==
  IF Len(Append(seenIds[s], e)) > IdsPerSession
  THEN Tail(Append(seenIds[s], e)) ELSE Append(seenIds[s], e)

LEMMA MarkMoves ==
  ASSUME TypeOK, IdsOnce, NEW s \in Sessions, NEW e \in Events, ~Remembers(s, e), Mark(s, e)
  PROVE  /\ seenIds'[s] = Kept(s, e) /\ Once(Kept(s, e))
         /\ Append(seenIds[s], e) \in Seq(Events) \ {<<>>}
         /\ e \in Members(Kept(s, e))
         /\ Members(Kept(s, e)) \subseteq Members(seenIds[s]) \cup {e}
         /\ lapsed \subseteq lapsed'
         /\ \A t \in Sessions \ {s} :
              \/ seenIds'[t] = seenIds[t]
              \/ seenIds'[t] = <<>> /\ Members(seenIds[t]) \subseteq lapsed'
<1> DEFINE ids == Append(seenIds[s], e)
           stalest == Head(seenOrder)
<1>1. seenIds[s] \in Seq(Events) /\ Len(seenIds[s]) \in Nat
  BY LenProperties DEF TypeOK
<1>2. /\ ids \in Seq(Events) /\ Len(ids) = Len(seenIds[s]) + 1
      /\ ids[Len(seenIds[s]) + 1] = e /\ Members(ids) = Members(seenIds[s]) \cup {e}
  BY <1>1, AppendType, MembersAppend
<1>3. ids # <<>>
  BY <1>1, <1>2, EmptySeq
<1>4. Once(ids)
  BY <1>1, AppendOnce DEF IdsOnce, Remembers
<1>5. Once(Kept(s, e)) /\ Members(Kept(s, e)) \subseteq Members(seenIds[s]) \cup {e}
  <2> HIDE DEF ids
  <2>1. Once(Tail(ids)) /\ Members(Tail(ids)) \subseteq Members(ids)
    BY <1>2, <1>3, <1>4, TailOnce
  <2> QED
    BY <1>2, <1>4, <2>1 DEF Kept, ids
<1>6. e \in Members(Kept(s, e))
  <2>1. CASE Len(ids) > IdsPerSession
    <3>1. Len(ids) > 1
      BY <1>1, <1>2, <2>1, ConstantsAssumption
    <3>2. Once(ids) /\ Head(ids) = ids[1]
      BY <1>2, <1>3, <1>4, TailType
    <3>3. Head(ids) # e
      BY <1>1, <1>2, <3>1, <3>2 DEF Once
    <3>4. Members(Tail(ids)) = Members(ids) \ {Head(ids)}
      BY <1>2, <1>3, <1>4, TailOnce
    <3> QED
      BY <1>2, <2>1, <3>3, <3>4 DEF Kept
  <2>2. CASE ~(Len(ids) > IdsPerSession)
    BY <1>2, <2>2 DEF Kept
  <2> QED
    BY <2>1, <2>2
<1>7. CASE Crowded(s)
  <2>1. seenOrder \in Seq(Sessions) /\ seenOrder # <<>>
    BY <1>7, EmptySeq, ConstantsAssumption DEF Crowded, TypeOK
  <2>2. stalest \in Sessions
    BY <2>1, TailType
  <2>3. /\ seenIds' = [seenIds EXCEPT ![stalest] = <<>>, ![s] = Kept(s, e)]
        /\ lapsed' = lapsed \cup Members(seenIds[stalest])
    BY <1>7 DEF Mark, Kept
  <2> HIDE DEF stalest
  <2>4. seenIds'[s] = Kept(s, e)
    BY <2>2, <2>3 DEF TypeOK
  <2>5. \A t \in Sessions \ {s} :
          seenIds'[t] = IF t = stalest THEN <<>> ELSE seenIds[t]
    BY <2>2, <2>3 DEF TypeOK
  <2> QED
    BY <1>2, <1>3, <1>5, <1>6, <2>3, <2>4, <2>5
<1>8. CASE ~Crowded(s)
  <2>1. seenIds' = [seenIds EXCEPT ![s] = Kept(s, e)] /\ lapsed' = lapsed
    BY <1>8 DEF Mark, Kept
  <2> QED
    BY <1>2, <1>3, <1>5, <1>6, <2>1 DEF TypeOK
<1> QED
  BY <1>7, <1>8

LEMMA ForgetMoves ==
  ASSUME TypeOK, IdsOnce, NEW s \in Sessions, Forget(s)
  PROVE  \E u \in unsettled[s] :
           /\ unsettled' = [unsettled EXCEPT ![s] = @ \ {u}]
           /\ seenIds' = [seenIds EXCEPT ![s] = Without(@, u.event)]
           /\ Once(Without(seenIds[s], u.event))
           /\ Members(Without(seenIds[s], u.event)) = Members(seenIds[s]) \ {u.event}
           /\ UNCHANGED <<laneVars, lossVars, lapsed>>
<1>1. PICK u \in unsettled[s] :
        /\ unsettled' = [unsettled EXCEPT ![s] = @ \ {u}]
        /\ seenIds' = [seenIds EXCEPT ![s] = Without(@, u.event)]
        /\ UNCHANGED <<laneVars, lossVars, lapsed>>
  BY DEF Forget
<1>2. seenIds[s] \in Seq(Events) /\ Once(seenIds[s])
  BY DEF TypeOK, IdsOnce
<1>3. /\ Once(Without(seenIds[s], u.event))
      /\ Members(Without(seenIds[s], u.event)) = Members(seenIds[s]) \ {u.event}
  BY <1>2, WithoutOnce
<1> QED
  BY <1>1, <1>3

\* No id is remembered twice (seen.ts keeps them in a Set).
LEMMA IdsAreOnce == Spec => []IdsOnce
<1>1. Init => IdsOnce
  <2>1. Once(<<>>)
    BY EmptySeq DEF Once
  <2> QED
    BY <2>1 DEF Init, IdsOnce
<1>2. TypeOK /\ IdsOnce /\ [Next]_vars => IdsOnce'
  <2> SUFFICES ASSUME TypeOK, IdsOnce, [Next]_vars, NEW t \in Sessions
               PROVE  Once(seenIds'[t])
    BY DEF IdsOnce
  <2>0. Once(seenIds[t]) /\ Once(<<>>)
    BY EmptySeq DEF IdsOnce, Once
  <2>1. ASSUME NEW e \in Events, FoldFresh(e) PROVE Once(seenIds'[t])
    <3>1. SessionOf[e] \in Sessions
      BY ConstantsAssumption
    <3> QED
      BY <2>0, <2>1, <3>1, MarkMoves DEF FoldFresh
  <2>2. ASSUME NEW s \in Sessions, Forget(s) PROVE Once(seenIds'[t])
    <3>1. PICK u \in unsettled[s] :
            /\ seenIds' = [seenIds EXCEPT ![s] = Without(@, u.event)]
            /\ Once(Without(seenIds[s], u.event))
      BY <2>2, ForgetMoves
    <3> QED
      BY <2>0, <3>1 DEF TypeOK
  <2>3. CASE UNCHANGED seenIds
    BY <2>0, <2>3
  <2> QED
    BY <2>1, <2>2, <2>3
       DEF Next, FoldDuplicate, IngestTick, Finish, seenVars, vars
<1> QED
  BY <1>1, <1>2, TypeCorrect, PTL DEF Spec

\* The handlers a hand-over leaves waiting to hear that their event was let go.
ToldOf(s) ==
  IF Full(s) /\ Head(lanes[s].waiting).event # Tick
  THEN {[event |-> Head(lanes[s].waiting).event, at |-> tickets[s] + 1]} ELSE {}

LEMMA SubmitTells ==
  ASSUME TypeOK, NEW s \in Sessions, NEW e \in Events \cup {Tick}, Submit(s, e)
  PROVE  unsettled' = [unsettled EXCEPT ![s] = @ \cup ToldOf(s)]
<1>1. CASE Full(s) /\ Head(lanes[s].waiting).event # Tick
  BY <1>1 DEF Submit, Told, ToldOf
<1>2. CASE ~(Full(s) /\ Head(lanes[s].waiting).event # Tick)
  <2>1. unsettled' = unsettled
    BY <1>2 DEF Submit, Told
  <2>2. ToldOf(s) = {}
    BY <1>2 DEF ToldOf
  <2> QED
    BY <2>1, <2>2 DEF TypeOK
<1> QED
  BY <1>1, <1>2

\* Everything remembered is in hand, was run, or has a handler about to hear it was let go.
Taken(ids, now, run, told) ==
  \A e \in Members(ids) :
    (\E j \in now \cup run : j.event = e) \/ (\E u \in told : u.event = e)

\* A copy refused as a duplicate was really taken, so no event is refused
\* whose only other copy was let go (runtime.ts:132 fold, seen.ts firstTime).
THEOREM RefusalsAreJust == Spec => []RefusedWasTaken
<1> DEFINE T(s) == Taken(seenIds[s], InHand(s), Members(settled[s]), unsettled[s])
           Inv == \A s \in Sessions : T(s)
<1>1. Init => Inv
  BY EmptySeq DEF Init, Taken, Members
<1>2. TypeOK /\ OrderInv /\ IdsOnce /\ Inv /\ [Next]_vars => Inv'
  <2> SUFFICES ASSUME TypeOK, OrderInv, IdsOnce, Inv, [Next]_vars, NEW t \in Sessions
               PROVE  Taken(seenIds'[t], InHand(t)', Members(settled[t])', unsettled'[t])
    OBVIOUS
  <2>0. /\ Taken(seenIds[t], InHand(t), Members(settled[t]), unsettled[t])
        /\ Members(seenIds[t]) \subseteq Events /\ Members(<<>>) = {}
    <3>1. seenIds[t] \in Seq(Events)
      BY DEF TypeOK
    <3>2. Members(seenIds[t]) \subseteq Events
      BY <3>1, MembersType
    <3>3. Members(<<>>) = {}
      BY EmptySeq DEF Members
    <3> QED
      BY <3>2, <3>3
  <2>1. ASSUME NEW s \in Sessions, NEW e \in Events \cup {Tick}, Submit(s, e),
               Members(seenIds'[t]) \subseteq
                 Members(seenIds[t]) \cup (IF t = s THEN {e} ELSE {})
        PROVE  Taken(seenIds'[t], InHand(t)', Members(settled[t])', unsettled'[t])
    <3> DEFINE job == [event |-> e, ticket |-> tickets[s] + 1]
    <3>1. PICK rest :
            /\ InHand(s) = rest \cup LetGo(s)
            /\ InHand(s)' = rest \cup {job}
            /\ settled' = settled
            /\ \A u \in Sessions \ {s} : InHand(u)' = InHand(u)
      BY <2>1, SubmitMoves
    <3>2. unsettled' = [unsettled EXCEPT ![s] = @ \cup ToldOf(s)]
      BY <2>1, SubmitTells
    <3>3. Members(settled[t])' = Members(settled[t])
      BY <3>1 DEF Members
    <3>4. CASE t = s
      <4>1. unsettled'[s] = unsettled[s] \cup ToldOf(s)
        BY <3>2 DEF TypeOK
      <4>2. \A x \in Events : (\E j \in LetGo(s) : j.event = x) => \E u \in ToldOf(s) : u.event = x
        BY ConstantsAssumption DEF LetGo, ToldOf
      <4>3. job.event = e
        OBVIOUS
      <4> HIDE DEF job
      <4> SUFFICES ASSUME NEW x \in Members(seenIds'[t])
                   PROVE  \/ \E j \in InHand(t)' \cup Members(settled[t])' : j.event = x
                          \/ \E u \in unsettled'[t] : u.event = x
        BY DEF Taken
      <4>4. CASE x = e
        BY <3>1, <3>4, <4>3, <4>4
      <4>5. CASE x \in Members(seenIds[t])
        BY <2>0, <3>1, <3>3, <3>4, <4>1, <4>2, <4>5 DEF Taken
      <4> QED
        BY <2>1, <3>4, <4>4, <4>5
    <3>5. CASE t # s
      <4>1. unsettled'[t] = unsettled[t] /\ InHand(t)' = InHand(t)
        BY <3>1, <3>2, <3>5 DEF TypeOK
      <4> QED
        BY <2>0, <2>1, <3>3, <3>5, <4>1 DEF Taken
    <3> QED
      BY <3>4, <3>5
  <2>2. CASE UNCHANGED <<lanes, settled, seenIds, unsettled>>
    <3>1. Members(settled[t])' = Members(settled[t]) /\ InHand(t)' = InHand(t)
      BY <2>2 DEF Members, InHand
    <3> QED
      BY <2>0, <2>2, <3>1
  <2>3. ASSUME NEW e \in Events, FoldFresh(e)
        PROVE  Taken(seenIds'[t], InHand(t)', Members(settled[t])', unsettled'[t])
    <3> DEFINE s == SessionOf[e]
    <3>1. s \in Sessions /\ Mark(s, e) /\ Submit(s, e) /\ ~Remembers(s, e)
      BY <2>3, ConstantsAssumption DEF FoldFresh
    <3> HIDE DEF s
    <3>2. /\ e \in Members(seenIds'[s])
          /\ Members(seenIds'[s]) \subseteq Members(seenIds[s]) \cup {e}
          /\ \A r \in Sessions \ {s} : seenIds'[r] = seenIds[r] \/ seenIds'[r] = <<>>
      BY <3>1, MarkMoves
    <3> QED
      BY <2>0, <2>1, <3>1, <3>2
  <2>4. ASSUME NEW e \in Events, FoldDuplicate(e)
        PROVE  Taken(seenIds'[t], InHand(t)', Members(settled[t])', unsettled'[t])
    BY <2>2, <2>4 DEF FoldDuplicate, laneVars
  <2>5. ASSUME NEW s \in Sessions, IngestTick(s)
        PROVE  Taken(seenIds'[t], InHand(t)', Members(settled[t])', unsettled'[t])
    BY <2>1, <2>5 DEF IngestTick, seenVars
  <2>6. ASSUME NEW s \in Sessions, Finish(s)
        PROVE  Taken(seenIds'[t], InHand(t)', Members(settled[t])', unsettled'[t])
    <3> DEFINE job == lanes[s].running
    <3>1. PICK rest :
            /\ InHand(s) = rest \cup {job}
            /\ InHand(s)' = rest
            /\ Members(settled[s])' = Members(settled[s]) \cup {job}
            /\ \A u \in Sessions \ {s} : InHand(u)' = InHand(u) /\ settled'[u] = settled[u]
      BY <2>6, FinishMoves
    <3>2. seenIds' = seenIds /\ unsettled' = unsettled
      BY <2>6 DEF Finish, seenVars
    <3> HIDE DEF job
    <3>3. CASE t = s
      <4>1. InHand(t)' \cup Members(settled[t])' = InHand(t) \cup Members(settled[t])
        BY <3>1, <3>3
      <4> QED
        BY <2>0, <3>2, <4>1 DEF Taken
    <3>4. CASE t # s
      <4>1. Members(settled[t])' = Members(settled[t]) /\ InHand(t)' = InHand(t)
        BY <3>1, <3>4 DEF Members
      <4> QED
        BY <2>0, <3>2, <4>1
    <3> QED
      BY <3>3, <3>4
  <2>7. ASSUME NEW s \in Sessions, Forget(s)
        PROVE  Taken(seenIds'[t], InHand(t)', Members(settled[t])', unsettled'[t])
    <3>1. PICK u \in unsettled[s] :
            /\ unsettled' = [unsettled EXCEPT ![s] = @ \ {u}]
            /\ seenIds' = [seenIds EXCEPT ![s] = Without(@, u.event)]
            /\ Members(Without(seenIds[s], u.event)) = Members(seenIds[s]) \ {u.event}
            /\ UNCHANGED <<laneVars, lossVars, lapsed>>
      BY <2>7, ForgetMoves
    <3>2. Members(settled[t])' = Members(settled[t]) /\ InHand(t)' = InHand(t)
      BY <3>1 DEF Members, InHand, laneVars
    <3>3. CASE t = s
      <4>1. /\ unsettled'[t] = unsettled[t] \ {u}
            /\ Members(seenIds'[t]) = Members(seenIds[t]) \ {u.event}
        BY <3>1, <3>3 DEF TypeOK
      <4> QED
        BY <2>0, <3>2, <4>1 DEF Taken
    <3>4. CASE t # s
      <4>1. unsettled'[t] = unsettled[t] /\ seenIds'[t] = seenIds[t]
        BY <3>1, <3>4 DEF TypeOK
      <4> QED
        BY <2>0, <3>2, <4>1
    <3> QED
      BY <3>3, <3>4
  <2>8. CASE UNCHANGED vars
    BY <2>2, <2>8 DEF vars, laneVars, seenVars
  <2> QED
    BY <2>3, <2>4, <2>5, <2>6, <2>7, <2>8 DEF Next
<1>3. Inv => RefusedWasTaken
  <2> SUFFICES ASSUME Inv, NEW e \in Events, Remembers(SessionOf[e], e)
               PROVE  Held(e) \/ Settled(e) \/ Unsettled(e)
    BY DEF RefusedWasTaken
  <2>1. SessionOf[e] \in Sessions
    BY ConstantsAssumption
  <2> QED
    BY <2>1 DEF Taken, Remembers, Held, Settled, Unsettled
<1> QED
  BY <1>1, <1>2, <1>3, TypeCorrect, OrderInvariant, IdsAreOnce, PTL DEF Spec

-----------------------------------------------------------------------------
(* What senders are told they lost *)

LEMMA MovedToEndLength ==
  ASSUME NEW S, NEW q \in Seq(S), NEW x \in S
  PROVE  /\ MovedToEnd(q, x) \in Seq(S) \ {<<>>}
         /\ Len(q) \in Nat
         /\ Len(MovedToEnd(q, x)) \in {Len(q), Len(q) + 1} \ {0}
<1>1. Without(q, x) \in Seq(S) /\ Len(q) \in Nat /\ Len(Without(q, x)) \in Nat
  BY WithoutType, LenProperties
<1>2. Len(Without(q, x)) = IF x \in Members(q) THEN Len(q) - 1 ELSE Len(q)
  <2>1. x \in Members(q) => Len(Without(q, x)) = Len(q) - 1
    BY WithoutShifts
  <2> QED
    BY <2>1 DEF Without
<1>3. /\ MovedToEnd(q, x) \in Seq(S)
      /\ Len(MovedToEnd(q, x)) = Len(Without(q, x)) + 1
  BY <1>1, AppendType DEF MovedToEnd
<1>4. MovedToEnd(q, x) # <<>>
  BY <1>1, <1>3, EmptySeq
<1> QED
  BY <1>1, <1>2, <1>3, <1>4

\* The numbers a sender is told are never more than what was let go, and less
\* only once the map of losses is full (queue.ts, remember).
THEOREM TollIsTrue == Spec => []LossesAreTrue
<1> DEFINE Inv == /\ \A s \in Sessions : IsFiniteSet(lost[s])
                  /\ LossesAreTrue
<1>1. Init => Inv
  <2> SUFFICES ASSUME Init PROVE Inv
    OBVIOUS
  <2>1. Len(<<>>) = 0 /\ IsFiniteSet({}) /\ Cardinality({}) = 0
    BY EmptySeq, FS_EmptySet
  <2>2. \A s \in Sessions : losses[s] = 0 /\ lost[s] = {}
    BY DEF Init
  <2>3. lossOrder = <<>>
    BY DEF Init
  <2>4. \A s \in Sessions : losses[s] <= Cardinality(lost[s]) /\ ~(losses[s] < Cardinality(lost[s]))
    BY <2>1, <2>2
  <2>5. Len(lossOrder) <= LossSessions
    BY <2>1, <2>3, ConstantsAssumption
  <2> QED
    BY <2>1, <2>2, <2>4, <2>5 DEF LossesAreTrue
<1>2. TypeOK /\ OrderInv /\ NothingVanishes /\ Inv /\ [Next]_vars => Inv'
  <2> SUFFICES ASSUME TypeOK, OrderInv, NothingVanishes, Inv, [Next]_vars PROVE Inv'
    OBVIOUS
  <2>0. \A t \in Sessions :
          IsFiniteSet(lost[t]) /\ Cardinality(lost[t]) \in Nat /\ losses[t] \in Nat
    BY FS_CardinalityType DEF TypeOK
  <2>1. ASSUME NEW s \in Sessions, NEW e \in Events \cup {Tick}, Submit(s, e) PROVE Inv'
    <3>1. /\ lost' = [lost EXCEPT ![s] = @ \cup LetGo(s)]
          /\ LetGo(s) \subseteq InHand(s)
      BY <2>1, SubmitMoves
    <3>2. CASE ~Full(s)
      <4>1. lost' = lost /\ losses' = losses /\ lossOrder' = lossOrder
        BY <2>1, <3>2 DEF Submit, lossVars
      <4> QED
        BY <4>1 DEF LossesAreTrue
    <3>3. CASE Full(s)
      <4> DEFINE oldest == Head(lanes[s].waiting)
                 order == MovedToEnd(lossOrder, s)
                 counts == [losses EXCEPT ![s] = @ + 1]
                 D(t) == Cardinality(lost[t])
      <4>1. LetGo(s) = {oldest}
        BY <3>3 DEF LetGo
      <4>2. oldest \notin lost[s]
        <5>1. oldest \in InHand(s)
          BY <3>1, <4>1
        <5>2. TicketsOf(InHand(s)) \cap TicketsOf(lost[s]) = {}
          BY DEF NothingVanishes
        <5> HIDE DEF oldest
        <5> QED
          BY <5>1, <5>2 DEF TicketsOf
      <4>3. \A t \in Sessions :
              lost'[t] = IF t = s THEN lost[t] \cup {oldest} ELSE lost[t]
        BY <3>1, <4>1 DEF TypeOK
      <4>4. \A t \in Sessions : /\ IsFiniteSet(lost'[t])
                                /\ Cardinality(lost'[t]) = IF t = s THEN D(t) + 1 ELSE D(t)
        <5> HIDE DEF oldest
        <5>1. /\ IsFiniteSet(lost[s] \cup {oldest})
              /\ Cardinality(lost[s] \cup {oldest}) = D(s) + 1
          BY <2>0, <4>2, FS_AddElement
        <5> QED
          BY <2>0, <4>3, <5>1
      <4>5. /\ order \in Seq(Sessions) \ {<<>>} /\ Len(lossOrder) \in Nat
            /\ Len(order) \in {Len(lossOrder), Len(lossOrder) + 1} \ {0}
        BY MovedToEndLength DEF TypeOK
      <4>6. \A t \in Sessions : counts[t] = IF t = s THEN losses[t] + 1 ELSE losses[t]
        BY DEF TypeOK
      <4>7. Remember(s)
        BY <2>1, <3>3 DEF Submit
      <4>8. CASE Len(order) > LossSessions
        <5>1. lossOrder' = Tail(order) /\ losses' = [counts EXCEPT ![Head(order)] = 0]
          BY <4>7, <4>8 DEF Remember
        <5>2. Head(order) \in Sessions /\ Len(Tail(order)) = Len(order) - 1
          BY <4>5, TailType
        <5>3. \A t \in Sessions : losses'[t] = IF t = Head(order) THEN 0 ELSE counts[t]
          BY <5>1, <5>2 DEF TypeOK
        <5> HIDE DEF order, counts, D
        <5>4. Len(lossOrder') = LossSessions
          <6>1. Len(lossOrder) <= LossSessions /\ LossSessions \in Nat
            BY ConstantsAssumption DEF LossesAreTrue
          <6>2. Len(order) = Len(lossOrder) + 1 /\ Len(order) = LossSessions + 1
            BY <4>5, <4>8, <6>1
          <6> QED
            BY <5>1, <5>2, <6>1, <6>2
        <5>5. \A t \in Sessions : losses'[t] <= Cardinality(lost'[t])
          <6> SUFFICES ASSUME NEW t \in Sessions PROVE losses'[t] <= Cardinality(lost'[t])
            OBVIOUS
          <6>1. losses[t] <= D(t) /\ D(t) \in Nat /\ losses[t] \in Nat
            BY <2>0 DEF LossesAreTrue, D
          <6> QED
            BY <4>4, <4>6, <5>3, <6>1
        <5> QED
          BY <4>4, <5>4, <5>5, ConstantsAssumption DEF LossesAreTrue
      <4>9. CASE ~(Len(order) > LossSessions)
        <5>1. lossOrder' = order /\ losses' = counts
          BY <4>7, <4>9 DEF Remember
        <5> HIDE DEF order, counts, D
        <5>2. \A t \in Sessions :
                /\ losses'[t] <= Cardinality(lost'[t])
                /\ losses'[t] < Cardinality(lost'[t]) => losses[t] < D(t)
          <6> SUFFICES ASSUME NEW t \in Sessions
                       PROVE  /\ losses'[t] <= Cardinality(lost'[t])
                              /\ losses'[t] < Cardinality(lost'[t]) => losses[t] < D(t)
            OBVIOUS
          <6>1. losses[t] <= D(t) /\ D(t) \in Nat /\ losses[t] \in Nat
            BY <2>0 DEF LossesAreTrue, D
          <6> QED
            BY <4>4, <4>6, <5>1, <6>1
        <5>3. Len(lossOrder') <= LossSessions
          BY <4>5, <4>9, <5>1, ConstantsAssumption
        <5>4. Len(lossOrder) = LossSessions => Len(lossOrder') = LossSessions
          BY <4>5, <4>9, <5>1, ConstantsAssumption
        <5>5. (\E t \in Sessions : losses[t] < D(t)) => Len(lossOrder) = LossSessions
          BY DEF LossesAreTrue, D
        <5> QED
          BY <4>4, <5>2, <5>3, <5>4, <5>5 DEF LossesAreTrue
      <4> QED
        BY <4>8, <4>9
    <3> QED
      BY <3>2, <3>3
  <2>2. CASE UNCHANGED <<lost, lossOrder, losses>>
    BY <2>2 DEF LossesAreTrue
  <2>3. ASSUME NEW e \in Events, FoldFresh(e) PROVE Inv'
    BY <2>1, <2>3, ConstantsAssumption DEF FoldFresh
  <2>4. ASSUME NEW s \in Sessions, IngestTick(s) PROVE Inv'
    BY <2>1, <2>4 DEF IngestTick
  <2>5. ASSUME NEW s \in Sessions, Forget(s) PROVE Inv'
    BY <2>2, <2>5 DEF Forget, laneVars, lossVars
  <2> QED
    BY <2>2, <2>3, <2>4, <2>5
       DEF Next, FoldDuplicate, Finish, laneVars, lossVars, vars
<1>3. Inv => LossesAreTrue
  OBVIOUS
<1> QED
  BY <1>1, <1>2, <1>3, TypeCorrect, OrderInvariant, NothingIsLostUncounted, PTL DEF Spec

-----------------------------------------------------------------------------
(* The memory outlasts the lane                                            *)
(*                                                                         *)
(* The memory pushes its oldest id out to make room.  That id is never one *)
(* the runtime still has on its hands, because everything remembered after *)
(* a waiting event waits behind it, and everything remembered after the    *)
(* running one waits or was let go an instant ago.                         *)

WaitingFollows(ids, q) ==
  \A i \in 1..Len(ids), p \in 1..Len(q) : ids[i] = q[p].event =>
    /\ Len(ids) - i <= Len(q) - p
    /\ \A k \in (i + 1)..Len(ids) : \E r \in (p + 1)..Len(q) : ids[k] = q[r].event

WaitsOrTold(x, q, told) ==
  (\E r \in 1..Len(q) : x = q[r].event) \/ (\E u \in told : x = u.event)

RunningFollows(ids, job, q, told) ==
  job # NoJob =>
    \A i \in 1..Len(ids) : ids[i] = job.event =>
      \A k \in (i + 1)..Len(ids) : WaitsOrTold(ids[k], q, told)

ToldFollows(ids, told, n) ==
  \A u \in told, i \in 1..Len(ids) : ids[i] = u.event => Len(ids) - i <= Limit + n - u.at

Follows(ids, lane, told, n) ==
  /\ WaitingFollows(ids, lane.waiting)
  /\ RunningFollows(ids, lane.running, lane.waiting, told)
  /\ ToldFollows(ids, told, n)

Rejections == [event : Events, at : Nat]

LEMMA FollowsNothing ==
  ASSUME NEW lane, NEW told, NEW n
  PROVE  Follows(<<>>, lane, told, n)
<1>1. Len(<<>>) = 0
  BY EmptySeq
<1>2. 1..Len(<<>>) = {}
  BY <1>1
<1> QED
  BY <1>2 DEF Follows, WaitingFollows, RunningFollows, ToldFollows

\* A lane takes a job, and the memory its id.
LEMMA FollowsAppend ==
  ASSUME NEW ids \in Seq(Events), NEW q \in Seq(Job), NEW now, NEW told \in SUBSET Rejections,
         NEW n \in Nat, NEW job \in Job, job.event \in Events,
         job.event \notin Members(ids), \A u \in told : u.at <= n + 1,
         Follows(ids, [waiting |-> q, running |-> now], told, n)
  PROVE  Follows(Append(ids, job.event), [waiting |-> Append(q, job), running |-> now],
                 told, n + 1)
<1> DEFINE e == job.event
           ids2 == Append(ids, e)
           q2 == Append(q, job)
           L == Len(ids)
           M == Len(q)
<1>1. /\ L \in Nat /\ Len(ids2) = L + 1 /\ \A i \in 1..L : ids2[i] = ids[i] /\ ids[i] # e
      /\ ids2[L + 1] = e
  BY AppendType, LenProperties DEF Members
<1>2. /\ M \in Nat /\ Len(q2) = M + 1 /\ \A i \in 1..M : q2[i] = q[i]
      /\ q2[M + 1] = job
  BY AppendType, LenProperties
<1>3. WaitingFollows(ids, q) /\ RunningFollows(ids, now, q, told) /\ ToldFollows(ids, told, n)
  BY DEF Follows
<1>4. q2[M + 1].event = e
  BY <1>2
<1>0. Limit \in Nat
  BY ConstantsAssumption
<1> HIDE DEF e, ids2, q2, L, M
<1>5. WaitingFollows(ids2, q2)
  <2> SUFFICES ASSUME NEW i \in 1..Len(ids2), NEW p \in 1..Len(q2), ids2[i] = q2[p].event
               PROVE  /\ Len(ids2) - i <= Len(q2) - p
                      /\ \A k \in (i + 1)..Len(ids2) :
                           \E r \in (p + 1)..Len(q2) : ids2[k] = q2[r].event
    BY DEF WaitingFollows
  <2>0. i \in 1..(L + 1) /\ p \in 1..(M + 1)
    BY <1>1, <1>2
  <2>1. CASE i = L + 1
    BY <1>1, <1>2, <2>0, <2>1
  <2>2. CASE i \in 1..L
    <3>1. p \in 1..M /\ ids[i] = q[p].event
      <4>1. p # M + 1
        BY <1>1, <1>4, <2>2
      <4>2. p \in 1..M
        BY <1>2, <2>0, <4>1
      <4> QED
        BY <1>1, <1>2, <2>2, <4>2
    <3>2. /\ L - i <= M - p
          /\ \A k \in (i + 1)..L : \E r \in (p + 1)..M : ids[k] = q[r].event
      BY <1>3, <2>2, <3>1 DEF WaitingFollows, L, M
    <3>3. L + 1 - i <= M + 1 - p
      BY <1>1, <1>2, <3>2
    <3>4. ASSUME NEW k \in (i + 1)..(L + 1)
          PROVE  \E r \in (p + 1)..(M + 1) : ids2[k] = q2[r].event
      <4>1. CASE k = L + 1
        <5>1. M + 1 \in (p + 1)..(M + 1)
          BY <1>2, <3>1
        <5> QED
          BY <1>1, <1>4, <4>1, <5>1
      <4>2. CASE k # L + 1
        <5>1. k \in (i + 1)..L /\ k \in 1..L
          BY <1>1, <4>2
        <5>2. PICK r \in (p + 1)..M : ids[k] = q[r].event
          BY <3>2, <5>1
        <5>3. r \in 1..M /\ r \in (p + 1)..(M + 1)
          BY <1>2, <3>1, <5>2
        <5> QED
          BY <1>1, <1>2, <5>1, <5>2, <5>3
      <4> QED
        BY <4>1, <4>2
    <3> QED
      BY <1>1, <1>2, <3>3, <3>4
  <2> QED
    BY <1>1, <2>0, <2>1, <2>2
<1>6. RunningFollows(ids2, now, q2, told)
  <2> SUFFICES ASSUME now # NoJob, NEW i \in 1..(L + 1), ids2[i] = now.event,
                      NEW k \in (i + 1)..(L + 1)
               PROVE  WaitsOrTold(ids2[k], q2, told)
    BY <1>1 DEF RunningFollows
  <2>1. CASE k = L + 1
    <3>1. M + 1 \in 1..Len(q2)
      BY <1>2
    <3> QED
      BY <1>1, <1>4, <2>1, <3>1 DEF WaitsOrTold
  <2>2. CASE k # L + 1
    <3>1. i \in 1..L /\ k \in (i + 1)..L /\ k \in 1..L
      BY <1>1, <2>2
    <3>2. WaitsOrTold(ids[k], q, told)
      BY <1>1, <1>3, <3>1 DEF RunningFollows, L
    <3>3. \A r \in 1..M : r \in 1..Len(q2) /\ q2[r] = q[r]
      BY <1>2
    <3> QED
      BY <1>1, <3>1, <3>2, <3>3 DEF WaitsOrTold, M
  <2> QED
    BY <2>1, <2>2
<1>7. ToldFollows(ids2, told, n + 1)
  <2> SUFFICES ASSUME NEW u \in told, NEW i \in 1..(L + 1), ids2[i] = u.event
               PROVE  L + 1 - i <= Limit + (n + 1) - u.at
    BY <1>1 DEF ToldFollows
  <2>0. u.at \in Nat /\ u.at <= n + 1
    BY DEF Rejections
  <2>1. CASE i = L + 1
    BY <1>0, <1>1, <2>0, <2>1
  <2>2. CASE i \in 1..L
    <3>1. L - i <= Limit + n - u.at
      BY <1>1, <1>3, <2>2 DEF ToldFollows, L
    <3> QED
      BY <1>0, <1>1, <2>0, <3>1
  <2> QED
    BY <1>1, <2>1, <2>2
<1> QED
  BY <1>5, <1>6, <1>7 DEF Follows, ids2, q2, e

\* A lane takes a tick, which the memory never hears of.
LEMMA FollowsTick ==
  ASSUME NEW ids \in Seq(Events), NEW q \in Seq(Job), NEW now, NEW told \in SUBSET Rejections,
         NEW n \in Nat, NEW job \in Job, job.event = Tick,
         Follows(ids, [waiting |-> q, running |-> now], told, n)
  PROVE  Follows(ids, [waiting |-> Append(q, job), running |-> now], told, n + 1)
<1> DEFINE q2 == Append(q, job)
           L == Len(ids)
           M == Len(q)
<1>1. L \in Nat /\ \A i \in 1..L : ids[i] # Tick
  BY LenProperties, ElementOfSeq, ConstantsAssumption
<1>2. /\ M \in Nat /\ Len(q2) = M + 1 /\ \A i \in 1..M : q2[i] = q[i]
      /\ q2[M + 1] = job
  BY AppendType, LenProperties
<1>3. WaitingFollows(ids, q) /\ RunningFollows(ids, now, q, told) /\ ToldFollows(ids, told, n)
  BY DEF Follows
<1>0. Limit \in Nat
  BY ConstantsAssumption
<1>4. Len(q2) = M + 1 /\ Len(ids) = L
  BY <1>2 DEF L
<1> HIDE DEF q2, L, M
<1>5. WaitingFollows(ids, q2)
  <2> SUFFICES ASSUME NEW i \in 1..Len(ids), NEW p \in 1..Len(q2), ids[i] = q2[p].event
               PROVE  /\ Len(ids) - i <= Len(q2) - p
                      /\ \A k \in (i + 1)..Len(ids) :
                           \E r \in (p + 1)..Len(q2) : ids[k] = q2[r].event
    BY DEF WaitingFollows
  <2>1. i \in 1..L /\ p \in 1..M
    <3>1. i \in 1..L /\ p \in 1..(M + 1)
      BY <1>4
    <3>2. p # M + 1
      BY <1>1, <1>2, <3>1
    <3> QED
      BY <1>2, <3>1, <3>2
  <2>2. /\ L - i <= M - p
        /\ \A k \in (i + 1)..L : \E r \in (p + 1)..M : ids[k] = q[r].event
    BY <1>2, <1>3, <2>1 DEF WaitingFollows, L, M
  <2>3. \A r \in (p + 1)..M : r \in 1..M /\ r \in (p + 1)..(M + 1)
    BY <1>2, <2>1
  <2>4. L - i <= M + 1 - p
    BY <1>1, <1>2, <2>1, <2>2
  <2>5. \A k \in (i + 1)..L : \E r \in (p + 1)..(M + 1) : ids[k] = q2[r].event
    BY <1>2, <2>2, <2>3
  <2>6. Len(ids) - i <= Len(q2) - p
    BY <1>1, <1>2, <1>4, <2>1, <2>4
  <2>7. \A k \in (i + 1)..Len(ids) : \E r \in (p + 1)..Len(q2) : ids[k] = q2[r].event
    BY <1>4, <2>5
  <2> QED
    BY <2>6, <2>7
<1>6. RunningFollows(ids, now, q2, told)
  <2>1. \A r \in 1..M : r \in 1..Len(q2) /\ q2[r] = q[r]
    BY <1>2
  <2> QED
    BY <1>3, <2>1 DEF RunningFollows, WaitsOrTold, M
<1>7. ToldFollows(ids, told, n + 1)
  <2> SUFFICES ASSUME NEW u \in told, NEW i \in 1..L, ids[i] = u.event
               PROVE  L - i <= Limit + (n + 1) - u.at
    BY DEF ToldFollows, L
  <2>1. L - i <= Limit + n - u.at /\ u.at \in Nat
    BY <1>3 DEF ToldFollows, L, Rejections
  <2> QED
    BY <1>0, <1>1, <2>1
<1> QED
  BY <1>5, <1>6, <1>7 DEF Follows, q2

LEMMA WaitingTail ==
  ASSUME NEW ids, Len(ids) \in Nat, NEW q \in Seq(Job), q # <<>>, WaitingFollows(ids, q)
  PROVE  /\ WaitingFollows(ids, Tail(q))
         /\ \A i \in 1..Len(ids) : ids[i] = Head(q).event =>
              /\ Len(ids) - i <= Len(q) - 1
              /\ \A k \in (i + 1)..Len(ids) :
                   \E r \in 1..Len(Tail(q)) : ids[k] = Tail(q)[r].event
<1>1. /\ Len(q) \in Nat \ {0} /\ Len(Tail(q)) = Len(q) - 1 /\ Head(q) = q[1]
      /\ \A i \in 1..(Len(q) - 1) : Tail(q)[i] = q[i + 1]
  BY TailType
<1> DEFINE M == Len(q)
<1> HIDE DEF M
<1>2. ASSUME NEW p \in 1..M, NEW r \in (p + 1)..M
      PROVE  r - 1 \in p..(M - 1) /\ r - 1 \in 1..Len(Tail(q)) /\ Tail(q)[r - 1] = q[r]
  <2>1. r - 1 \in 1..(Len(q) - 1) /\ (r - 1) + 1 = r /\ r - 1 \in p..(M - 1)
    BY <1>1 DEF M
  <2> QED
    BY <1>1, <2>1
<1>3. WaitingFollows(ids, Tail(q))
  <2> SUFFICES ASSUME NEW i \in 1..Len(ids), NEW p \in 1..Len(Tail(q)),
                      ids[i] = Tail(q)[p].event
               PROVE  /\ Len(ids) - i <= Len(Tail(q)) - p
                      /\ \A k \in (i + 1)..Len(ids) :
                           \E r \in (p + 1)..Len(Tail(q)) : ids[k] = Tail(q)[r].event
    BY DEF WaitingFollows
  <2>1. p + 1 \in 1..M /\ ids[i] = q[p + 1].event
    BY <1>1 DEF M
  <2>2. /\ Len(ids) - i <= M - (p + 1)
        /\ \A k \in (i + 1)..Len(ids) : \E r \in ((p + 1) + 1)..M : ids[k] = q[r].event
    BY <2>1 DEF WaitingFollows, M
  <2>3. Len(ids) - i <= Len(Tail(q)) - p
    BY <1>1, <2>2 DEF M
  <2>4. ASSUME NEW r \in ((p + 1) + 1)..M
        PROVE  r - 1 \in (p + 1)..Len(Tail(q)) /\ Tail(q)[r - 1] = q[r]
    <3>1. (p + 1) \in 1..M /\ r \in ((p + 1) + 1)..M
      BY <2>1
    <3>2. r - 1 \in (p + 1)..(M - 1) /\ Tail(q)[r - 1] = q[r]
      BY <1>2, <3>1
    <3> QED
      BY <1>1, <3>2 DEF M
  <2> QED
    BY <2>2, <2>3, <2>4
<1>4. ASSUME NEW i \in 1..Len(ids), ids[i] = Head(q).event
      PROVE  /\ Len(ids) - i <= Len(q) - 1
             /\ \A k \in (i + 1)..Len(ids) :
                  \E r \in 1..Len(Tail(q)) : ids[k] = Tail(q)[r].event
  <2>1. 1 \in 1..M
    BY <1>1 DEF M
  <2>2. /\ Len(ids) - i <= M - 1
        /\ \A k \in (i + 1)..Len(ids) : \E r \in (1 + 1)..M : ids[k] = q[r].event
    BY <1>1, <1>4, <2>1 DEF WaitingFollows, M
  <2> QED
    BY <1>2, <2>1, <2>2 DEF M
<1> QED
  BY <1>3, <1>4

\* The oldest waiting job is let go, and its handler is yet to hear of it.
LEMMA FollowsDrop ==
  ASSUME NEW ids \in Seq(Events), NEW q \in Seq(Job), q # <<>>, Len(q) <= Limit, NEW now,
         NEW told \in SUBSET Rejections, NEW n \in Nat, NEW more \in SUBSET Rejections,
         \A i \in 1..Len(ids) : ids[i] = Head(q).event => \E u \in more : u.event = ids[i],
         \A u \in more : u.event = Head(q).event /\ u.at = n + 1,
         Follows(ids, [waiting |-> q, running |-> now], told, n)
  PROVE  Follows(ids, [waiting |-> Tail(q), running |-> now], told \cup more, n)
<1>1. /\ Len(ids) \in Nat /\ Len(q) \in Nat \ {0} /\ Len(Tail(q)) = Len(q) - 1
      /\ Head(q) = q[1] /\ \A i \in 1..(Len(q) - 1) : Tail(q)[i] = q[i + 1]
  BY TailType, LenProperties
<1>2. WaitingFollows(ids, q) /\ RunningFollows(ids, now, q, told) /\ ToldFollows(ids, told, n)
  BY DEF Follows
<1>0. Limit \in Nat
  BY ConstantsAssumption
<1>3. WaitingFollows(ids, Tail(q))
  BY <1>1, <1>2, WaitingTail
<1>4. RunningFollows(ids, now, Tail(q), told \cup more)
  <2> SUFFICES ASSUME NEW i \in 1..Len(ids), NEW k \in (i + 1)..Len(ids),
                      WaitsOrTold(ids[k], q, told)
               PROVE  WaitsOrTold(ids[k], Tail(q), told \cup more)
    BY <1>2 DEF RunningFollows
  <2>1. CASE \E u \in told : ids[k] = u.event
    BY <2>1 DEF WaitsOrTold
  <2>2. CASE \E r \in 1..Len(q) : ids[k] = q[r].event
    <3>1. PICK r \in 1..Len(q) : ids[k] = q[r].event
      BY <2>2
    <3>2. CASE r = 1
      <4>1. k \in 1..Len(ids) /\ ids[k] = Head(q).event
        BY <1>1, <3>1, <3>2
      <4> QED
        BY <4>1 DEF WaitsOrTold
    <3>3. CASE r # 1
      <4>1. r - 1 \in 1..(Len(q) - 1) /\ (r - 1) + 1 = r
        BY <1>1, <3>1, <3>3
      <4>2. Tail(q)[r - 1] = q[r] /\ r - 1 \in 1..Len(Tail(q))
        BY <1>1, <4>1
      <4> QED
        BY <3>1, <4>2 DEF WaitsOrTold
    <3> QED
      BY <3>2, <3>3
  <2> QED
    BY <2>1, <2>2 DEF WaitsOrTold
<1>5. ToldFollows(ids, told \cup more, n)
  <2> SUFFICES ASSUME NEW u \in more, NEW i \in 1..Len(ids), ids[i] = u.event
               PROVE  Len(ids) - i <= Limit + n - u.at
    BY <1>2 DEF ToldFollows
  <2>1. u.at = n + 1 /\ ids[i] = Head(q).event
    OBVIOUS
  <2>2. Len(ids) - i <= Len(q) - 1
    BY <1>1, <1>2, <2>1, WaitingTail
  <2> QED
    BY <1>0, <1>1, <2>1, <2>2
<1> QED
  BY <1>3, <1>4, <1>5 DEF Follows

\* An idle lane starts the job at its front.
LEMMA FollowsPumped ==
  ASSUME NEW ids \in Seq(Events), NEW lane \in Lane, NEW told, NEW n,
         Follows(ids, lane, told, n)
  PROVE  Follows(ids, Pumped(lane), told, n)
<1>1. CASE lane.running = NoJob /\ lane.waiting # <<>>
  <2>1. /\ Pumped(lane).waiting = Tail(lane.waiting)
        /\ Pumped(lane).running = Head(lane.waiting)
    BY <1>1 DEF Pumped
  <2>2. lane.waiting \in Seq(Job) /\ Len(ids) \in Nat
    BY LenProperties DEF Lane
  <2>3. WaitingFollows(ids, lane.waiting) /\ ToldFollows(ids, told, n)
    BY DEF Follows
  <2>4. /\ WaitingFollows(ids, Tail(lane.waiting))
        /\ \A i \in 1..Len(ids) : ids[i] = Head(lane.waiting).event =>
             \A k \in (i + 1)..Len(ids) :
               \E r \in 1..Len(Tail(lane.waiting)) : ids[k] = Tail(lane.waiting)[r].event
    BY <1>1, <2>2, <2>3, WaitingTail
  <2>5. RunningFollows(ids, Head(lane.waiting), Tail(lane.waiting), told)
    BY <2>4 DEF RunningFollows, WaitsOrTold
  <2> QED
    BY <2>1, <2>3, <2>4, <2>5 DEF Follows
<1>2. CASE ~(lane.running = NoJob /\ lane.waiting # <<>>)
  BY <1>2 DEF Pumped
<1> QED
  BY <1>1, <1>2

\* The memory loses an id, its oldest or one whose handler heard it was let go: what is left
\* keeps its order.
LEMMA FollowsThinned ==
  ASSUME NEW ids, NEW thin, NEW at, NEW lane, NEW told \in SUBSET Rejections, NEW n \in Nat,
         NEW left \in SUBSET told, Len(ids) \in Nat, Len(thin) \in Nat,
         \A i \in 1..Len(thin) :
           at[i] \in 1..Len(ids) /\ thin[i] = ids[at[i]] /\ Len(thin) - i <= Len(ids) - at[i],
         \A i \in 1..Len(thin) : \A k \in (i + 1)..Len(thin) : at[i] < at[k],
         \A i \in 1..Len(thin), u \in told \ left : thin[i] # u.event,
         Follows(ids, lane, told, n)
  PROVE  Follows(thin, lane, left, n)
<1>0. Limit \in Nat
  BY ConstantsAssumption
<1>1. /\ WaitingFollows(ids, lane.waiting)
      /\ RunningFollows(ids, lane.running, lane.waiting, told)
      /\ ToldFollows(ids, told, n)
  BY DEF Follows
<1>2. ASSUME NEW i \in 1..Len(thin), NEW k \in (i + 1)..Len(thin)
      PROVE  /\ k \in 1..Len(thin) /\ at[k] \in (at[i] + 1)..Len(ids)
             /\ at[i] \in 1..Len(ids) /\ thin[k] = ids[at[k]]
  <2>1. k \in 1..Len(thin)
    BY <1>2
  <2>2. at[i] < at[k] /\ at[i] \in 1..Len(ids) /\ at[k] \in 1..Len(ids) /\ thin[k] = ids[at[k]]
    BY <1>2, <2>1
  <2> QED
    BY <2>1, <2>2
<1>3. WaitingFollows(thin, lane.waiting)
  <2> SUFFICES ASSUME NEW i \in 1..Len(thin), NEW p \in 1..Len(lane.waiting),
                      thin[i] = lane.waiting[p].event
               PROVE  /\ Len(thin) - i <= Len(lane.waiting) - p
                      /\ \A k \in (i + 1)..Len(thin) :
                           \E r \in (p + 1)..Len(lane.waiting) :
                             thin[k] = lane.waiting[r].event
    BY DEF WaitingFollows
  <2>1. /\ at[i] \in 1..Len(ids) /\ ids[at[i]] = lane.waiting[p].event
        /\ Len(thin) - i <= Len(ids) - at[i]
    OBVIOUS
  <2>2. /\ Len(ids) - at[i] <= Len(lane.waiting) - p
        /\ \A k \in (at[i] + 1)..Len(ids) :
             \E r \in (p + 1)..Len(lane.waiting) : ids[k] = lane.waiting[r].event
    BY <1>1, <2>1 DEF WaitingFollows
  <2>3. ASSUME NEW k \in (i + 1)..Len(thin)
        PROVE  \E r \in (p + 1)..Len(lane.waiting) : thin[k] = lane.waiting[r].event
    <3>1. at[k] \in (at[i] + 1)..Len(ids) /\ thin[k] = ids[at[k]]
      BY <1>2
    <3> QED
      BY <2>2, <3>1
  <2>4. Len(thin) - i <= Len(lane.waiting) - p
    <3>1. at[i] \in Int /\ p \in Int /\ i \in Int
      BY <2>1
    <3> QED
      BY <2>1, <2>2, <3>1
  <2> QED
    BY <2>3, <2>4
<1>4. RunningFollows(thin, lane.running, lane.waiting, left)
  <2> SUFFICES ASSUME lane.running # NoJob, NEW i \in 1..Len(thin),
                      thin[i] = lane.running.event, NEW k \in (i + 1)..Len(thin)
               PROVE  WaitsOrTold(thin[k], lane.waiting, left)
    BY DEF RunningFollows
  <2>1. at[i] \in 1..Len(ids) /\ ids[at[i]] = lane.running.event
    OBVIOUS
  <2>2. WaitsOrTold(thin[k], lane.waiting, told)
    BY <1>1, <1>2, <2>1 DEF RunningFollows
  <2>3. \A u \in told \ left : thin[k] # u.event
    BY <1>2
  <2> QED
    BY <2>2, <2>3 DEF WaitsOrTold
<1>5. ToldFollows(thin, left, n)
  <2> SUFFICES ASSUME NEW u \in left, NEW i \in 1..Len(thin), thin[i] = u.event
               PROVE  Len(thin) - i <= Limit + n - u.at
    BY DEF ToldFollows
  <2>1. /\ at[i] \in 1..Len(ids) /\ ids[at[i]] = u.event /\ u \in told
        /\ Len(thin) - i <= Len(ids) - at[i]
    OBVIOUS
  <2>2. Len(ids) - at[i] <= Limit + n - u.at /\ u.at \in Nat
    BY <1>1, <2>1 DEF ToldFollows, Rejections
  <2> QED
    BY <1>0, <2>1, <2>2
<1> QED
  BY <1>3, <1>4, <1>5 DEF Follows

LEMMA FollowsTail ==
  ASSUME NEW ids \in Seq(Events), ids # <<>>, NEW lane, NEW told \in SUBSET Rejections,
         NEW n \in Nat, Follows(ids, lane, told, n)
  PROVE  Follows(Tail(ids), lane, told, n)
<1> DEFINE at == [i \in 1..Len(Tail(ids)) |-> i + 1]
<1>1. /\ Len(ids) \in Nat \ {0} /\ Len(Tail(ids)) = Len(ids) - 1
      /\ \A i \in 1..(Len(ids) - 1) : Tail(ids)[i] = ids[i + 1]
  BY TailType
<1>2. /\ Len(Tail(ids)) \in Nat
      /\ \A i \in 1..Len(Tail(ids)) :
           /\ at[i] \in 1..Len(ids) /\ Tail(ids)[i] = ids[at[i]]
           /\ Len(Tail(ids)) - i <= Len(ids) - at[i]
      /\ \A i \in 1..Len(Tail(ids)) : \A k \in (i + 1)..Len(Tail(ids)) : at[i] < at[k]
  BY <1>1
<1> HIDE DEF at
<1> QED
  BY <1>1, <1>2, FollowsThinned

LEMMA WithoutPlaces ==
  ASSUME NEW S, NEW q \in Seq(S), NEW x
  PROVE  \E at : /\ \A i \in 1..Len(Without(q, x)) :
                      /\ at[i] \in 1..Len(q) /\ Without(q, x)[i] = q[at[i]]
                      /\ Len(Without(q, x)) - i <= Len(q) - at[i]
                 /\ \A i \in 1..Len(Without(q, x)) :
                      \A k \in (i + 1)..Len(Without(q, x)) : at[i] < at[k]
<1> DEFINE w == Without(q, x)
<1>1. Len(w) \in Nat /\ Len(q) \in Nat
  BY WithoutType, LenProperties
<1>2. CASE x \notin Members(q)
  <2> DEFINE at == [i \in 1..Len(w) |-> i]
  <2>1. w = q
    BY <1>2 DEF Without
  <2> HIDE DEF w
  <2>2. /\ \A i \in 1..Len(w) :
             at[i] \in 1..Len(q) /\ w[i] = q[at[i]] /\ Len(w) - i <= Len(q) - at[i]
        /\ \A i \in 1..Len(w) : \A k \in (i + 1)..Len(w) : at[i] < at[k]
    BY <1>1, <2>1
  <2> HIDE DEF at
  <2> QED
    BY <2>2 DEF w
<1>3. CASE x \in Members(q)
  <2>1. PICK c \in 1..Len(q) :
          /\ q[c] = x /\ Len(w) = Len(q) - 1
          /\ \A i \in 1..(Len(q) - 1) : w[i] = IF i < c THEN q[i] ELSE q[i + 1]
    BY <1>3, WithoutShifts
  <2> DEFINE at == [i \in 1..Len(w) |-> IF i < c THEN i ELSE i + 1]
  <2> HIDE DEF w
  <2>2. /\ \A i \in 1..Len(w) :
             at[i] \in 1..Len(q) /\ w[i] = q[at[i]] /\ Len(w) - i <= Len(q) - at[i]
        /\ \A i \in 1..Len(w) : \A k \in (i + 1)..Len(w) : at[i] < at[k]
    BY <1>1, <2>1
  <2> HIDE DEF at
  <2> QED
    BY <2>2 DEF w
<1> QED
  BY <1>2, <1>3

LEMMA FollowsWithout ==
  ASSUME NEW ids \in Seq(Events), Once(ids), NEW lane, NEW told \in SUBSET Rejections,
         NEW n \in Nat, NEW u \in told, Follows(ids, lane, told, n)
  PROVE  Follows(Without(ids, u.event), lane, told \ {u}, n)
<1> DEFINE x == u.event
           w == Without(ids, x)
<1> HIDE DEF x
<1>1. w \in Seq(Events) /\ Members(w) = Members(ids) \ {x}
  BY WithoutType, WithoutOnce
<1>2. Len(w) \in Nat /\ Len(ids) \in Nat
  BY <1>1, LenProperties
<1>3. \A i \in 1..Len(w), v \in told \ (told \ {u}) : w[i] # v.event
  BY <1>1 DEF Members, x
<1>4. PICK at : /\ \A i \in 1..Len(w) :
                     /\ at[i] \in 1..Len(ids) /\ w[i] = ids[at[i]]
                     /\ Len(w) - i <= Len(ids) - at[i]
                /\ \A i \in 1..Len(w) : \A k \in (i + 1)..Len(w) : at[i] < at[k]
  BY WithoutPlaces
<1> HIDE DEF w
<1>5. Follows(w, lane, told \ {u}, n)
  BY <1>2, <1>3, <1>4, FollowsThinned
<1> QED
  BY <1>5 DEF w, x

\* What a full memory pushes out is no longer on the runtime's hands.
LEMMA OldestIsDone ==
  ASSUME NEW ids \in Seq(Events), NEW lane \in Lane, NEW told \in SUBSET Rejections,
         NEW n \in Nat, Follows(ids, lane, told, n), Len(lane.waiting) <= Limit,
         \A u \in told : n - u.at <= Burst,
         Len(ids) > Limit + Burst + 2
  PROVE  /\ \A j \in Hands(lane) : j.event # ids[1]
         /\ \A u \in told : u.event # ids[1]
<1>1. /\ Len(ids) \in Nat /\ lane.waiting \in Seq(Job) /\ Len(lane.waiting) \in Nat
      /\ Limit \in Nat /\ Burst \in Nat
  BY LenProperties, ConstantsAssumption DEF Lane
<1>2. 1 \in 1..Len(ids) /\ 2 \in 1..Len(ids) /\ 2 \in (1 + 1)..Len(ids)
  BY <1>1
<1>3. /\ WaitingFollows(ids, lane.waiting)
      /\ RunningFollows(ids, lane.running, lane.waiting, told)
      /\ ToldFollows(ids, told, n)
  BY DEF Follows
<1>4. ASSUME NEW i \in {1, 2}, NEW p \in 1..Len(lane.waiting), lane.waiting[p].event = ids[i]
      PROVE  FALSE
  <2>1. Len(ids) - i <= Len(lane.waiting) - p
    BY <1>2, <1>3, <1>4 DEF WaitingFollows
  <2> QED
    BY <1>1, <2>1
<1>5. ASSUME NEW i \in {1, 2}, NEW u \in told, u.event = ids[i]
      PROVE  FALSE
  <2>1. Len(ids) - i <= Limit + n - u.at
    BY <1>2, <1>3, <1>5 DEF ToldFollows
  <2>2. u.at \in Nat /\ n - u.at <= Burst
    BY DEF Rejections
  <2> QED
    BY <1>1, <2>1, <2>2
<1>6. ASSUME lane.running # NoJob, lane.running.event = ids[1]
      PROVE  FALSE
  <2>1. WaitsOrTold(ids[2], lane.waiting, told)
    BY <1>2, <1>3, <1>6 DEF RunningFollows
  <2> QED
    BY <1>4, <1>5, <2>1 DEF WaitsOrTold
<1> QED
  BY <1>4, <1>5, <1>6 DEF Hands, Members

\* One session's memory, lane and rejections agree.
InStep(ids, lane, told, n) ==
  /\ Follows(ids, lane, told, n)
  /\ Len(lane.waiting) <= Limit
  /\ \A u \in told : u.at <= n

MemoryInv == \A s \in Sessions : InStep(seenIds[s], lanes[s], unsettled[s], tickets[s])

LEMMA PumpedIsShorter ==
  ASSUME NEW lane \in Lane, Len(lane.waiting) <= Limit
  PROVE  Len(Pumped(lane).waiting) <= Limit
<1>1. CASE lane.running = NoJob /\ lane.waiting # <<>>
  <2>1. Pumped(lane).waiting = Tail(lane.waiting) /\ lane.waiting \in Seq(Job)
    BY <1>1 DEF Pumped, Lane
  <2>2. /\ Len(Tail(lane.waiting)) = Len(lane.waiting) - 1
        /\ Len(lane.waiting) \in Nat /\ Limit \in Nat
    BY <1>1, <2>1, TailType, ConstantsAssumption
  <2> QED
    BY <2>1, <2>2
<1>2. CASE ~(lane.running = NoJob /\ lane.waiting # <<>>)
  BY <1>2 DEF Pumped
<1> QED
  BY <1>1, <1>2

LEMMA LaneIs ==
  ASSUME NEW lane \in Lane
  PROVE  /\ lane = [waiting |-> lane.waiting, running |-> lane.running]
         /\ lane.waiting \in Seq(Job)
         /\ \A q \in Seq(Job) :
              /\ [lane EXCEPT !.waiting = q] = [waiting |-> q, running |-> lane.running]
              /\ [lane EXCEPT !.waiting = q] \in Lane
         /\ [lane EXCEPT !.running = NoJob] = [waiting |-> lane.waiting, running |-> NoJob]
         /\ [lane EXCEPT !.running = NoJob] \in Lane
  BY DEF Lane

\* Handing over a job keeps them in step, before the memory makes room.
LEMMA SubmitFollows ==
  ASSUME TypeOK, MemoryInv, NEW s \in Sessions, NEW e \in Events \cup {Tick}, Submit(s, e),
         e \notin Members(seenIds[s]),
         NEW ids2, ids2 = IF e = Tick THEN seenIds[s] ELSE Append(seenIds[s], e)
  PROVE  /\ InStep(ids2, lanes'[s], unsettled'[s], tickets'[s])
         /\ \A u \in unsettled'[s] : tickets'[s] - u.at <= Burst
         /\ unsettled'[s] \in SUBSET Rejections
         /\ \A t \in Sessions \ {s} : /\ lanes'[t] = lanes[t] /\ unsettled'[t] = unsettled[t]
                                      /\ tickets'[t] = tickets[t]
<1> DEFINE ids == seenIds[s]
           lane == lanes[s]
           q == lane.waiting
           now == lane.running
           q1 == IF Full(s) THEN Tail(q) ELSE q
           n == tickets[s]
           told == unsettled[s]
           told1 == told \cup ToldOf(s)
           job == [event |-> e, ticket |-> n + 1]
           queued == [lane EXCEPT !.waiting = Append(q1, job)]
<1>1. /\ ids \in Seq(Events) /\ lane \in Lane /\ n \in Nat /\ q \in Seq(Job)
      /\ told \in SUBSET Rejections
  BY DEF TypeOK, Lane, Rejections
<1>2. job \in Job /\ job.event = e
  BY <1>1 DEF Job
<1>3. /\ lanes' = [lanes EXCEPT ![s] = Pumped(queued)]
      /\ tickets' = [tickets EXCEPT ![s] = @ + 1]
      /\ unsettled' = [unsettled EXCEPT ![s] = @ \cup ToldOf(s)]
  BY SubmitTells DEF Submit, Queued
<1>4. /\ lanes'[s] = Pumped(queued) /\ tickets'[s] = n + 1 /\ unsettled'[s] = told1
      /\ \A t \in Sessions \ {s} : /\ lanes'[t] = lanes[t] /\ unsettled'[t] = unsettled[t]
                                   /\ tickets'[t] = tickets[t]
  BY <1>3 DEF TypeOK
<1>5. /\ Follows(ids, lane, told, n) /\ Len(q) <= Limit
      /\ \A u \in told : u.at <= n
  BY DEF MemoryInv, InStep
<1>6. \A u \in told : n - u.at < Burst
  BY DEF Submit
<1>7. /\ Full(s) <=> Len(q) >= Limit
      /\ Limit \in Nat \ {0} /\ Burst \in Nat /\ Len(q) \in Nat
      /\ Full(s) => q # <<>>
  BY <1>1, LenProperties, EmptySeq, ConstantsAssumption DEF Full
<1>8. q1 \in Seq(Job) /\ Len(q1) \in Nat /\ Len(q1) + 1 <= Limit
  <2>1. CASE Full(s)
    BY <1>1, <1>5, <1>7, <2>1, TailType
  <2>2. CASE ~Full(s)
    BY <1>1, <1>7, <2>2
  <2> QED
    BY <2>1, <2>2
<1>9. /\ ToldOf(s) \in SUBSET Rejections
      /\ \A u \in ToldOf(s) : Full(s) /\ u.event = Head(q).event /\ u.at = n + 1
      /\ Full(s) /\ Head(q).event # Tick => \E u \in ToldOf(s) : u.event = Head(q).event
  <2>1. CASE Full(s) /\ Head(q).event # Tick
    <3>1. Head(q) \in Job
      BY <1>1, <1>7, <2>1, TailType
    <3>2. Head(q).event \in Events /\ n + 1 \in Nat
      BY <1>1, <2>1, <3>1 DEF Job
    <3>3. ToldOf(s) = {[event |-> Head(q).event, at |-> n + 1]}
      BY <2>1 DEF ToldOf
    <3> QED
      BY <2>1, <3>2, <3>3 DEF Rejections
  <2>2. CASE ~(Full(s) /\ Head(q).event # Tick)
    BY <2>2 DEF ToldOf
  <2> QED
    BY <2>1, <2>2
<1>10. lane = [waiting |-> q, running |-> now]
  BY <1>1, LaneIs
<1> HIDE DEF ids, lane, q, now, q1, n, told, told1, job
<1>11. Follows(ids, [waiting |-> q1, running |-> now], told1, n)
  <2>1. CASE Full(s)
    <3>1. \A i \in 1..Len(ids) : ids[i] = Head(q).event => \E u \in ToldOf(s) : u.event = ids[i]
      <4>1. \A i \in 1..Len(ids) : ids[i] # Tick
        BY <1>1, ElementOfSeq, ConstantsAssumption
      <4> QED
        BY <1>9, <2>1, <4>1
    <3>2. Follows(ids, [waiting |-> Tail(q), running |-> now], told \cup ToldOf(s), n)
      BY <1>1, <1>5, <1>7, <1>9, <1>10, <2>1, <3>1, FollowsDrop
    <3> QED
      BY <2>1, <3>2 DEF q1, told1
  <2>2. CASE ~Full(s)
    <3>1. q1 = q /\ ToldOf(s) = {} /\ told1 = told
      BY <1>9, <2>2 DEF q1, told1
    <3> QED
      BY <1>5, <1>10, <3>1
  <2> QED
    BY <2>1, <2>2
<1>12. /\ told1 \in SUBSET Rejections
       /\ \A u \in told1 : u.at \in Nat /\ u.at <= n + 1 /\ n + 1 - u.at <= Burst
  <2>1. \A u \in told : u.at \in Nat /\ u.at <= n + 1 /\ n + 1 - u.at <= Burst
    <3> SUFFICES ASSUME NEW u \in told
                 PROVE  u.at \in Nat /\ u.at <= n + 1 /\ n + 1 - u.at <= Burst
      OBVIOUS
    <3>1. u.at \in Nat /\ u.at <= n /\ n - u.at < Burst
      BY <1>1, <1>5, <1>6 DEF Rejections
    <3> QED
      BY <1>1, <1>7, <3>1
  <2>2. \A u \in ToldOf(s) : u.at \in Nat /\ u.at <= n + 1 /\ n + 1 - u.at <= Burst
    BY <1>1, <1>7, <1>9
  <2> QED
    BY <1>1, <1>9, <2>1, <2>2 DEF told1
<1>13. Follows(ids2, [waiting |-> Append(q1, job), running |-> now], told1, n + 1)
  <2>1. CASE e = Tick
    BY <1>1, <1>2, <1>8, <1>11, <1>12, <2>1, FollowsTick DEF ids
  <2>2. CASE e # Tick
    <3>1. e \in Events /\ e \notin Members(ids) /\ ids2 = Append(ids, job.event)
      BY <1>2, <2>2 DEF ids
    <3> QED
      BY <1>1, <1>2, <1>8, <1>11, <1>12, <3>1, FollowsAppend
  <2> QED
    BY <2>1, <2>2
<1>14. /\ queued = [waiting |-> Append(q1, job), running |-> now] /\ queued \in Lane
       /\ Append(q1, job) \in Seq(Job) /\ Len(Append(q1, job)) = Len(q1) + 1
  <2>1. Append(q1, job) \in Seq(Job) /\ Len(Append(q1, job)) = Len(q1) + 1
    BY <1>2, <1>8, AppendType
  <2> QED
    BY <1>1, <2>1, LaneIs DEF now
<1>15. ids2 \in Seq(Events)
  <2>1. e # Tick => Append(ids, e) \in Seq(Events)
    BY <1>1, AppendType
  <2> QED
    BY <1>1, <2>1 DEF ids
<1> HIDE DEF queued
<1>16. Follows(ids2, Pumped(queued), told1, n + 1)
  BY <1>13, <1>14, <1>15, FollowsPumped
<1>17. Len(Pumped(queued).waiting) <= Limit
  <2>1. queued.waiting = Append(q1, job)
    BY <1>14
  <2>2. Len(queued.waiting) <= Limit
    BY <1>8, <1>14, <2>1
  <2> QED
    BY <1>14, <2>2, PumpedIsShorter
<1>18. InStep(ids2, Pumped(queued), told1, n + 1)
  BY <1>12, <1>16, <1>17 DEF InStep
<1>19. InStep(ids2, lanes'[s], unsettled'[s], tickets'[s])
  BY <1>4, <1>18
<1>20. \A u \in unsettled'[s] : tickets'[s] - u.at <= Burst
  <2> SUFFICES ASSUME NEW u \in told1 PROVE tickets'[s] - u.at <= Burst
    BY <1>4
  <2>1. tickets'[s] = n + 1 /\ n + 1 - u.at <= Burst /\ n \in Nat /\ u.at \in Nat
    BY <1>1, <1>4, <1>12
  <2> QED
    BY <2>1
<1> QED
  BY <1>4, <1>12, <1>19, <1>20

\* The memory, the lane and the rejections agree in every state.
LEMMA MemoryFollows == Spec => []MemoryInv
<1>1. Init => MemoryInv
  <2> SUFFICES ASSUME Init, NEW s \in Sessions
               PROVE  InStep(seenIds[s], lanes[s], unsettled[s], tickets[s])
    BY DEF MemoryInv
  <2>1. /\ seenIds[s] = <<>> /\ lanes[s].waiting = <<>> /\ unsettled[s] = {}
    BY DEF Init, EmptyLane
  <2>2. Len(lanes[s].waiting) <= Limit
    BY <2>1, EmptySeq, ConstantsAssumption
  <2> QED
    BY <2>1, <2>2, FollowsNothing DEF InStep
<1>2. TypeOK /\ IdsOnce /\ MemoryInv /\ [Next]_vars => MemoryInv'
  <2> SUFFICES ASSUME TypeOK, IdsOnce, MemoryInv, [Next]_vars, NEW t \in Sessions
               PROVE  InStep(seenIds'[t], lanes'[t], unsettled'[t], tickets'[t])
    BY DEF MemoryInv
  <2>0. /\ InStep(seenIds[t], lanes[t], unsettled[t], tickets[t])
        /\ seenIds[t] \in Seq(Events) /\ lanes[t] \in Lane /\ Once(seenIds[t])
        /\ unsettled[t] \in SUBSET Rejections /\ tickets[t] \in Nat
    BY DEF MemoryInv, TypeOK, Lane, IdsOnce, Rejections
  <2>1. ASSUME NEW e \in Events, FoldFresh(e)
        PROVE  InStep(seenIds'[t], lanes'[t], unsettled'[t], tickets'[t])
    <3> DEFINE s == SessionOf[e]
               ids2 == Append(seenIds[s], e)
    <3>1. s \in Sessions /\ Mark(s, e) /\ Submit(s, e) /\ ~Remembers(s, e) /\ e # Tick
      BY <2>1, ConstantsAssumption DEF FoldFresh
    <3> HIDE DEF s
    <3>2. /\ seenIds'[s] = Kept(s, e) /\ ids2 \in Seq(Events) \ {<<>>}
          /\ \A r \in Sessions \ {s} : seenIds'[r] = seenIds[r] \/ seenIds'[r] = <<>>
      BY <3>1, MarkMoves
    <3>3. /\ InStep(ids2, lanes'[s], unsettled'[s], tickets'[s])
          /\ unsettled'[s] \in SUBSET Rejections
          /\ \A r \in Sessions \ {s} : /\ lanes'[r] = lanes[r] /\ unsettled'[r] = unsettled[r]
                                       /\ tickets'[r] = tickets[r]
      BY <3>1, SubmitFollows DEF Remembers
    <3>4. CASE t = s
      <4>1. tickets'[s] \in Nat
        BY <3>1 DEF Submit, TypeOK
      <4>2. Follows(Tail(ids2), lanes'[s], unsettled'[s], tickets'[s])
        <5> HIDE DEF ids2
        <5> QED
          BY <3>2, <3>3, <4>1, FollowsTail DEF InStep
      <4>3. seenIds'[s] = ids2 \/ seenIds'[s] = Tail(ids2)
        BY <3>2 DEF Kept
      <4> QED
        BY <3>3, <3>4, <4>2, <4>3 DEF InStep
    <3>5. CASE t # s
      <4>1. CASE seenIds'[t] = seenIds[t]
        BY <2>0, <3>3, <3>5, <4>1
      <4>2. CASE seenIds'[t] = <<>>
        BY <2>0, <3>3, <3>5, <4>2, FollowsNothing DEF InStep
      <4> QED
        BY <3>2, <3>5, <4>1, <4>2
    <3> QED
      BY <3>4, <3>5
  <2>2. ASSUME NEW e \in Events, FoldDuplicate(e)
        PROVE  InStep(seenIds'[t], lanes'[t], unsettled'[t], tickets'[t])
    BY <2>0, <2>2 DEF FoldDuplicate, laneVars
  <2>3. ASSUME NEW s \in Sessions, IngestTick(s)
        PROVE  InStep(seenIds'[t], lanes'[t], unsettled'[t], tickets'[t])
    <3>1. Submit(s, Tick) /\ seenIds' = seenIds
      BY <2>3 DEF IngestTick, seenVars
    <3>2. Tick \notin Members(seenIds[s])
      <4>1. seenIds[s] \in Seq(Events)
        BY DEF TypeOK
      <4> QED
        BY <4>1, MembersType, ConstantsAssumption
    <3>3. /\ InStep(seenIds[s], lanes'[s], unsettled'[s], tickets'[s])
          /\ \A r \in Sessions \ {s} : /\ lanes'[r] = lanes[r] /\ unsettled'[r] = unsettled[r]
                                       /\ tickets'[r] = tickets[r]
      BY <3>1, <3>2, SubmitFollows
    <3> QED
      BY <2>0, <3>1, <3>3
  <2>4. ASSUME NEW s \in Sessions, Finish(s)
        PROVE  InStep(seenIds'[t], lanes'[t], unsettled'[t], tickets'[t])
    <3> DEFINE freed == [lanes[t] EXCEPT !.running = NoJob]
    <3>1. freed = [waiting |-> lanes[t].waiting, running |-> NoJob] /\ freed \in Lane
      BY <2>0, LaneIs
    <3>2. /\ lanes' = [lanes EXCEPT ![s] = Pumped([@ EXCEPT !.running = NoJob])]
          /\ seenIds' = seenIds /\ unsettled' = unsettled /\ tickets' = tickets
      BY <2>4 DEF Finish, seenVars
    <3>3. lanes'[t] = IF t = s THEN Pumped(freed) ELSE lanes[t]
      BY <3>2 DEF TypeOK
    <3> HIDE DEF freed
    <3>4. freed.waiting = lanes[t].waiting /\ freed.running = NoJob
      BY <3>1
    <3>5. Follows(seenIds[t], freed, unsettled[t], tickets[t])
      BY <2>0, <3>4 DEF InStep, Follows, RunningFollows
    <3>6. Follows(seenIds[t], Pumped(freed), unsettled[t], tickets[t])
      BY <2>0, <3>1, <3>5, FollowsPumped
    <3>7. Len(Pumped(freed).waiting) <= Limit
      BY <2>0, <3>1, <3>4, PumpedIsShorter DEF InStep
    <3> QED
      BY <2>0, <3>2, <3>3, <3>6, <3>7 DEF InStep
  <2>5. ASSUME NEW s \in Sessions, Forget(s)
        PROVE  InStep(seenIds'[t], lanes'[t], unsettled'[t], tickets'[t])
    <3>1. PICK u \in unsettled[s] :
            /\ unsettled' = [unsettled EXCEPT ![s] = @ \ {u}]
            /\ seenIds' = [seenIds EXCEPT ![s] = Without(@, u.event)]
            /\ UNCHANGED <<laneVars, lossVars, lapsed>>
      BY <2>5, ForgetMoves
    <3>2. lanes' = lanes /\ tickets' = tickets
      BY <3>1 DEF laneVars
    <3>3. CASE t = s
      <4>1. /\ unsettled'[t] = unsettled[t] \ {u}
            /\ seenIds'[t] = Without(seenIds[t], u.event)
        BY <3>1, <3>3 DEF TypeOK
      <4>2. Follows(Without(seenIds[t], u.event), lanes[t], unsettled[t] \ {u}, tickets[t])
        BY <2>0, <3>3, FollowsWithout DEF InStep
      <4> QED
        BY <2>0, <3>2, <4>1, <4>2 DEF InStep
    <3>4. CASE t # s
      <4>1. unsettled'[t] = unsettled[t] /\ seenIds'[t] = seenIds[t]
        BY <3>1, <3>4 DEF TypeOK
      <4> QED
        BY <2>0, <3>2, <4>1
    <3> QED
      BY <3>3, <3>4
  <2>6. CASE UNCHANGED vars
    BY <2>0, <2>6 DEF vars, laneVars, seenVars
  <2> QED
    BY <2>1, <2>2, <2>3, <2>4, <2>5, <2>6 DEF Next
<1> QED
  BY <1>1, <1>2, TypeCorrect, IdsAreOnce, PTL DEF Spec

-----------------------------------------------------------------------------
(* One copy                                                                *)
(*                                                                         *)
(* As configured, a session remembers 1000 ids and its lane holds 100      *)
(* events (seen.ts:24, queue.ts:12); DM_EVENT_QUEUE_MAX can raise the      *)
(* second past the first, and then none of this holds.                     *)

MemoryOutlastsLane == IdsPerSession > Limit + Burst + 1

OnHands(now, told, x) == (\E j \in now : j.event = x) \/ (\E u \in told : u.event = x)

LEMMA LetGoIsTold ==
  ASSUME NEW s \in Sessions
  PROVE  /\ \A g \in LetGo(s) : g.event # Tick => \E u \in ToldOf(s) : u.event = g.event
         /\ \A u \in ToldOf(s) : u.event # Tick /\ \E g \in LetGo(s) : g.event = u.event
         /\ \A u, w \in ToldOf(s) : u = w
<1> DEFINE oldest == Head(lanes[s].waiting)
<1>1. CASE Full(s) /\ oldest.event # Tick
  <2>1. /\ LetGo(s) = {oldest}
        /\ ToldOf(s) = {[event |-> oldest.event, at |-> tickets[s] + 1]}
    BY <1>1 DEF LetGo, ToldOf
  <2> HIDE DEF oldest
  <2> QED
    BY <1>1, <2>1
<1>2. CASE ~(Full(s) /\ oldest.event # Tick)
  BY <1>2 DEF LetGo, ToldOf
<1> QED
  BY <1>1, <1>2

\* What the memory pushes out when an event is taken is off the runtime's hands.
LEMMA FoldLeaves ==
  ASSUME TypeOK, OrderInv, IdsOnce, MemoryInv, MemoryOutlastsLane,
         NEW e \in Events, FoldFresh(e), NEW s, s = SessionOf[e]
  PROVE  \E gone :
           /\ gone = {} \/ \E old : gone = {old}
           /\ e \notin gone /\ gone \subseteq Members(seenIds[s])
           /\ Members(seenIds'[s]) = (Members(seenIds[s]) \cup {e}) \ gone
           /\ \A x \in gone : ~OnHands(InHand(s)', unsettled'[s], x)
<1> DEFINE ids2 == Append(seenIds[s], e)
<1>1. s \in Sessions /\ Mark(s, e) /\ Submit(s, e) /\ ~Remembers(s, e) /\ e # Tick
  BY ConstantsAssumption DEF FoldFresh
<1>2. /\ seenIds'[s] = Kept(s, e) /\ ids2 \in Seq(Events) \ {<<>>}
      /\ e \in Members(Kept(s, e))
  BY <1>1, MarkMoves
<1>3. seenIds[s] \in Seq(Events) /\ Once(seenIds[s]) /\ e \notin Members(seenIds[s])
  BY <1>1 DEF TypeOK, IdsOnce, Remembers
<1>4. Members(ids2) = Members(seenIds[s]) \cup {e} /\ Once(ids2)
  BY <1>3, MembersAppend, AppendOnce
<1>5. CASE Len(ids2) > IdsPerSession
  <2>1. /\ InStep(ids2, lanes'[s], unsettled'[s], tickets'[s])
        /\ \A u \in unsettled'[s] : tickets'[s] - u.at <= Burst
        /\ unsettled'[s] \in SUBSET Rejections
    BY <1>1, SubmitFollows DEF Remembers
  <2>2. lanes'[s] \in Lane /\ tickets'[s] \in Nat
    BY <1>1, SubmitType
  <2>3. Len(ids2) > Limit + Burst + 2
    <3>1. Len(ids2) \in Nat
      BY <1>2, LenProperties
    <3> HIDE DEF ids2
    <3> QED
      BY <1>5, <3>1, ConstantsAssumption DEF MemoryOutlastsLane
  <2> HIDE DEF ids2
  <2>4. /\ \A j \in Hands(lanes'[s]) : j.event # ids2[1]
        /\ \A u \in unsettled'[s] : u.event # ids2[1]
    BY <1>2, <2>1, <2>2, <2>3, OldestIsDone DEF InStep
  <2>5. InHand(s)' = Hands(lanes'[s])
    BY DEF InHand, Hands
  <2>6. ~OnHands(InHand(s)', unsettled'[s], ids2[1])
    BY <2>4, <2>5 DEF OnHands
  <2>7. seenIds'[s] = Tail(ids2)
    BY <1>2, <1>5 DEF Kept, ids2
  <2>8. Head(ids2) = ids2[1] /\ Members(Tail(ids2)) = Members(ids2) \ {Head(ids2)}
    BY <1>2, <1>4, TailType, TailOnce
  <2>9. ids2[1] \in Members(ids2)
    BY <1>2, <2>8, MembersTail
  <2>10. ids2[1] # e
    BY <1>2, <1>4, <2>7, <2>8
  <2> WITNESS {ids2[1]}
  <2> QED
    BY <1>4, <2>6, <2>7, <2>8, <2>9, <2>10
<1>6. CASE ~(Len(ids2) > IdsPerSession)
  <2>1. seenIds'[s] = ids2
    BY <1>2, <1>6 DEF Kept
  <2> DEFINE gone == {}
  <2>2. /\ gone = {} /\ e \notin gone /\ gone \subseteq Members(seenIds[s])
        /\ Members(seenIds'[s]) = (Members(seenIds[s]) \cup {e}) \ gone
        /\ \A x \in gone : ~OnHands(InHand(s)', unsettled'[s], x)
    BY <1>4, <2>1
  <2> HIDE DEF gone
  <2> QED
    BY <2>2
<1> QED
  BY <1>5, <1>6

\* An event still remembered where it belongs is on the runtime's hands at one place at most, and
\* what is on its hands is remembered.
OnePlace(ids, now, told, out) ==
  /\ \A j \in now : j.event \notin out \cup {Tick} =>
       j.event \in Members(ids) /\ \A u \in told : u.event # j.event
  /\ \A u \in told : u.event \notin out => u.event \in Members(ids)
  /\ \A j, k \in now : j.event = k.event /\ j.event \notin out \cup {Tick} => j = k
  /\ \A u, w \in told : u.event = w.event /\ u.event \notin out => u = w

OnePlaceInv == \A s \in Sessions : OnePlace(seenIds[s], InHand(s), unsettled[s], lapsed)

LEMMA OnePlaceEach == ASSUME MemoryOutlastsLane PROVE Spec => []OnePlaceInv
<1>1. Init => OnePlaceInv
  <2> SUFFICES ASSUME Init, NEW s \in Sessions
               PROVE  OnePlace(seenIds[s], InHand(s), unsettled[s], lapsed)
    BY DEF OnePlaceInv
  <2>1. InHand(s) = {} /\ unsettled[s] = {}
    BY DEF Init, InHand, EmptyLane, Members
  <2> QED
    BY <2>1 DEF OnePlace
<1>2. TypeOK /\ OrderInv /\ IdsOnce /\ MemoryInv /\ OnePlaceInv /\ [Next]_vars => OnePlaceInv'
  <2> SUFFICES ASSUME TypeOK, OrderInv, IdsOnce, MemoryInv, OnePlaceInv, [Next]_vars,
                      NEW t \in Sessions
               PROVE  OnePlace(seenIds'[t], InHand(t)', unsettled'[t], lapsed')
    BY DEF OnePlaceInv
  <2>0. OnePlace(seenIds[t], InHand(t), unsettled[t], lapsed)
    BY DEF OnePlaceInv
  <2>1. ASSUME NEW s \in Sessions, NEW e \in Events \cup {Tick}, Submit(s, e),
               e \notin Members(seenIds[s]), lapsed \subseteq lapsed',
               \/ seenIds'[t] = seenIds[t]
               \/ Members(seenIds[t]) \subseteq lapsed', t # s
        PROVE  OnePlace(seenIds'[t], InHand(t)', unsettled'[t], lapsed')
    <3>1. InHand(t)' = InHand(t)
      BY <2>1, SubmitMoves
    <3>2. unsettled'[t] = unsettled[t]
      BY <2>1, SubmitTells DEF TypeOK
    <3>3. CASE seenIds'[t] = seenIds[t]
      BY <2>0, <2>1, <3>1, <3>2, <3>3 DEF OnePlace
    <3>4. CASE Members(seenIds[t]) \subseteq lapsed'
      BY <2>0, <2>1, <3>1, <3>2, <3>4 DEF OnePlace
    <3> QED
      BY <2>1, <3>3, <3>4
  <2>2. ASSUME NEW s \in Sessions, NEW e \in Events \cup {Tick}, Submit(s, e), t = s,
               e \notin Members(seenIds[s]), lapsed \subseteq lapsed',
               e # Tick => e \in Members(seenIds'[s]),
               \A x \in Members(seenIds[s]) :
                 x \in Members(seenIds'[s]) \/ ~OnHands(InHand(s)', unsettled'[s], x)
        PROVE  OnePlace(seenIds'[t], InHand(t)', unsettled'[t], lapsed')
    <3> DEFINE job == [event |-> e, ticket |-> tickets[s] + 1]
    <3>1. PICK rest :
            /\ InHand(s) = rest \cup LetGo(s)
            /\ \A j \in rest, g \in LetGo(s) : j.ticket # g.ticket
            /\ InHand(s)' = rest \cup {job}
      BY <2>2, SubmitMoves
    <3>2. unsettled'[s] = unsettled[s] \cup ToldOf(s)
      BY <2>2, SubmitTells DEF TypeOK
    <3>3. /\ \A u \in ToldOf(s) : u.event # Tick /\ \E g \in LetGo(s) : g.event = u.event
          /\ \A u, w \in ToldOf(s) : u = w
      BY <2>2, LetGoIsTold
    <3>4. job.event = e
      OBVIOUS
    <3> HIDE DEF job
    <3> DEFINE ids == seenIds[s]
               told == unsettled[s]
               ids2 == seenIds'[s]
               told2 == unsettled'[s]
               now == InHand(s)
               now2 == InHand(s)'
               out == lapsed
               out2 == lapsed'
    <3>5. OnePlace(ids, now, told, out)
      BY <2>0, <2>2
    <3>6. now = rest \cup LetGo(s) /\ now2 = rest \cup {job} /\ told2 = told \cup ToldOf(s)
      BY <3>1, <3>2
    <3>7. /\ e \notin Members(ids) /\ out \subseteq out2
          /\ e # Tick => e \in Members(ids2)
          /\ \A x \in Members(ids) : x \in Members(ids2) \/ ~OnHands(now2, told2, x)
      BY <2>2
    <3>8. \A u \in ToldOf(s) : u.event # Tick /\ \E g \in now : g \in LetGo(s) /\ g.event = u.event
      BY <3>3, <3>6
    <3> HIDE DEF ids, told, ids2, told2, now, now2, out, out2
    <3>9. ASSUME NEW j \in now2, j.event \notin out2 \cup {Tick}
          PROVE  j.event \in Members(ids2) /\ \A u \in told2 : u.event # j.event
      <4>1. CASE j = job
        <5>1. \A u \in told : u.event # e
          BY <3>4, <3>5, <3>7, <3>9, <4>1 DEF OnePlace
        <5>2. \A u \in ToldOf(s) : u.event # e
          BY <3>4, <3>5, <3>7, <3>8, <3>9, <4>1 DEF OnePlace
        <5> QED
          BY <3>4, <3>6, <3>7, <3>9, <4>1, <5>1, <5>2
      <4>2. CASE j \in rest
        <5>1. j \in now /\ j.event \notin out \cup {Tick}
          BY <3>6, <3>7, <3>9, <4>2
        <5>2. j.event \in Members(ids) /\ \A u \in told : u.event # j.event
          BY <3>5, <5>1 DEF OnePlace
        <5>3. OnHands(now2, told2, j.event)
          BY DEF OnHands
        <5>4. j.event \in Members(ids2)
          BY <3>7, <5>2, <5>3
        <5>5. ASSUME NEW u \in ToldOf(s), u.event = j.event PROVE FALSE
          <6>1. PICK g \in now : g \in LetGo(s) /\ g.event = u.event
            BY <3>8
          <6>2. g = j
            BY <3>5, <5>1, <5>5, <6>1 DEF OnePlace
          <6> QED
            BY <3>1, <4>2, <6>1, <6>2
        <5> QED
          BY <3>6, <5>2, <5>4, <5>5
      <4> QED
        BY <3>6, <4>1, <4>2
    <3>10. ASSUME NEW u \in told2, u.event \notin out2
           PROVE  u.event \in Members(ids2)
      <4>1. u.event \in Members(ids)
        <5>1. CASE u \in told
          BY <3>5, <3>7, <3>10, <5>1 DEF OnePlace
        <5>2. CASE u \in ToldOf(s)
          BY <3>5, <3>7, <3>8, <3>10, <5>2 DEF OnePlace
        <5> QED
          BY <3>6, <5>1, <5>2
      <4>2. OnHands(now2, told2, u.event)
        BY DEF OnHands
      <4> QED
        BY <3>7, <4>1, <4>2
    <3>11. ASSUME NEW j \in now2, NEW k \in now2, j.event = k.event,
                  j.event \notin out2 \cup {Tick}
           PROVE  j = k
      <4>1. ASSUME NEW r \in rest, r.event = e, r.event \notin out2 \cup {Tick} PROVE FALSE
        BY <3>5, <3>6, <3>7, <4>1 DEF OnePlace
      <4>2. CASE j \in rest /\ k \in rest
        BY <3>5, <3>6, <3>7, <3>11, <4>2 DEF OnePlace
      <4> QED
        BY <3>4, <3>6, <3>11, <4>1, <4>2
    <3>12. ASSUME NEW u \in told2, NEW w \in told2, u.event = w.event, u.event \notin out2
           PROVE  u = w
      <4>1. ASSUME NEW v \in told, NEW x \in ToldOf(s), v.event = x.event, v.event \notin out2
            PROVE  FALSE
        BY <3>5, <3>7, <3>8, <4>1 DEF OnePlace
      <4>2. CASE u \in told /\ w \in told
        BY <3>5, <3>7, <3>12, <4>2 DEF OnePlace
      <4>3. CASE u \in ToldOf(s) /\ w \in ToldOf(s)
        BY <3>3, <4>3
      <4> QED
        BY <3>6, <3>12, <4>1, <4>2, <4>3
    <3>13. OnePlace(ids2, now2, told2, out2)
      BY <3>9, <3>10, <3>11, <3>12 DEF OnePlace
    <3> QED
      BY <2>2, <3>13 DEF ids2, now2, told2, out2
  <2>3. ASSUME NEW e \in Events, FoldFresh(e)
        PROVE  OnePlace(seenIds'[t], InHand(t)', unsettled'[t], lapsed')
    <3> DEFINE s == SessionOf[e]
    <3>1. s \in Sessions /\ Mark(s, e) /\ Submit(s, e) /\ ~Remembers(s, e)
      BY <2>3, ConstantsAssumption DEF FoldFresh
    <3> HIDE DEF s
    <3>2. /\ lapsed \subseteq lapsed'
          /\ \A r \in Sessions \ {s} :
               seenIds'[r] = seenIds[r] \/ Members(seenIds[r]) \subseteq lapsed'
          /\ e \in Members(seenIds'[s])
      BY <3>1, MarkMoves
    <3>3. PICK gone :
            /\ Members(seenIds'[s]) = (Members(seenIds[s]) \cup {e}) \ gone
            /\ \A x \in gone : ~OnHands(InHand(s)', unsettled'[s], x)
      BY <2>3, FoldLeaves DEF s
    <3>4. e \notin Members(seenIds[s])
      BY <3>1 DEF Remembers
    <3>5. CASE t = s
      BY <2>2, <3>1, <3>2, <3>3, <3>4, <3>5
    <3>6. CASE t # s
      BY <2>1, <3>1, <3>2, <3>4, <3>6
    <3> QED
      BY <3>5, <3>6
  <2>4. CASE UNCHANGED <<lanes, seenIds, unsettled, lapsed>>
    <3>1. InHand(t)' = InHand(t)
      BY <2>4 DEF InHand
    <3> QED
      BY <2>0, <2>4, <3>1
  <2>5. ASSUME NEW e \in Events, FoldDuplicate(e)
        PROVE  OnePlace(seenIds'[t], InHand(t)', unsettled'[t], lapsed')
    BY <2>4, <2>5 DEF FoldDuplicate, laneVars
  <2>6. ASSUME NEW s \in Sessions, IngestTick(s)
        PROVE  OnePlace(seenIds'[t], InHand(t)', unsettled'[t], lapsed')
    <3>1. Submit(s, Tick) /\ seenIds' = seenIds /\ lapsed' = lapsed
      BY <2>6 DEF IngestTick, seenVars
    <3>2. Tick \notin Members(seenIds[s])
      <4>1. seenIds[s] \in Seq(Events)
        BY DEF TypeOK
      <4> QED
        BY <4>1, MembersType, ConstantsAssumption
    <3>3. CASE t = s
      BY <2>2, <3>1, <3>2, <3>3
    <3>4. CASE t # s
      BY <2>1, <3>1, <3>2, <3>4
    <3> QED
      BY <3>3, <3>4
  <2>7. ASSUME NEW s \in Sessions, Finish(s)
        PROVE  OnePlace(seenIds'[t], InHand(t)', unsettled'[t], lapsed')
    <3>1. InHand(t)' \subseteq InHand(t)
      BY <2>7, FinishMoves
    <3>2. seenIds' = seenIds /\ unsettled' = unsettled /\ lapsed' = lapsed
      BY <2>7 DEF Finish, seenVars
    <3> QED
      BY <2>0, <3>1, <3>2 DEF OnePlace
  <2>8. ASSUME NEW s \in Sessions, Forget(s)
        PROVE  OnePlace(seenIds'[t], InHand(t)', unsettled'[t], lapsed')
    <3>1. PICK u \in unsettled[s] :
            /\ unsettled' = [unsettled EXCEPT ![s] = @ \ {u}]
            /\ seenIds' = [seenIds EXCEPT ![s] = Without(@, u.event)]
            /\ Members(Without(seenIds[s], u.event)) = Members(seenIds[s]) \ {u.event}
            /\ UNCHANGED <<laneVars, lossVars, lapsed>>
      BY <2>8, ForgetMoves
    <3>2. InHand(t)' = InHand(t) /\ lapsed' = lapsed
      BY <3>1 DEF laneVars, InHand
    <3>3. CASE t = s
      <4>1. /\ unsettled'[t] = unsettled[t] \ {u} /\ u \in unsettled[t]
            /\ Members(seenIds'[t]) = Members(seenIds[t]) \ {u.event}
        BY <3>1, <3>3 DEF TypeOK
      <4> QED
        BY <2>0, <3>2, <4>1 DEF OnePlace
    <3>4. CASE t # s
      <4>1. unsettled'[t] = unsettled[t] /\ seenIds'[t] = seenIds[t]
        BY <3>1, <3>4 DEF TypeOK
      <4> QED
        BY <2>0, <3>2, <4>1
    <3> QED
      BY <3>3, <3>4
  <2>9. CASE UNCHANGED vars
    BY <2>4, <2>9 DEF vars, laneVars, seenVars
  <2> QED
    BY <2>3, <2>5, <2>6, <2>7, <2>8, <2>9 DEF Next
<1> QED
  BY <1>1, <1>2, TypeCorrect, OrderInvariant, IdsAreOnce, MemoryFollows, PTL DEF Spec

\* Two copies of an event are never both let through while the first is in hand, unless the whole
\* memory of its session was evicted under it (runtime.ts:132, seen.ts:15-18).
THEOREM OneCopy == ASSUME MemoryOutlastsLane PROVE Spec => []OneCopyInHand
<1>1. OnePlaceInv => OneCopyInHand
  <2> SUFFICES ASSUME OnePlaceInv, NEW e \in Events, e \notin lapsed
               PROVE  ~(Cardinality(Copies(e)) > 1)
    BY DEF OneCopyInHand
  <2>1. SessionOf[e] \in Sessions /\ e # Tick
    BY ConstantsAssumption
  <2>2. \A j, k \in Copies(e) : j = k
    BY <2>1 DEF OnePlaceInv, OnePlace, Copies
  <2>3. CASE Copies(e) = {}
    BY <2>3, FS_EmptySet
  <2>4. CASE Copies(e) # {}
    <3>1. PICK j : Copies(e) = {j}
      BY <2>2, <2>4
    <3>2. Cardinality({j}) = 1
      BY FS_Singleton
    <3> QED
      BY <3>1, <3>2
  <2> QED
    BY <2>3, <2>4
<1> QED
  BY <1>1, OnePlaceEach, PTL

-----------------------------------------------------------------------------
(* The promise *)

LEMMA StatusIs ==
  ASSUME NEW x \in Events
  PROVE  Status[x] = IF OnHands(InHand(SessionOf[x]), unsettled[SessionOf[x]], x) THEN "held"
                     ELSE IF x \in Members(seenIds[SessionOf[x]]) THEN "run" ELSE "out"
  BY DEF Status, Held, Unsettled, Remembers, OnHands

\* A status changes only where its parts do.
LEMMA StatusStays ==
  ASSUME NEW x \in Events,
         OnHands(InHand(SessionOf[x])', unsettled'[SessionOf[x]], x)
           <=> OnHands(InHand(SessionOf[x]), unsettled[SessionOf[x]], x),
         x \in Members(seenIds'[SessionOf[x]]) <=> x \in Members(seenIds[SessionOf[x]])
  PROVE  Status'[x] = Status[x]
<1>1. Status'[x] = IF OnHands(InHand(SessionOf[x])', unsettled'[SessionOf[x]], x) THEN "held"
                   ELSE IF x \in Members(seenIds'[SessionOf[x]]) THEN "run" ELSE "out"
  BY DEF Status, Held, Unsettled, Remembers, OnHands, Members
<1> QED
  BY <1>1, StatusIs

LEMMA StatusBecomes ==
  ASSUME NEW x \in Events
  PROVE  Status'[x] = IF OnHands(InHand(SessionOf[x])', unsettled'[SessionOf[x]], x) THEN "held"
                      ELSE IF x \in Members(seenIds'[SessionOf[x]]) THEN "run" ELSE "out"
  BY DEF Status, Held, Unsettled, Remembers, OnHands, Members

LEMMA StatusType ==
  /\ DOMAIN Status = Events /\ DOMAIN Status' = Events
  /\ Status = [x \in Events |-> Status[x]] /\ Status' = [x \in Events |-> Status'[x]]
  /\ DOMAIN Runs = Events /\ DOMAIN Runs' = Events
  /\ Runs = [x \in Events |-> Runs[x]] /\ Runs' = [x \in Events |-> Runs'[x]]
  BY DEF Status, Runs

\* Being let go keeps an event on the runtime's hands until its handler hears of it.
LEMMA SubmitHolds ==
  ASSUME TypeOK, OrderInv, NEW s \in Sessions, NEW e \in Events \cup {Tick}, Submit(s, e)
  PROVE  /\ \A x \in Events : x # e =>
              (OnHands(InHand(s)', unsettled'[s], x) <=> OnHands(InHand(s), unsettled[s], x))
         /\ OnHands(InHand(s)', unsettled'[s], e)
         /\ \A t \in Sessions \ {s} : InHand(t)' = InHand(t) /\ unsettled'[t] = unsettled[t]
         /\ settled' = settled
<1> DEFINE job == [event |-> e, ticket |-> tickets[s] + 1]
<1>1. PICK rest :
        /\ InHand(s) = rest \cup LetGo(s)
        /\ InHand(s)' = rest \cup {job}
        /\ settled' = settled
        /\ \A t \in Sessions \ {s} : InHand(t)' = InHand(t)
  BY SubmitMoves
<1>2. /\ unsettled'[s] = unsettled[s] \cup ToldOf(s)
      /\ \A t \in Sessions \ {s} : unsettled'[t] = unsettled[t]
  BY SubmitTells DEF TypeOK
<1>3. /\ \A g \in LetGo(s) : g.event # Tick => \E u \in ToldOf(s) : u.event = g.event
      /\ \A u \in ToldOf(s) : u.event # Tick /\ \E g \in LetGo(s) : g.event = u.event
  BY LetGoIsTold
<1>4. job.event = e
  OBVIOUS
<1> HIDE DEF job
<1>5. ASSUME NEW x \in Events, x # e
      PROVE  OnHands(InHand(s)', unsettled'[s], x) <=> OnHands(InHand(s), unsettled[s], x)
  <2>1. x # Tick
    BY ConstantsAssumption
  <2>2. OnHands(InHand(s)', unsettled'[s], x) => OnHands(InHand(s), unsettled[s], x)
    BY <1>1, <1>2, <1>3, <1>4, <1>5 DEF OnHands
  <2>3. OnHands(InHand(s), unsettled[s], x) => OnHands(InHand(s)', unsettled'[s], x)
    BY <1>1, <1>2, <1>3, <2>1 DEF OnHands
  <2> QED
    BY <2>2, <2>3
<1>6. OnHands(InHand(s)', unsettled'[s], e)
  BY <1>1, <1>4 DEF OnHands
<1> QED
  BY <1>1, <1>2, <1>5, <1>6

\* What was run of an event is counted one by one.
\* How often an event stands in a sequence of jobs.
TimesRun(q, x) == Cardinality({i \in DOMAIN q : q[i].event = x})

LEMMA RunsCounted ==
  ASSUME NEW q \in Seq(Job), NEW job \in Job, NEW x
  PROVE  TimesRun(Append(q, job), x) = TimesRun(q, x) + (IF job.event = x THEN 1 ELSE 0)
<1> DEFINE q2 == Append(q, job)
           A == {i \in 1..Len(q) : q[i].event = x}
           B == {i \in 1..(Len(q) + 1) : q2[i].event = x}
<1>1. /\ Len(q) \in Nat /\ \A i \in 1..Len(q) : q2[i] = q[i]
      /\ q2[Len(q) + 1] = job
  BY AppendType, LenProperties
<1>2. DOMAIN q = 1..Len(q) /\ DOMAIN q2 = 1..(Len(q) + 1)
  <2>1. q2 \in Seq(Job) /\ Len(q2) = Len(q) + 1
    BY AppendType
  <2> QED
    BY <2>1, LenProperties
<1>3. IsFiniteSet(A) /\ Cardinality(A) \in Nat
  <2>1. IsFiniteSet(1..Len(q))
    BY <1>1, FS_Interval
  <2>2. A \in SUBSET (1..Len(q))
    OBVIOUS
  <2>3. IsFiniteSet(A)
    BY <2>1, <2>2, FS_Subset
  <2> QED
    BY <2>3, FS_CardinalityType
<1>4. Len(q) + 1 \notin A
  BY <1>1
<1>5. B = IF job.event = x THEN A \cup {Len(q) + 1} ELSE A
  <2>1. \A i \in 1..(Len(q) + 1) : i \in 1..Len(q) \/ i = Len(q) + 1
    BY <1>1
  <2>2. \A i \in 1..Len(q) : i \in 1..(Len(q) + 1) /\ i # Len(q) + 1
    BY <1>1
  <2>3. Len(q) + 1 \in 1..(Len(q) + 1)
    BY <1>1
  <2> HIDE DEF q2
  <2> QED
    BY <1>1, <2>1, <2>2, <2>3
<1> HIDE DEF A, B
<1>6. Cardinality(B) = Cardinality(A) + (IF job.event = x THEN 1 ELSE 0)
  <2>1. Cardinality(A \cup {Len(q) + 1}) = Cardinality(A) + 1
    BY <1>3, <1>4, FS_AddElement
  <2> QED
    BY <1>3, <1>5, <2>1
<1> QED
  BY <1>2, <1>6 DEF A, B, TimesRun

LEMMA RunsAreFinite ==
  ASSUME NEW q \in Seq(Job), NEW x
  PROVE  TimesRun(q, x) \in Nat
<1>1. DOMAIN q = 1..Len(q) /\ Len(q) \in Nat
  BY LenProperties
<1>2. IsFiniteSet(1..Len(q))
  BY <1>1, FS_Interval
<1>3. {i \in DOMAIN q : q[i].event = x} \in SUBSET (1..Len(q))
  BY <1>1
<1>4. IsFiniteSet({i \in DOMAIN q : q[i].event = x})
  BY <1>2, <1>3, FS_Subset
<1> QED
  BY <1>4, FS_CardinalityType DEF TimesRun

\* As long as no session's memory is evicted whole, the intake keeps its promise: each event is
\* taken once, then run or let go, and a copy of one in hand changes nothing (queue.ts, seen.ts
\* and fold of runtime.ts implement OnceOnly).
THEOREM IntakeImplementsOnceOnly ==
  ASSUME MemoryOutlastsLane PROVE Spec /\ [](lapsed = {}) => KeepsThePromise
<1>1. Init => Promise!Init
  <2> SUFFICES ASSUME Init PROVE Promise!Init
    OBVIOUS
  <2>1. ASSUME NEW x \in Events PROVE Status[x] = "out" /\ Runs[x] = 0
    <3>1. SessionOf[x] \in Sessions
      BY ConstantsAssumption
    <3>2. /\ InHand(SessionOf[x]) = {} /\ unsettled[SessionOf[x]] = {}
          /\ Members(seenIds[SessionOf[x]]) = {} /\ settled[SessionOf[x]] = <<>>
      BY <3>1 DEF Init, InHand, EmptyLane, Members
    <3>3. {i \in DOMAIN settled[SessionOf[x]] : settled[SessionOf[x]][i].event = x} = {}
      BY <3>2
    <3>4. Runs[x] = 0
      BY <3>3, FS_EmptySet DEF Runs
    <3>5. Status[x] = "out"
      BY <3>2, StatusIs DEF OnHands
    <3> QED
      BY <3>4, <3>5
  <2>2. Status = [x \in Events |-> "out"] /\ Runs = [x \in Events |-> 0]
    BY <2>1, StatusType
  <2> QED
    BY <2>2 DEF Promise!Init
<1>2. /\ TypeOK /\ OrderInv /\ IdsOnce /\ MemoryInv /\ OnePlaceInv
      /\ lapsed = {} /\ (lapsed = {})' /\ [Next]_vars
      => [Promise!Next]_(Promise!vars)
  <2> SUFFICES ASSUME TypeOK, OrderInv, IdsOnce, MemoryInv, OnePlaceInv,
                      lapsed = {}, lapsed' = {}, [Next]_vars
               PROVE  Promise!Next \/ (Status' = Status /\ Runs' = Runs)
    BY DEF Promise!vars
  <2>0. \A x \in Events : SessionOf[x] \in Sessions /\ x # Tick
    BY ConstantsAssumption
  <2>1. settled' = settled => Runs' = Runs
    BY DEF Runs
  <2>2. (\A x \in Events : Status'[x] = Status[x]) => Status' = Status
    BY StatusType
  <2>3. ASSUME NEW e \in Events, FoldFresh(e) PROVE Promise!Next
    <3> DEFINE s == SessionOf[e]
    <3>1. s \in Sessions /\ Mark(s, e) /\ Submit(s, e) /\ ~Remembers(s, e)
      BY <2>0, <2>3 DEF FoldFresh
    <3>2. PICK gone :
            /\ gone = {} \/ \E old : gone = {old}
            /\ e \notin gone /\ gone \subseteq Members(seenIds[s])
            /\ Members(seenIds'[s]) = (Members(seenIds[s]) \cup {e}) \ gone
            /\ \A x \in gone : ~OnHands(InHand(s)', unsettled'[s], x)
      BY <2>3, FoldLeaves
    <3>3. /\ \A x \in Events : x # e =>
               (OnHands(InHand(s)', unsettled'[s], x) <=> OnHands(InHand(s), unsettled[s], x))
          /\ OnHands(InHand(s)', unsettled'[s], e)
          /\ \A t \in Sessions \ {s} : InHand(t)' = InHand(t) /\ unsettled'[t] = unsettled[t]
          /\ settled' = settled
      BY <3>1, SubmitHolds
    <3>4. \A t \in Sessions \ {s} : Members(seenIds'[t]) = Members(seenIds[t])
      <4> SUFFICES ASSUME NEW t \in Sessions \ {s}
                   PROVE  Members(seenIds'[t]) = Members(seenIds[t])
        OBVIOUS
      <4>1. \/ seenIds'[t] = seenIds[t]
            \/ seenIds'[t] = <<>> /\ Members(seenIds[t]) \subseteq lapsed'
        BY <3>1, MarkMoves
      <4>2. Members(<<>>) = {}
        BY EmptySeq DEF Members
      <4> QED
        BY <4>1, <4>2
    <3>5. Status[e] = "out" /\ Status'[e] = "held"
      <4>1. e \notin Members(seenIds[s])
        BY <3>1 DEF Remembers
      <4>2. ~OnHands(InHand(s), unsettled[s], e)
        BY <2>0, <3>1, <4>1 DEF OnePlaceInv, OnePlace, OnHands
      <4> QED
        BY <3>3, <4>1, <4>2, StatusIs, StatusBecomes
    <3>6. ASSUME NEW x \in Events, x # e, SessionOf[x] # s \/ x \notin gone
          PROVE  Status'[x] = Status[x]
      <4>1. CASE SessionOf[x] = s
        <5>1. x \in Members(seenIds'[s]) <=> x \in Members(seenIds[s])
          BY <3>2, <3>6, <4>1
        <5> QED
          BY <3>3, <3>6, <4>1, <5>1, StatusStays
      <4>2. CASE SessionOf[x] # s
        <5>1. SessionOf[x] \in Sessions \ {s}
          BY <2>0, <4>2
        <5> QED
          BY <3>3, <3>4, <5>1, StatusStays
      <4> QED
        BY <4>1, <4>2
    <3>7. Runs' = Runs
      BY <2>1, <3>3
    <3>8. CASE \E old \in Events : gone = {old} /\ SessionOf[old] = s
      <4>1. PICK old \in Events : gone = {old} /\ SessionOf[old] = s
        BY <3>8
      <4>2. old # e /\ old \in Members(seenIds[s]) /\ old \notin Members(seenIds'[s])
        BY <3>2, <4>1
      <4>3. ~OnHands(InHand(s)', unsettled'[s], old) /\ ~OnHands(InHand(s), unsettled[s], old)
        BY <3>2, <3>3, <4>1, <4>2
      <4>4. Status[old] = "run" /\ Status'[old] = "out"
        BY <4>1, <4>2, <4>3, StatusIs, StatusBecomes
      <4>5. Status' = [Status EXCEPT ![e] = "held", ![old] = "out"]
        <5>1. \A x \in Events : x # e /\ x # old => Status'[x] = Status[x]
          BY <3>6, <4>1
        <5> QED
          BY <3>5, <4>2, <4>4, <5>1, StatusType
      <4> QED
        BY <3>5, <3>7, <4>2, <4>4, <4>5 DEF Promise!Next, Promise!Take
    <3>9. CASE ~(\E old \in Events : gone = {old} /\ SessionOf[old] = s)
      <4>1. \A x \in Events : x # e => Status'[x] = Status[x]
        BY <3>2, <3>6, <3>9
      <4>2. Status' = [Status EXCEPT ![e] = "held"]
        BY <3>5, <4>1, StatusType
      <4> QED
        BY <3>5, <3>7, <4>2 DEF Promise!Next, Promise!Take
    <3> QED
      BY <3>8, <3>9
  <2>4. CASE UNCHANGED <<lanes, settled, seenIds, unsettled>>
    <3>1. Status' = Status /\ Runs' = Runs
      BY <2>4 DEF Status, Runs, Held, InHand, Unsettled, Remembers
    <3> QED
      BY <3>1
  <2>5. ASSUME NEW e \in Events, FoldDuplicate(e) PROVE Status' = Status /\ Runs' = Runs
    BY <2>5 DEF FoldDuplicate, laneVars, Status, Runs, Held, InHand, Unsettled, Remembers
  <2>6. ASSUME NEW s \in Sessions, IngestTick(s) PROVE Status' = Status /\ Runs' = Runs
    <3>1. Submit(s, Tick) /\ seenIds' = seenIds
      BY <2>6 DEF IngestTick, seenVars
    <3>2. /\ \A x \in Events : x # Tick =>
               (OnHands(InHand(s)', unsettled'[s], x) <=> OnHands(InHand(s), unsettled[s], x))
          /\ \A t \in Sessions \ {s} : InHand(t)' = InHand(t) /\ unsettled'[t] = unsettled[t]
          /\ settled' = settled
      BY <3>1, SubmitHolds
    <3>3. ASSUME NEW x \in Events PROVE Status'[x] = Status[x]
      <4>1. OnHands(InHand(SessionOf[x])', unsettled'[SessionOf[x]], x)
              <=> OnHands(InHand(SessionOf[x]), unsettled[SessionOf[x]], x)
        <5>1. CASE SessionOf[x] = s
          BY <2>0, <3>2, <5>1
        <5>2. CASE SessionOf[x] # s
          BY <2>0, <3>2, <5>2
        <5> QED
          BY <5>1, <5>2
      <4> QED
        BY <3>1, <4>1, StatusStays
    <3> QED
      BY <2>1, <2>2, <3>2, <3>3
  <2>7. ASSUME NEW s \in Sessions, Finish(s)
        PROVE  Promise!Next \/ (Status' = Status /\ Runs' = Runs)
    <3> DEFINE job == lanes[s].running
               e == job.event
    <3>1. PICK rest :
            /\ job \in Job
            /\ InHand(s) = rest \cup {job}
            /\ \A j \in rest : j.ticket # job.ticket
            /\ InHand(s)' = rest
            /\ \A t \in Sessions \ {s} : InHand(t)' = InHand(t) /\ settled'[t] = settled[t]
      BY <2>7, FinishMoves
    <3>2. /\ seenIds' = seenIds /\ unsettled' = unsettled
          /\ settled'[s] = Append(settled[s], job)
      BY <2>7 DEF Finish, seenVars, TypeOK
    <3>3. settled[s] \in Seq(Job) /\ (e \in Events \/ e = Tick)
      BY <3>1 DEF TypeOK, Job
    <3> HIDE DEF job, e
    <3>4. ASSUME NEW x \in Events, x # e \/ SessionOf[x] # s
          PROVE  Status'[x] = Status[x] /\ Runs'[x] = Runs[x]
      <4>1. CASE SessionOf[x] = s
        <5>1. x # job.event
          BY <3>4, <4>1 DEF e
        <5>2. OnHands(InHand(s)', unsettled'[s], x) <=> OnHands(InHand(s), unsettled[s], x)
          BY <3>1, <3>2, <5>1 DEF OnHands
        <5>3. Status'[x] = Status[x]
          BY <3>2, <4>1, <5>2, StatusStays
        <5>4. TimesRun(settled[s], x) \in Nat
          BY <3>3, RunsAreFinite
        <5>5. TimesRun(settled'[s], x) = TimesRun(settled[s], x)
          <6>1. TimesRun(Append(settled[s], job), x) =
                  TimesRun(settled[s], x) + (IF job.event = x THEN 1 ELSE 0)
            BY <3>1, <3>3, RunsCounted
          <6> QED
            BY <3>2, <5>1, <5>4, <6>1
        <5>6. Runs'[x] = Runs[x]
          BY <4>1, <5>5 DEF Runs, TimesRun
        <5> QED
          BY <5>3, <5>6
      <4>2. CASE SessionOf[x] # s
        <5>1. SessionOf[x] \in Sessions \ {s}
          BY <2>0, <4>2
        <5>2. Status'[x] = Status[x]
          BY <3>1, <3>2, <5>1, StatusStays
        <5>3. Runs'[x] = Runs[x]
          BY <3>1, <5>1 DEF Runs
        <5> QED
          BY <5>2, <5>3
      <4> QED
        BY <4>1, <4>2
    <3>5. CASE e \in Events /\ SessionOf[e] = s
      <4>1. OnePlace(seenIds[s], InHand(s), unsettled[s], {})
        BY DEF OnePlaceInv
      <4>2. job \in InHand(s) /\ job.event = e /\ e # Tick
        BY <2>0, <3>1, <3>5 DEF e
      <4>3. Status[e] = "held"
        BY <3>5, <4>2, StatusIs DEF OnHands
      <4>4. e \in Members(seenIds[s]) /\ \A u \in unsettled[s] : u.event # e
        BY <4>1, <4>2 DEF OnePlace
      <4>5. \A j \in rest : j.event # e
        BY <3>1, <4>1, <4>2 DEF OnePlace
      <4>6. Status'[e] = "run"
        BY <3>1, <3>2, <3>5, <4>4, <4>5, StatusBecomes DEF OnHands
      <4>7. Runs'[e] = Runs[e] + 1
        <5>1. TimesRun(settled'[s], e) = TimesRun(settled[s], e) + 1
          <6>1. TimesRun(Append(settled[s], job), e) =
                  TimesRun(settled[s], e) + (IF job.event = e THEN 1 ELSE 0)
            BY <3>1, <3>3, RunsCounted
          <6> QED
            BY <3>2, <4>2, <6>1
        <5> QED
          BY <3>5, <5>1 DEF Runs, TimesRun
      <4>8. Status' = [Status EXCEPT ![e] = "run"]
        BY <3>4, <3>5, <4>6, StatusType
      <4>9. Runs' = [Runs EXCEPT ![e] = @ + 1]
        BY <3>4, <3>5, <4>7, StatusType
      <4> QED
        BY <3>5, <4>3, <4>8, <4>9 DEF Promise!Next, Promise!Run
    <3>6. CASE ~(e \in Events /\ SessionOf[e] = s)
      <4>1. \A x \in Events : Status'[x] = Status[x] /\ Runs'[x] = Runs[x]
        BY <3>4, <3>6
      <4> QED
        BY <4>1, StatusType
    <3> QED
      BY <3>5, <3>6
  <2>8. ASSUME NEW s \in Sessions, Forget(s)
        PROVE  Promise!Next \/ (Status' = Status /\ Runs' = Runs)
    <3>1. PICK u \in unsettled[s] :
            /\ unsettled' = [unsettled EXCEPT ![s] = @ \ {u}]
            /\ seenIds' = [seenIds EXCEPT ![s] = Without(@, u.event)]
            /\ Members(Without(seenIds[s], u.event)) = Members(seenIds[s]) \ {u.event}
            /\ UNCHANGED <<laneVars, lossVars, lapsed>>
      BY <2>8, ForgetMoves
    <3> DEFINE e == u.event
    <3>2. lanes' = lanes /\ settled' = settled /\ (\A t \in Sessions : InHand(t)' = InHand(t))
      BY <3>1 DEF laneVars, InHand
    <3>3. /\ unsettled'[s] = unsettled[s] \ {u}
          /\ Members(seenIds'[s]) = Members(seenIds[s]) \ {e}
          /\ \A t \in Sessions \ {s} : unsettled'[t] = unsettled[t] /\ seenIds'[t] = seenIds[t]
      BY <3>1 DEF TypeOK
    <3>4. e \in Events
      BY DEF TypeOK
    <3> HIDE DEF e
    <3>5. ASSUME NEW x \in Events, x # e \/ SessionOf[x] # s
          PROVE  Status'[x] = Status[x]
      <4>1. CASE SessionOf[x] = s
        <5>1. x # u.event /\ x # e
          BY <3>5, <4>1 DEF e
        <5>2. OnHands(InHand(s)', unsettled'[s], x) <=> OnHands(InHand(s), unsettled[s], x)
          BY <3>2, <3>3, <5>1 DEF OnHands
        <5> QED
          BY <3>3, <4>1, <5>1, <5>2, StatusStays
      <4>2. CASE SessionOf[x] # s
        <5>1. SessionOf[x] \in Sessions \ {s}
          BY <2>0, <4>2
        <5> QED
          BY <3>2, <3>3, <5>1, StatusStays
      <4> QED
        BY <4>1, <4>2
    <3>6. Runs' = Runs
      BY <2>1, <3>2
    <3>7. CASE SessionOf[e] = s
      <4>1. OnePlace(seenIds[s], InHand(s), unsettled[s], {})
        BY DEF OnePlaceInv
      <4>2. u \in unsettled[s] /\ u.event = e /\ e # Tick
        BY <2>0, <3>4 DEF e
      <4>3. Status[e] = "held"
        BY <3>4, <3>7, <4>2, StatusIs DEF OnHands
      <4>4. ~OnHands(InHand(s)', unsettled'[s], e)
        <5>1. \A j \in InHand(s) : j.event # e
          BY <4>1, <4>2 DEF OnePlace
        <5>2. \A w \in unsettled[s] \ {u} : w.event # e
          BY <4>1, <4>2 DEF OnePlace
        <5> QED
          BY <3>2, <3>3, <5>1, <5>2 DEF OnHands
      <4>5. Status'[e] = "out"
        BY <3>3, <3>4, <3>7, <4>4, StatusBecomes
      <4>6. Status' = [Status EXCEPT ![e] = "out"]
        BY <3>4, <3>5, <4>5, StatusType
      <4> QED
        BY <3>4, <3>6, <4>3, <4>6 DEF Promise!Next, Promise!LetGo
    <3>8. CASE SessionOf[e] # s
      BY <2>2, <3>5, <3>6, <3>8
    <3> QED
      BY <3>7, <3>8
  <2>9. CASE UNCHANGED vars
    BY <2>4, <2>9 DEF vars, laneVars, seenVars
  <2> QED
    BY <2>3, <2>5, <2>6, <2>7, <2>8, <2>9 DEF Next
<1>3. Spec /\ [](lapsed = {}) => Promise!Init /\ [][Promise!Next]_(Promise!vars)
  BY <1>1, <1>2, TypeCorrect, OrderInvariant, IdsAreOnce, MemoryFollows, OnePlaceEach, PTL
     DEF Spec
<1> QED
  BY <1>3 DEF KeepsThePromise, Promise!Spec
-----------------------------------------------------------------------------
(* Whole memories *)

\* The memory has room for every session there is, so none is evicted whole.
RoomForEverySession == IsFiniteSet(Sessions) /\ Cardinality(Sessions) <= SeenSessions

LEMMA OnceFits ==
  ASSUME NEW S, NEW T, IsFiniteSet(T), NEW q \in Seq(S), Once(q), Members(q) \subseteq T
  PROVE  Len(q) <= Cardinality(T)
<1>1. Len(q) \in Nat /\ q \in [1..Len(q) -> S]
  BY LenProperties
<1>2. q \in [1..Len(q) -> T]
  BY <1>1 DEF Members
<1>3. q \in Injection(1..Len(q), T)
  BY <1>2 DEF Injection, IsInjective, Once
<1>4. Cardinality(1..Len(q)) <= Cardinality(T)
  BY <1>3, FS_Injection
<1>5. Cardinality(1..Len(q)) = Len(q)
  <2>1. Cardinality(1..Len(q)) = IF 1 > Len(q) THEN 0 ELSE Len(q) - 1 + 1
    BY <1>1, FS_Interval
  <2> QED
    BY <1>1, <2>1
<1> QED
  BY <1>4, <1>5

\* The sessions in order are the sessions something is remembered of, each once.
OrderIsTheMemory ==
  /\ Once(seenOrder)
  /\ \A t \in Members(seenOrder) : seenIds[t] # <<>>
  /\ lapsed = {}

LEMMA RoomForAll ==
  ASSUME RoomForEverySession, TypeOK, OrderIsTheMemory, NEW s \in Sessions
  PROVE  ~Crowded(s)
<1> SUFFICES ASSUME seenIds[s] = <<>> PROVE ~(Len(seenOrder) >= SeenSessions)
  BY DEF Crowded, KnownSession
<1>1. seenOrder \in Seq(Sessions) /\ Len(seenOrder) \in Nat
  BY LenProperties DEF TypeOK
<1>2. Members(seenOrder) \subseteq Sessions \ {s}
  BY <1>1, MembersType DEF OrderIsTheMemory
<1>3. /\ IsFiniteSet(Sessions \ {s})
      /\ Cardinality(Sessions \ {s}) = Cardinality(Sessions) - 1
  BY FS_RemoveElement DEF RoomForEverySession
<1>4. Len(seenOrder) <= Cardinality(Sessions \ {s})
  BY <1>1, <1>2, <1>3, OnceFits DEF OrderIsTheMemory
<1>5. Cardinality(Sessions) \in Nat
  BY FS_CardinalityType DEF RoomForEverySession
<1> QED
  BY <1>1, <1>3, <1>4, <1>5, ConstantsAssumption DEF RoomForEverySession

LEMMA MovedOnce ==
  ASSUME NEW S, NEW q \in Seq(S), NEW x \in S, Once(q)
  PROVE  /\ Once(MovedToEnd(q, x))
         /\ Members(MovedToEnd(q, x)) = Members(q) \cup {x}
<1>1. /\ Without(q, x) \in Seq(S) /\ Once(Without(q, x))
      /\ Members(Without(q, x)) = Members(q) \ {x}
  BY WithoutType, WithoutOnce
<1>2. Once(Append(Without(q, x), x))
  BY <1>1, AppendOnce
<1>3. Members(Append(Without(q, x), x)) = Members(Without(q, x)) \cup {x}
  BY <1>1, MembersAppend
<1> QED
  BY <1>1, <1>2, <1>3 DEF MovedToEnd

\* With room for every session no memory is evicted whole (seen.ts evictSessions).
THEOREM NoMemoryLapses == ASSUME RoomForEverySession PROVE Spec => [](lapsed = {})
<1>1. Init => OrderIsTheMemory
  BY EmptySeq DEF Init, OrderIsTheMemory, Once, Members
<1>2. TypeOK /\ IdsOnce /\ OrderIsTheMemory /\ [Next]_vars => OrderIsTheMemory'
  <2> SUFFICES ASSUME TypeOK, IdsOnce, OrderIsTheMemory, [Next]_vars PROVE OrderIsTheMemory'
    OBVIOUS
  <2>0. seenOrder \in Seq(Sessions) /\ Once(seenOrder)
    BY DEF TypeOK, OrderIsTheMemory
  <2>1. ASSUME NEW e \in Events, FoldFresh(e) PROVE OrderIsTheMemory'
    <3> DEFINE s == SessionOf[e]
    <3>1. s \in Sessions /\ ~Remembers(s, e) /\ Mark(s, e)
      BY <2>1, ConstantsAssumption DEF FoldFresh
    <3>2. e \in Members(Kept(s, e)) /\ Members(<<>>) = {}
      BY <3>1, MarkMoves, EmptySeq DEF Members
    <3>3. /\ seenOrder' = MovedToEnd(seenOrder, s)
          /\ seenIds' = [seenIds EXCEPT ![s] = Kept(s, e)] /\ lapsed' = lapsed
      BY <3>1, RoomForAll DEF Mark, Kept
    <3> HIDE DEF s
    <3>4. /\ Once(MovedToEnd(seenOrder, s))
          /\ Members(MovedToEnd(seenOrder, s)) = Members(seenOrder) \cup {s}
      BY <2>0, <3>1, MovedOnce
    <3>5. \A t \in Members(seenOrder') : seenIds'[t] # <<>>
      <4> SUFFICES ASSUME NEW t \in Members(seenOrder) \cup {s} PROVE seenIds'[t] # <<>>
        BY <3>3, <3>4
      <4>1. t \in Sessions
        BY <2>0, <3>1, MembersType
      <4> QED
        BY <3>1, <3>2, <3>3, <4>1 DEF OrderIsTheMemory, TypeOK
    <3> QED
      BY <3>3, <3>4, <3>5 DEF OrderIsTheMemory
  <2>2. ASSUME NEW e \in Events, FoldDuplicate(e) PROVE OrderIsTheMemory'
    <3> DEFINE s == SessionOf[e]
    <3>1. /\ s \in Sessions /\ e \in Members(seenIds[s])
          /\ seenOrder' = MovedToEnd(seenOrder, s) /\ seenIds' = seenIds /\ lapsed' = lapsed
      BY <2>2, ConstantsAssumption DEF FoldDuplicate, Remembers
    <3> HIDE DEF s
    <3>2. seenIds[s] # <<>>
      BY <3>1, EmptySeq DEF Members
    <3>3. /\ Once(MovedToEnd(seenOrder, s))
          /\ Members(MovedToEnd(seenOrder, s)) = Members(seenOrder) \cup {s}
      BY <2>0, <3>1, MovedOnce
    <3> QED
      BY <3>1, <3>2, <3>3 DEF OrderIsTheMemory
  <2>3. ASSUME NEW s \in Sessions, Forget(s) PROVE OrderIsTheMemory'
    <3>1. PICK ids :
            /\ seenIds' = [seenIds EXCEPT ![s] = ids]
            /\ seenOrder' = IF ids = <<>> THEN Without(seenOrder, s) ELSE seenOrder
            /\ lapsed' = lapsed
      BY <2>3 DEF Forget
    <3>2. /\ Once(Without(seenOrder, s))
          /\ Members(Without(seenOrder, s)) = Members(seenOrder) \ {s}
      BY <2>0, WithoutOnce
    <3>3. Members(seenOrder) \subseteq Sessions
      BY <2>0, MembersType
    <3>4. \A t \in Sessions : seenIds'[t] = IF t = s THEN ids ELSE seenIds[t]
      BY <3>1 DEF TypeOK
    <3> QED
      BY <3>1, <3>2, <3>3, <3>4 DEF OrderIsTheMemory
  <2>4. CASE UNCHANGED <<seenVars, lapsed>>
    BY <2>4 DEF OrderIsTheMemory, seenVars
  <2> QED
    BY <2>1, <2>2, <2>3, <2>4 DEF Next, IngestTick, Finish, vars, seenVars
<1>3. OrderIsTheMemory => lapsed = {}
  BY DEF OrderIsTheMemory
<1> QED
  BY <1>1, <1>2, <1>3, TypeCorrect, IdsAreOnce, PTL DEF Spec

\* So with room for every session the intake keeps its promise with no reservation.
THEOREM PromiseIsKept ==
  ASSUME MemoryOutlastsLane, RoomForEverySession PROVE Spec => KeepsThePromise
  BY IntakeImplementsOnceOnly, NoMemoryLapses, PTL

-----------------------------------------------------------------------------
(* The body that follows the world (Reconcile)                             *)
(*                                                                         *)
(* One session of the loop with its lane and its timer, for any ceiling of *)
(* the lane and any number of events.  A body that is out of step has a    *)
(* tick coming: the timer is armed, a tick waits, or one is being served.  *)

\* The next event finds room: no job of the lane is let go.
RoomInTheLane == Len(bodyLane) < LaneLimit

BodyJobs == Body!Kinds \cup {"tick"}
TickWaits(q) == \E i \in 1..Len(q) : q[i] = "tick"

\* A lane that rests has no backlog and nothing to deliberate on.
BodyType ==
  /\ problem \in BOOLEAN /\ shown \in BOOLEAN /\ cooling \in BOOLEAN /\ timer \in BOOLEAN
  /\ bodyLane \in Seq(BodyJobs)
  /\ running \in [job : BodyJobs \cup {"none"}, deliberate : {"unknown", "yes", "no"}]
  /\ running.job = "none" => running.deliberate = "unknown" /\ bodyLane = <<>>

\* Between events the incident is on the body only while its problem is open, and a problem
\* that is not on the body yet has its tick coming.
BeforeFold ==
  running.deliberate = "unknown" =>
    /\ shown => problem
    /\ problem /\ ~shown => timer \/ TickWaits(bodyLane) \/ running.job = "tick"
\* Once the event is folded the world may have moved on; the judging of it makes up for that.
AfterFold ==
  running.deliberate # "unknown" =>
    /\ shown /\ ~problem => running.job = "close" /\ running.deliberate = "yes"
    /\ problem /\ ~shown => timer \/ TickWaits(bodyLane) \/ running.deliberate = "yes"
BodyInv == BodyType /\ BeforeFold /\ AfterFold

\* A tick in the lane stays when a job is put behind it, and a tick put there is in the lane.
LEMMA TickAppended ==
  ASSUME NEW S, NEW q \in Seq(S), NEW job \in S
  PROVE  (TickWaits(q) => TickWaits(Append(q, job))) /\ (job = "tick" => TickWaits(Append(q, job)))
  BY DEF TickWaits

\* A tick in the lane is the next job or waits on.
LEMMA TickTail ==
  ASSUME NEW S, NEW q \in Seq(S), q # <<>>, TickWaits(q)
  PROVE  Head(q) = "tick" \/ TickWaits(Tail(q))
<1>1. PICK i \in 1..Len(q) : q[i] = "tick"
  BY DEF TickWaits
<1>2. CASE i = 1
  BY <1>1, <1>2
<1>3. CASE i # 1
  <2>1. i - 1 \in 1..Len(Tail(q)) /\ Tail(q)[i - 1] = q[i]
    BY <1>3
  <2> QED
    BY <1>1, <2>1 DEF TickWaits
<1> QED
  BY <1>2, <1>3

\* A session begins in step.
LEMMA BodyInit == Body!Init => BodyInv
<1> SUFFICES ASSUME Body!Init PROVE BodyInv
  OBVIOUS
<1>1. running = [job |-> "none", deliberate |-> "unknown"] /\ bodyLane = <<>>
  BY DEF Body!Init, Body!Idle
<1>2. problem = FALSE /\ shown = FALSE /\ cooling = FALSE /\ timer = FALSE
  BY DEF Body!Init
<1>3. BodyType
  <2>1. bodyLane \in Seq(BodyJobs)
    BY <1>1
  <2>2. running \in [job : BodyJobs \cup {"none"}, deliberate : {"unknown", "yes", "no"}]
    BY <1>1
  <2> QED
    BY <1>1, <1>2, <2>1, <2>2 DEF BodyType
<1> QED
  BY <1>1, <1>2, <1>3 DEF BodyInv, BeforeFold, AfterFold

\* SessionQueues.run with room in the lane: the job runs at once or waits at the end.
LEMMA BodyEnqueues ==
  ASSUME Body!ReconcileAssumption, BodyInv, RoomInTheLane, NEW job \in BodyJobs, Body!Enqueue(job)
  PROVE  IF running.job = "none"
         THEN running' = [job |-> job, deliberate |-> "unknown"] /\ bodyLane' = bodyLane
         ELSE running' = running /\ bodyLane' = Append(bodyLane, job)
<1>1. CASE running = Body!Idle
  BY <1>1 DEF Body!Enqueue, Body!Idle, Body!Begun
<1>2. CASE running # Body!Idle
  <2>1. running.job # "none"
    BY <1>2 DEF BodyInv, BodyType, Body!Idle
  <2>2. bodyLane \in Seq(BodyJobs)
    BY DEF BodyInv, BodyType
  <2> QED
    BY <1>2, <2>1, <2>2 DEF Body!Enqueue, RoomInTheLane, Body!ReconcileAssumption
<1> QED
  BY <1>1, <1>2

\* A job taken in keeps the invariant, if the timer was put out only for its tick.
LEMMA BodyTakesIn ==
  ASSUME Body!ReconcileAssumption, BodyInv, RoomInTheLane, NEW job \in BodyJobs, Body!Enqueue(job),
         UNCHANGED <<problem, shown, cooling>>, timer' \in BOOLEAN, timer' = timer \/ job = "tick"
  PROVE  BodyInv'
<1>1. bodyLane \in Seq(BodyJobs)
  BY DEF BodyInv, BodyType
<1>2. CASE running.job = "none"
  <2>1. running' = [job |-> job, deliberate |-> "unknown"] /\ bodyLane' = bodyLane
    BY <1>2, BodyEnqueues
  <2>2. bodyLane = <<>> /\ running.deliberate = "unknown" /\ job # "none"
    BY <1>2 DEF BodyInv, BodyType, BodyJobs, Body!Kinds
  <2>3. ~TickWaits(bodyLane)
    BY <2>2 DEF TickWaits
  <2>4. BodyType'
    BY <2>1, <2>2 DEF BodyInv, BodyType
  <2> QED
    BY <1>2, <2>1, <2>2, <2>3, <2>4 DEF BodyInv, BeforeFold, AfterFold
<1>3. CASE running.job # "none"
  <2>1. running' = running /\ bodyLane' = Append(bodyLane, job)
    BY <1>3, BodyEnqueues
  <2>2. bodyLane' \in Seq(BodyJobs)
    BY <1>1, <2>1
  <2>3. (TickWaits(bodyLane) => TickWaits(bodyLane')) /\ (job = "tick" => TickWaits(bodyLane'))
    BY <1>1, <2>1, TickAppended
  <2>4. BodyType'
    BY <1>3, <2>1, <2>2 DEF BodyInv, BodyType
  <2> QED
    BY <2>1, <2>3, <2>4 DEF BodyInv, BeforeFold, AfterFold
<1> QED
  BY <1>2, <1>3

\* The fold of an event into the world keeps the invariant.
LEMMA BodyFolds == ASSUME BodyInv, Body!Fold PROVE BodyInv'
<1>1. BodyType /\ BeforeFold
  BY DEF BodyInv
<1>2. PICK deliberate \in BOOLEAN : 
        /\ running' = [running EXCEPT !.deliberate = IF deliberate THEN "yes" ELSE "no"]
        /\ running.job \in {"open", "critical", "behavior"} => deliberate
        /\ running.job = "tick" /\ problem => deliberate
        /\ running.job = "close" /\ problem => deliberate
  BY <1>1 DEF Body!Fold, BodyType
<1>3. /\ UNCHANGED <<shown, cooling, timer, bodyLane>> /\ running # Body!Idle
      /\ running.deliberate = "unknown"
      /\ problem' = IF running.job \in {"open", "critical"} THEN TRUE
                    ELSE IF running.job = "close" THEN FALSE ELSE problem
  BY DEF Body!Fold
<1>4. running.job # "none"
  BY <1>1, <1>3 DEF BodyType, Body!Idle
<1>5. running'.job = running.job /\ running'.deliberate = IF deliberate THEN "yes" ELSE "no"
  BY <1>1, <1>2 DEF BodyType
<1>6. BodyType'
  BY <1>1, <1>2, <1>3, <1>4, <1>5 DEF BodyType
<1>7. (shown' /\ ~problem' => running'.job = "close" /\ deliberate)
      /\ (problem' /\ ~shown' => timer' \/ TickWaits(bodyLane) \/ deliberate)
  <2>1. CASE running.job \in {"open", "critical"}
    BY <1>2, <1>3, <1>5, <2>1
  <2>2. CASE running.job = "close"
    BY <1>1, <1>2, <1>3, <1>5, <2>2 DEF BeforeFold
  <2>3. CASE running.job \notin {"open", "critical", "close"}
    BY <1>1, <1>2, <1>3, <1>5, <2>3 DEF BeforeFold
  <2> QED
    BY <2>1, <2>2, <2>3
<1>8. TickWaits(bodyLane) => TickWaits(bodyLane')
  BY <1>3
<1> QED
  BY <1>5, <1>6, <1>7, <1>8 DEF BodyInv, BeforeFold, AfterFold

\* The rest of the loop keeps the invariant: what is held arms the timer, what is applied
\* brings the body in step.
LEMMA BodyJudges == ASSUME BodyInv, Body!Judge PROVE BodyInv'
<1>1. BodyInv /\ running.deliberate # "unknown" /\ problem' = problem
  BY DEF Body!Judge
<1>2. /\ problem \in BOOLEAN /\ shown \in BOOLEAN /\ cooling \in BOOLEAN /\ timer \in BOOLEAN
      /\ shown' \in BOOLEAN /\ cooling' \in BOOLEAN /\ timer' \in BOOLEAN
      /\ shown' => problem
      /\ problem /\ ~shown' => timer' \/ TickWaits(bodyLane)
  BY <1>1 DEF Body!Judge, BodyInv, BodyType, AfterFold, Body!Kinds, Body!TimerAfter, Body!Applied, Body!Held, Body!Wanted
<1>3. bodyLane \in Seq(BodyJobs)
  BY <1>1 DEF BodyInv, BodyType
<1>4. CASE bodyLane = <<>>
  <2>1. running' = [job |-> "none", deliberate |-> "unknown"] /\ bodyLane' = bodyLane
    BY <1>4 DEF Body!Judge, Body!Idle
  <2>2. BodyType'
    BY <1>1, <1>2, <1>3, <1>4, <2>1 DEF BodyType
  <2>3. ~TickWaits(bodyLane)
    BY <1>4 DEF TickWaits
  <2> QED
    BY <1>1, <1>2, <2>1, <2>2, <2>3 DEF BodyInv, BeforeFold, AfterFold
<1>5. CASE bodyLane # <<>>
  <2>1. running' = [job |-> Head(bodyLane), deliberate |-> "unknown"] /\ bodyLane' = Tail(bodyLane)
    BY <1>5 DEF Body!Judge, Body!Begun
  <2>2. Head(bodyLane) \in BodyJobs /\ Tail(bodyLane) \in Seq(BodyJobs) /\ Head(bodyLane) # "none"
    BY <1>3, <1>5 DEF BodyJobs, Body!Kinds
  <2>3. TickWaits(bodyLane) => TickWaits(bodyLane') \/ Head(bodyLane) = "tick"
    BY <1>3, <1>5, <2>1, TickTail
  <2>4. BodyType'
    BY <1>1, <1>2, <2>1, <2>2 DEF BodyType
  <2> QED
    BY <1>1, <1>2, <2>1, <2>3, <2>4 DEF BodyInv, BeforeFold, AfterFold
<1> QED
  BY <1>4, <1>5

\* Every step keeps the invariant while the lane has room.
LEMMA BodyKeepsPace ==
  ASSUME Body!ReconcileAssumption, BodyInv, RoomInTheLane, [Body!Next]_(Body!vars)
  PROVE  BodyInv'
<1>1. ASSUME NEW kind \in Body!Kinds, Body!Arrive(kind) PROVE BodyInv'
  <2>1. kind \in BodyJobs /\ Body!Enqueue(kind) /\ UNCHANGED <<problem, shown, cooling, timer>>
    BY <1>1 DEF Body!Arrive, BodyJobs
  <2>2. kind # "tick" /\ timer \in BOOLEAN
    BY DEF Body!Kinds, BodyInv, BodyType
  <2> QED
    BY <2>1, <2>2, BodyTakesIn
<1>2. CASE Body!Fold
  BY <1>2, BodyFolds
<1>3. CASE Body!Judge
  BY <1>3, BodyJudges
<1>4. CASE Body!Cool
  BY <1>4 DEF Body!Cool, BodyInv, BodyType, BeforeFold, AfterFold
<1>5. CASE Body!Fire
  BY <1>5, BodyTakesIn DEF Body!Fire, BodyJobs
<1>6. CASE UNCHANGED Body!vars
  BY <1>6 DEF Body!vars, BodyInv, BodyType, BeforeFold, AfterFold
<1> QED
  BY <1>1, <1>2, <1>3, <1>4, <1>5, <1>6 DEF Body!Next

\* The invariant of a session at rest.
LEMMA BodyIsCaughtUp == BodyInv => QuietMeansCaughtUp
  BY DEF QuietMeansCaughtUp, BodyInv, BodyType, BeforeFold, TickWaits, Body!QuietMeansCaughtUp, Body!Idle

\* runtime.ts:356, for a lane that never overflows: an idle session shows its world, or a timer
\* is armed.
THEOREM QuietBodiesAreCaughtUp ==
  ASSUME Body!ReconcileAssumption
  PROVE  Body!Spec /\ []RoomInTheLane => []QuietMeansCaughtUp
<1>1. BodyInv /\ RoomInTheLane /\ [Body!Next]_(Body!vars) => BodyInv'
  BY BodyKeepsPace
<1> QED
  BY <1>1, BodyInit, BodyIsCaughtUp, PTL DEF Body!Spec

\* Every job of the lane, and the timer, is owed to an event that arrived.
Busyness(job) == IF job = "none" THEN 0 ELSE 1
Armed(t) == IF t THEN 1 ELSE 0
OwedToArrivals ==
  sent \in 0..MaxArrivals /\ Len(bodyLane) + Busyness(running.job) + Armed(timer) <= sent

\* A lane that holds all that arrives has room for the next job.
LEMMA ArrivalsLeaveRoom ==
  ASSUME Body!ReconcileAssumption, MaxArrivals <= LaneLimit, BodyInv, OwedToArrivals
  PROVE  RoomInTheLane
<1>1. bodyLane \in Seq(BodyJobs) /\ (running.job = "none" => bodyLane = <<>>) /\ timer \in BOOLEAN
  BY DEF BodyInv, BodyType
<1>2. Len(bodyLane) \in Nat /\ LaneLimit \in Nat \ {0} /\ MaxArrivals \in Nat
  BY <1>1 DEF Body!ReconcileAssumption
<1>3. CASE running.job = "none"
  BY <1>1, <1>2, <1>3 DEF RoomInTheLane
<1>4. CASE running.job # "none"
  <2>1. Len(bodyLane) + 1 <= MaxArrivals
    BY <1>1, <1>2, <1>4 DEF OwedToArrivals, Busyness, Armed
  <2> QED
    BY <1>2, <2>1 DEF RoomInTheLane
<1> QED
  BY <1>3, <1>4

\* A job taken in is one job more, bodyLane or running.
LEMMA EnqueueIsOneMore ==
  ASSUME Body!ReconcileAssumption, BodyInv, RoomInTheLane, NEW job \in BodyJobs, Body!Enqueue(job)
  PROVE  Len(bodyLane') + Busyness(running'.job) = Len(bodyLane) + Busyness(running.job) + 1
<1>1. bodyLane \in Seq(BodyJobs) /\ job # "none"
  BY DEF BodyInv, BodyType, BodyJobs, Body!Kinds
<1>2. CASE running.job = "none"
  BY <1>1, <1>2, BodyEnqueues DEF Busyness
<1>3. CASE running.job # "none"
  BY <1>1, <1>3, BodyEnqueues DEF Busyness
<1> QED
  BY <1>2, <1>3

\* No step makes more jobs and timers than events that arrived.
LEMMA StaysOwed ==
  ASSUME Body!ReconcileAssumption, BodyInv, RoomInTheLane, OwedToArrivals, [Body!Next]_(Body!vars)
  PROVE  OwedToArrivals'
<1>1. /\ bodyLane \in Seq(BodyJobs) /\ Len(bodyLane) \in Nat /\ timer \in BOOLEAN
      /\ sent \in Nat /\ MaxArrivals \in Nat
      /\ Busyness(running.job) \in Nat
  BY DEF BodyInv, BodyType, OwedToArrivals, Body!ReconcileAssumption, Busyness
<1>2. ASSUME NEW kind \in Body!Kinds, Body!Arrive(kind) PROVE OwedToArrivals'
  <2>1. Len(bodyLane') + Busyness(running'.job) = Len(bodyLane) + Busyness(running.job) + 1
    BY <1>2, EnqueueIsOneMore DEF Body!Arrive, BodyJobs
  <2> QED
    BY <1>1, <1>2, <2>1 DEF Body!Arrive, OwedToArrivals, Armed
<1>3. CASE Body!Fold
  BY <1>1, <1>3 DEF Body!Fold, OwedToArrivals, Armed, Busyness, BodyInv, BodyType
<1>4. CASE Body!Judge
  <2>1. running.job # "none" /\ sent' = sent
    BY <1>4 DEF Body!Judge, BodyInv, BodyType
  <2>2. CASE bodyLane = <<>>
    BY <1>1, <1>4, <2>1, <2>2 DEF Body!Judge, Body!Idle, OwedToArrivals, Armed, Busyness
  <2>3. CASE bodyLane # <<>>
    <3>1. Len(bodyLane') = Len(bodyLane) - 1 /\ Len(bodyLane') \in Nat
      BY <1>1, <1>4, <2>3 DEF Body!Judge
    <3>2. Busyness(running'.job) <= 1 /\ Busyness(running'.job) \in Nat /\ Busyness(running.job) = 1
      BY <2>1 DEF Busyness
    <3>3. Armed(timer') <= 1 /\ Armed(timer') \in Nat /\ Armed(timer) \in Nat
      BY DEF Armed
    <3>4. sent \in 0..MaxArrivals /\ Len(bodyLane) + Busyness(running.job) + Armed(timer) <= sent
      BY DEF OwedToArrivals
    <3> QED
      BY <1>1, <2>1, <3>1, <3>2, <3>3, <3>4 DEF OwedToArrivals
  <2> QED
    BY <2>2, <2>3
<1>5. CASE Body!Cool
  BY <1>5 DEF Body!Cool, OwedToArrivals, Armed, Busyness
<1>6. CASE Body!Fire
  <2>1. Len(bodyLane') + Busyness(running'.job) = Len(bodyLane) + Busyness(running.job) + 1
    BY <1>6, EnqueueIsOneMore DEF Body!Fire, BodyJobs
  <2> QED
    BY <1>1, <1>6, <2>1 DEF Body!Fire, OwedToArrivals, Armed
<1>7. CASE UNCHANGED Body!vars
  BY <1>7 DEF Body!vars, OwedToArrivals, Armed, Busyness
<1> QED
  BY <1>2, <1>3, <1>4, <1>5, <1>6, <1>7 DEF Body!Next

\* A lane overflows only if more events arrive than it holds, ticks counted: until then an idle
\* session is in step or has a timer, without the reservation.
THEOREM FewEventsLeaveRoom ==
  ASSUME Body!ReconcileAssumption, MaxArrivals <= LaneLimit
  PROVE  Body!Spec => []QuietMeansCaughtUp
<1>1. Body!Init => OwedToArrivals
  BY DEF Body!Init, Body!Idle, OwedToArrivals, Busyness, Armed, Body!ReconcileAssumption
<1>2. BodyInv /\ OwedToArrivals /\ [Body!Next]_(Body!vars) => BodyInv' /\ OwedToArrivals'
  BY ArrivalsLeaveRoom, BodyKeepsPace, StaysOwed
<1> QED
  BY <1>1, <1>2, BodyInit, BodyIsCaughtUp, PTL DEF Body!Spec
=============================================================================
