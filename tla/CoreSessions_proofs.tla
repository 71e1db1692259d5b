-------------------------- MODULE CoreSessions_proofs --------------------------
(***************************************************************************)
(* Theorems about CoreSessions, for any names, any ceiling of sessions and *)
(* any number of events: a session that never made room serves its events  *)
(* one at a time and in order, and what was decided for a world lands on   *)
(* that world.  The invariant is stated of what is held, the lives, the    *)
(* runs and the number of events, so that it can be carried over the       *)
(* touch of a session that every step begins with.                         *)
(*                                                                         *)
(* And theorems about Snapshots, for any savers nobody waits for and any   *)
(* number of connections, steps, lives and failures: a kind keeps its      *)
(* newest row and in the end that row alone; and until a statement runs    *)
(* before one handed over earlier, a stored body never stands without its  *)
(* lesson, and a resume never shows what was taken back.                   *)
(***************************************************************************)
EXTENDS MCRuntime, TLAPS, SequenceTheorems

-----------------------------------------------------------------------------
(* The inductive invariant *)

HeldType == [folded : Seq(Nat), queue : Seq(Nat), hydrated : BOOLEAN]
RunType == [event : Nat, queue : Keys, state : Keys, saw : Seq(Nat), at : {"deciding", "running"}]
Rising(q) == \A i, j \in 1..Len(q) : i < j => q[i] < q[j]

\* The lives of a name are numbered from one, and its last one is held.
LivesFit(S, l) ==
  /\ l \in [Sessions -> Nat]
  /\ DOMAIN S \subseteq Keys /\ S \in [DOMAIN S -> HeldType]
  /\ \A k \in DOMAIN S : 1 <= k[2] /\ k[2] <= l[k[1]]
  /\ \A id \in Sessions : l[id] >= 1 => <<id, l[id]>> \in DOMAIN S

QueuesFit(S, n) ==
  \A k \in DOMAIN S : Rising(S[k].queue) /\ \A j \in 1..Len(S[k].queue) : S[k].queue[j] <= n

\* A run serves the first of its queue, alone, on that life of the session or a later one.
RunsFit(S, R) ==
  /\ \A r \in R :
       /\ r \in RunType
       /\ r.queue \in DOMAIN S /\ r.state \in DOMAIN S
       /\ r.queue[1] = r.state[1] /\ r.queue[2] <= r.state[2]
       /\ S[r.queue].queue # <<>>
  /\ \A r, s \in R : r.queue = s.queue => r = s

Served(R, k) == \E r \in R : r.queue = k

\* On a first life what is folded is older than what waits, but for the event being served.
FoldsFit(S, l, R, n) ==
  \A k \in DOMAIN S : l[k[1]] = 1 =>
    /\ Rising(S[k].folded)
    /\ \A i \in 1..Len(S[k].folded) :
         /\ S[k].folded[i] <= n
         /\ \A j \in 1..Len(S[k].queue) :
              \/ S[k].folded[i] < S[k].queue[j]
              \/ j = 1 /\ S[k].folded[i] <= S[k].queue[j] /\ Served(R, k)

DecisionsFit(S, l, R) ==
  \A r \in R : l[r.state[1]] = 1 /\ ~S[r.state].hydrated => S[r.state].folded = r.saw

Fits(S, l, R, n) ==
  LivesFit(S, l) /\ QueuesFit(S, n) /\ RunsFit(S, R) /\ FoldsFit(S, l, R, n) /\ DecisionsFit(S, l, R)

CoreInv == arrived \in Seq(Sessions) /\ Fits(states, life, runs, Len(arrived))

-----------------------------------------------------------------------------
(* The touch that finds a session or begins a new life of it *)

LEMMA TouchBeginsAtMostOneLife ==
  ASSUME LivesFit(states, life), NEW id \in Sessions, Session(id)
  PROVE  /\ LivesFit(States(id), life')
         /\ Bound(id) = <<id, life'[id]>>
         /\ DOMAIN states \subseteq DOMAIN States(id)
         /\ \A k \in DOMAIN states : States(id)[k] = states[k]
         /\ \A k \in DOMAIN States(id) : k \notin DOMAIN states => States(id)[k] = Fresh
         /\ \A other \in Sessions : life[other] <= life'[other]
<1> USE DEF LivesFit
<1>1. CASE Known(id)
  BY <1>1 DEF Session, States, Bound, Key
<1>2. CASE ~Known(id)
  <2> DEFINE new == <<id, life[id] + 1>>
  <2>1. /\ life' = [life EXCEPT ![id] = @ + 1]
        /\ Bound(id) = new
        /\ States(id) = [k \in DOMAIN states \cup {new} |->
                           IF k \in DOMAIN states THEN states[k] ELSE Fresh]
    BY <1>2 DEF Session, States, Bound
  <2>2. /\ life' \in [Sessions -> Nat] /\ life'[id] = life[id] + 1
        /\ \A other \in Sessions : other # id => life'[other] = life[other]
        /\ \A other \in Sessions : life[other] <= life'[other]
    BY <2>1
  <2>3. new \in Keys /\ new[1] = id /\ new[2] = life[id] + 1 /\ new \notin DOMAIN states
    BY DEF Keys
  <2>4. Fresh \in HeldType
    BY DEF Fresh, HeldType
  <2>5. DOMAIN States(id) = DOMAIN states \cup {new} /\ DOMAIN States(id) \subseteq Keys
    BY <2>1, <2>3
  <2>6. States(id) \in [DOMAIN States(id) -> HeldType]
    BY <2>1, <2>4
  <2>7. \A k \in DOMAIN States(id) : 1 <= k[2] /\ k[2] <= life'[k[1]]
    <3> SUFFICES ASSUME NEW k \in DOMAIN States(id) PROVE 1 <= k[2] /\ k[2] <= life'[k[1]]
      OBVIOUS
    <3>1. k[1] \in Sessions /\ k[2] \in Nat
      BY <2>5 DEF Keys
    <3>2. CASE k = new
      BY <2>2, <2>3, <3>2
    <3>3. CASE k \in DOMAIN states
      <4>1. 1 <= k[2] /\ k[2] <= life[k[1]] /\ life[k[1]] <= life'[k[1]]
        BY <2>2, <3>1, <3>3
      <4> QED
        BY <2>2, <3>1, <4>1
    <3> QED
      BY <2>5, <3>2, <3>3
  <2>8. \A other \in Sessions : life'[other] >= 1 => <<other, life'[other]>> \in DOMAIN States(id)
    BY <2>2, <2>5
  <2>9. Bound(id) = <<id, life'[id]>>
    BY <2>1, <2>2
  <2> HIDE DEF new
  <2> QED
    BY <2>1, <2>2, <2>5, <2>6, <2>7, <2>8, <2>9
<1> QED
  BY <1>1, <1>2

LEMMA TouchKeeps ==
  ASSUME NEW n \in Nat, Fits(states, life, runs, n), NEW id \in Sessions, Session(id)
  PROVE  Fits(States(id), life', runs, n)
<1> DEFINE S == States(id)
<1> USE DEF Fits
<1>1. /\ LivesFit(S, life')
      /\ DOMAIN states \subseteq DOMAIN S
      /\ \A k \in DOMAIN states : S[k] = states[k]
      /\ \A k \in DOMAIN S : k \notin DOMAIN states => S[k] = Fresh
      /\ \A other \in Sessions : life[other] <= life'[other]
  BY TouchBeginsAtMostOneLife
<1>2. \A k \in DOMAIN S : k \notin DOMAIN states =>
        Len(S[k].queue) = 0 /\ Len(S[k].folded) = 0
  BY <1>1 DEF Fresh
<1>3. \A k \in DOMAIN states : /\ k[1] \in Sessions /\ life[k[1]] \in Nat /\ life'[k[1]] \in Nat
                               /\ 1 <= life[k[1]] /\ life[k[1]] <= life'[k[1]]
  BY <1>1 DEF LivesFit, Keys
<1>4. \A k \in DOMAIN states : life'[k[1]] = 1 => life[k[1]] = 1
  BY <1>3
<1> HIDE DEF S
<1>5. QueuesFit(S, n)
  BY <1>1, <1>2 DEF QueuesFit, Rising
<1>6. RunsFit(S, runs)
  BY <1>1 DEF RunsFit
<1>7. FoldsFit(S, life', runs, n)
  <2> SUFFICES ASSUME NEW k \in DOMAIN S, life'[k[1]] = 1
               PROVE  /\ Rising(S[k].folded)
                      /\ \A i \in 1..Len(S[k].folded) :
                           /\ S[k].folded[i] <= n
                           /\ \A j \in 1..Len(S[k].queue) :
                                \/ S[k].folded[i] < S[k].queue[j]
                                \/ j = 1 /\ S[k].folded[i] <= S[k].queue[j] /\ Served(runs, k)
    BY DEF FoldsFit
  <2>1. CASE k \in DOMAIN states
    BY <1>1, <1>4, <2>1 DEF FoldsFit
  <2>2. CASE k \notin DOMAIN states
    BY <1>2, <2>2 DEF Rising
  <2> QED
    BY <2>1, <2>2
<1>8. DecisionsFit(S, life', runs)
  BY <1>1, <1>4 DEF DecisionsFit, RunsFit
<1> QED
  BY <1>1, <1>5, <1>6, <1>7, <1>8 DEF S

-----------------------------------------------------------------------------
(* What a step does to a life *)

LEMMA AppendIs ==
  ASSUME NEW q \in Seq(Nat), NEW e \in Nat
  PROVE  /\ Append(q, e) \in Seq(Nat) /\ Len(Append(q, e)) = Len(q) + 1
         /\ Append(q, e)[Len(Append(q, e))] = e
         /\ \A i \in 1..Len(q) : Append(q, e)[i] = q[i]
         /\ \A i \in 1..Len(Append(q, e)) : i \in 1..Len(q) \/ i = Len(Append(q, e))
<1>1. /\ Append(q, e) \in Seq(Nat) /\ Len(Append(q, e)) = Len(q) + 1 /\ Len(q) \in Nat
      /\ Append(q, e)[Len(q) + 1] = e
      /\ \A i \in 1..Len(q) : Append(q, e)[i] = q[i]
  BY AppendProperties, LenProperties
<1> QED
  BY <1>1

LEMMA AppendRises ==
  ASSUME NEW q \in Seq(Nat), NEW e \in Nat, Rising(q), \A j \in 1..Len(q) : q[j] < e
  PROVE  Rising(Append(q, e))
<1> DEFINE p == Append(q, e)
<1>1. /\ Len(p) = Len(q) + 1 /\ p[Len(q) + 1] = e
      /\ \A j \in 1..Len(q) : p[j] = q[j]
  OBVIOUS
<1> HIDE DEF p
<1>2. ASSUME NEW i \in 1..Len(p), NEW j \in 1..Len(p), i < j
      PROVE  p[i] < p[j]
  <2>1. i \in 1..Len(q)
    BY <1>1, <1>2
  <2>2. CASE j \in 1..Len(q)
    BY <1>1, <1>2, <2>1, <2>2 DEF Rising
  <2>3. CASE j = Len(q) + 1
    BY <1>1, <2>1, <2>3
  <2> QED
    BY <1>1, <2>2, <2>3
<1> QED
  BY <1>2 DEF Rising, p

LEMMA TailRises ==
  ASSUME NEW q \in Seq(Nat), q # <<>>, Rising(q)
  PROVE  Rising(Tail(q))
<1>1. /\ Len(Tail(q)) = Len(q) - 1
      /\ \A j \in 1..Len(Tail(q)) : Tail(q)[j] = q[j + 1] /\ j + 1 \in 1..Len(q)
  BY HeadTailProperties
<1> QED
  BY <1>1 DEF Rising

\* An event arrives and is chained behind all that arrived before it.
LEMMA EnqueueKeeps ==
  ASSUME NEW S, NEW l, NEW R, NEW n \in Nat, Fits(S, l, R, n), NEW b \in DOMAIN S
  PROVE  Fits([S EXCEPT ![b].queue = Append(@, n + 1)], l, R, n + 1)
<1> DEFINE q == Append(S[b].queue, n + 1)
           T == [S EXCEPT ![b].queue = q]
<1> USE DEF Fits
<1>1. S[b] \in HeldType /\ S[b].queue \in Seq(Nat)
  BY DEF LivesFit, HeldType
<1>11. \A j \in 1..Len(S[b].queue) : S[b].queue[j] \in Nat
  BY <1>1
<1>2. /\ q \in Seq(Nat) /\ Len(q) = Len(S[b].queue) + 1 /\ q # <<>>
      /\ \A j \in 1..Len(S[b].queue) : q[j] = S[b].queue[j] /\ q[j] \in Nat
      /\ q[Len(q)] = n + 1
      /\ \A j \in 1..Len(q) : j \in 1..Len(S[b].queue) \/ j = Len(q)
  <2>1. n + 1 \in Nat
    OBVIOUS
  <2>2. /\ q \in Seq(Nat) /\ Len(q) = Len(S[b].queue) + 1 /\ q[Len(q)] = n + 1
        /\ \A j \in 1..Len(S[b].queue) : q[j] = S[b].queue[j]
        /\ \A j \in 1..Len(q) : j \in 1..Len(S[b].queue) \/ j = Len(q)
    BY <1>1, <2>1, AppendIs
  <2>3. Len(S[b].queue) \in Nat
    BY <1>1, LenProperties
  <2> HIDE DEF q
  <2>4. q # <<>>
    BY <2>2, <2>3
  <2> QED
    BY <1>11, <2>2, <2>4
<1> HIDE DEF q
<1>3. /\ DOMAIN T = DOMAIN S /\ T \in [DOMAIN S -> HeldType]
      /\ \A k \in DOMAIN S : /\ T[k].folded = S[k].folded /\ T[k].hydrated = S[k].hydrated
                             /\ T[k].queue = IF k = b THEN q ELSE S[k].queue
  BY <1>2 DEF LivesFit, HeldType
<1>4. [S EXCEPT ![b].queue = Append(@, n + 1)] = T
  BY DEF q
<1> HIDE DEF T
<1>5. LivesFit(T, l)
  BY <1>3 DEF LivesFit
<1>6. \A k \in DOMAIN S : /\ S[k].queue \in Seq(Nat) /\ S[k].folded \in Seq(Nat)
  BY DEF LivesFit, HeldType
<1>7. QueuesFit(T, n + 1)
  <2>1. Rising(q) /\ \A j \in 1..Len(q) : q[j] <= n + 1
    <3>1. Rising(S[b].queue) /\ \A j \in 1..Len(S[b].queue) : S[b].queue[j] <= n
      BY DEF QueuesFit
    <3>2. \A j \in 1..Len(S[b].queue) : S[b].queue[j] < n + 1 /\ S[b].queue[j] <= n + 1
      BY <1>11, <3>1
    <3>3. Rising(q)
      BY <1>1, <3>1, <3>2, AppendRises DEF q
    <3>4. ASSUME NEW j \in 1..Len(q) PROVE q[j] <= n + 1
      <4>1. CASE j \in 1..Len(S[b].queue)
        BY <1>2, <3>2, <4>1
      <4>2. CASE j = Len(q)
        BY <1>2, <4>2
      <4> QED
        BY <1>2, <4>1, <4>2
    <3> QED
      BY <3>3, <3>4
  <2>2. \A k \in DOMAIN S : \A j \in 1..Len(S[k].queue) : S[k].queue[j] \in Nat /\ S[k].queue[j] <= n
    BY <1>6 DEF QueuesFit
  <2> QED
    BY <1>3, <2>1, <2>2 DEF QueuesFit
<1>8. RunsFit(T, R)
  BY <1>2, <1>3 DEF RunsFit
<1>9. FoldsFit(T, l, R, n + 1)
  <2> SUFFICES ASSUME NEW k \in DOMAIN S, l[k[1]] = 1
               PROVE  /\ Rising(T[k].folded)
                      /\ \A i \in 1..Len(T[k].folded) :
                           /\ T[k].folded[i] <= n + 1
                           /\ \A j \in 1..Len(T[k].queue) :
                                \/ T[k].folded[i] < T[k].queue[j]
                                \/ j = 1 /\ T[k].folded[i] <= T[k].queue[j] /\ Served(R, k)
    BY <1>3 DEF FoldsFit
  <2>1. Rising(T[k].folded)
    BY <1>3 DEF FoldsFit
  <2>2. \A i \in 1..Len(S[k].folded) : S[k].folded[i] \in Nat /\ S[k].folded[i] <= n
    BY <1>6 DEF FoldsFit
  <2>3. \A i \in 1..Len(S[k].folded) : S[k].folded[i] < n + 1 /\ S[k].folded[i] <= n + 1
    BY <2>2
  <2>4. CASE k = b
    <3>1. T[k].folded = S[k].folded /\ T[k].queue = q
      BY <1>3, <2>4
    <3>2. ASSUME NEW i \in 1..Len(S[k].folded), NEW j \in 1..Len(q)
          PROVE  \/ S[k].folded[i] < q[j]
                 \/ j = 1 /\ S[k].folded[i] <= q[j] /\ Served(R, k)
      <4>1. CASE j \in 1..Len(S[b].queue)
        BY <1>2, <2>4, <4>1 DEF FoldsFit
      <4>2. CASE j = Len(q)
        BY <1>2, <2>3, <4>2
      <4> QED
        BY <1>2, <4>1, <4>2
    <3> QED
      BY <2>1, <2>3, <3>1, <3>2
  <2>5. CASE k # b
    BY <1>3, <2>1, <2>3, <2>5 DEF FoldsFit
  <2> QED
    BY <2>4, <2>5
<1>10. DecisionsFit(T, l, R)
  BY <1>3 DEF DecisionsFit, RunsFit
<1> QED
  BY <1>4, <1>5, <1>7, <1>8, <1>9, <1>10

\* One more event has arrived, under a name that holds nothing.
LEMMA ArrivalKeeps ==
  ASSUME NEW S, NEW l, NEW R, NEW n \in Nat, Fits(S, l, R, n)
  PROVE  Fits(S, l, R, n + 1)
<1> USE DEF Fits
<1>1. \A k \in DOMAIN S : /\ S[k].queue \in Seq(Nat) /\ S[k].folded \in Seq(Nat)
  BY DEF LivesFit, HeldType
<1>2. QueuesFit(S, n + 1)
  <2>1. \A k \in DOMAIN S : \A j \in 1..Len(S[k].queue) : S[k].queue[j] \in Nat /\ S[k].queue[j] <= n
    BY <1>1 DEF QueuesFit
  <2> QED
    BY <2>1 DEF QueuesFit
<1>3. FoldsFit(S, l, R, n + 1)
  <2>1. \A k \in DOMAIN S : l[k[1]] = 1 =>
          \A i \in 1..Len(S[k].folded) : S[k].folded[i] \in Nat /\ S[k].folded[i] <= n
    BY <1>1 DEF FoldsFit
  <2>2. \A k \in DOMAIN S : l[k[1]] = 1 => \A i \in 1..Len(S[k].folded) : S[k].folded[i] <= n + 1
    BY <2>1
  <2> QED
    BY <2>2 DEF FoldsFit
<1> QED
  BY <1>2, <1>3

\* A run settles: the next event of its queue may begin, and is newer than all that was folded.
LEMMA DequeueKeeps ==
  ASSUME NEW S, NEW l, NEW R, NEW n \in Nat, Fits(S, l, R, n), NEW r \in R
  PROVE  Fits(Dequeued(S, r.queue), l, R \ {r}, n)
<1> DEFINE b == r.queue
           q == Tail(S[b].queue)
           T == [S EXCEPT ![b].queue = q]
<1> USE DEF Fits
<1>1. b \in DOMAIN S /\ S[b] \in HeldType /\ S[b].queue \in Seq(Nat) /\ S[b].queue # <<>>
  BY DEF LivesFit, HeldType, RunsFit
<1>2. /\ q \in Seq(Nat) /\ Len(q) = Len(S[b].queue) - 1
      /\ \A j \in 1..Len(q) : /\ q[j] = S[b].queue[j + 1] /\ j + 1 \in 1..Len(S[b].queue)
                              /\ j + 1 # 1
  BY <1>1, HeadTailProperties
<1>3. Dequeued(S, b) = T
  BY DEF Dequeued
<1> HIDE DEF q, b
<1>4. /\ DOMAIN T = DOMAIN S /\ T \in [DOMAIN S -> HeldType]
      /\ \A k \in DOMAIN S : /\ T[k].folded = S[k].folded /\ T[k].hydrated = S[k].hydrated
                             /\ T[k].queue = IF k = b THEN q ELSE S[k].queue
  BY <1>2 DEF LivesFit, HeldType
<1> HIDE DEF T
<1>5. LivesFit(T, l)
  BY <1>4 DEF LivesFit
<1>6. QueuesFit(T, n)
  <2>1. Rising(q) /\ \A j \in 1..Len(q) : q[j] <= n
    <3>1. Rising(S[b].queue) /\ \A j \in 1..Len(S[b].queue) : S[b].queue[j] <= n
      BY <1>1 DEF QueuesFit
    <3>2. Rising(q)
      BY <1>1, <3>1, TailRises DEF q
    <3> QED
      BY <1>2, <3>1, <3>2
  <2> QED
    BY <1>4, <2>1 DEF QueuesFit
<1>7. RunsFit(T, R \ {r})
  <2>1. \A s \in R \ {r} : s.queue # b
    BY DEF RunsFit, b
  <2> QED
    BY <1>4, <2>1 DEF RunsFit
<1>8. FoldsFit(T, l, R \ {r}, n)
  <2> SUFFICES ASSUME NEW k \in DOMAIN S, l[k[1]] = 1
               PROVE  /\ Rising(T[k].folded)
                      /\ \A i \in 1..Len(T[k].folded) :
                           /\ T[k].folded[i] <= n
                           /\ \A j \in 1..Len(T[k].queue) :
                                \/ T[k].folded[i] < T[k].queue[j]
                                \/ j = 1 /\ T[k].folded[i] <= T[k].queue[j] /\ Served(R \ {r}, k)
    BY <1>4 DEF FoldsFit
  <2>1. CASE k = b
    <3>1. \A i \in 1..Len(S[b].folded) : \A j \in 1..Len(q) : S[b].folded[i] < S[b].queue[j + 1]
      BY <1>2, <2>1 DEF FoldsFit
    <3>2. \A i \in 1..Len(S[b].folded) : \A j \in 1..Len(q) : S[b].folded[i] < q[j]
      BY <1>2, <3>1
    <3>3. T[k].folded = S[b].folded /\ T[k].queue = q
      BY <1>4, <2>1
    <3>4. Rising(S[b].folded) /\ \A i \in 1..Len(S[b].folded) : S[b].folded[i] <= n
      BY <2>1 DEF FoldsFit
    <3> QED
      BY <3>2, <3>3, <3>4
  <2>2. CASE k # b
    <3>1. Served(R, k) => Served(R \ {r}, k)
      BY <2>2 DEF Served, b
    <3> QED
      BY <1>4, <2>2, <3>1 DEF FoldsFit
  <2> QED
    BY <2>1, <2>2
<1>9. DecisionsFit(T, l, R \ {r})
  BY <1>4 DEF DecisionsFit, RunsFit
<1> QED
  BY <1>3, <1>5, <1>6, <1>7, <1>8, <1>9 DEF b

\* The first event of a queue nobody serves is folded into the life its session has now, and a
\* run begins.
LEMMA FoldKeeps ==
  ASSUME NEW S, NEW l, NEW R, NEW n \in Nat, Fits(S, l, R, n),
         NEW k \in DOMAIN S, S[k].queue # <<>>, \A r \in R : r.queue # k
  PROVE  LET b == <<k[1], l[k[1]]>>
             e == Head(S[k].queue)
             T == [S EXCEPT ![b].folded = Append(@, e)]
             run == [event |-> e, queue |-> k, state |-> b, saw |-> T[b].folded, at |-> "deciding"]
         IN  Fits(T, l, R \cup {run}, n)
<1> DEFINE b == <<k[1], l[k[1]]>>
           e == Head(S[k].queue)
           f == Append(S[b].folded, e)
           T == [S EXCEPT ![b].folded = f]
           run == [event |-> e, queue |-> k, state |-> b, saw |-> f, at |-> "deciding"]
<1> USE DEF Fits
<1>1. /\ k \in Keys /\ k = <<k[1], k[2]>> /\ k[1] \in Sessions /\ k[2] \in Nat
      /\ l[k[1]] \in Nat /\ 1 <= k[2] /\ k[2] <= l[k[1]]
  BY DEF LivesFit, Keys
<1>2. b \in DOMAIN S /\ b \in Keys /\ b[1] = k[1] /\ b[2] = l[k[1]]
  BY <1>1 DEF LivesFit
<1>3. l[k[1]] = 1 => b = k
  BY <1>1
<1>4. S[b].folded \in Seq(Nat) /\ S[k].queue \in Seq(Nat)
  BY <1>2 DEF LivesFit, HeldType
<1>5. e \in Nat /\ e = S[k].queue[1] /\ 1 \in 1..Len(S[k].queue)
  BY <1>4
<1> HIDE DEF b, e
<1>6. /\ f \in Seq(Nat) /\ Len(f) = Len(S[b].folded) + 1
      /\ \A i \in 1..Len(S[b].folded) : f[i] = S[b].folded[i]
      /\ f[Len(f)] = e
      /\ \A i \in 1..Len(f) : i \in 1..Len(S[b].folded) \/ i = Len(f)
  <2>1. S[b].folded \in Seq(Nat) /\ e \in Nat
    BY <1>4, <1>5
  <2> QED
    BY <2>1, AppendIs
<1> HIDE DEF run
<1>7. /\ [S EXCEPT ![b].folded = Append(@, e)] = T
      /\ [S EXCEPT ![b].folded = Append(@, e)][b].folded = f
  BY <1>2 DEF LivesFit, HeldType
<1> HIDE DEF f
<1>8. /\ DOMAIN T = DOMAIN S /\ T \in [DOMAIN S -> HeldType]
      /\ \A c \in DOMAIN S : /\ T[c].queue = S[c].queue /\ T[c].hydrated = S[c].hydrated
                             /\ T[c].folded = IF c = b THEN f ELSE S[c].folded
  BY <1>6 DEF LivesFit, HeldType
<1>9. /\ run \in RunType /\ run.queue = k /\ run.state = b /\ run.saw = f
  BY <1>1, <1>2, <1>5, <1>6 DEF RunType, run
<1> HIDE DEF T
<1>10. LivesFit(T, l)
  BY <1>8 DEF LivesFit
<1>11. QueuesFit(T, n)
  BY <1>8 DEF QueuesFit
<1>12. RunsFit(T, R \cup {run})
  BY <1>1, <1>2, <1>8, <1>9 DEF RunsFit
<1>13. FoldsFit(T, l, R \cup {run}, n)
  <2> SUFFICES ASSUME NEW c \in DOMAIN S, l[c[1]] = 1
               PROVE  /\ Rising(T[c].folded)
                      /\ \A i \in 1..Len(T[c].folded) :
                           /\ T[c].folded[i] <= n
                           /\ \A j \in 1..Len(T[c].queue) :
                                \/ T[c].folded[i] < T[c].queue[j]
                                \/ /\ j = 1 /\ T[c].folded[i] <= T[c].queue[j]
                                   /\ Served(R \cup {run}, c)
    BY <1>8 DEF FoldsFit
  <2>1. CASE c # b
    BY <1>8, <2>1 DEF FoldsFit, Served
  <2>2. CASE c = b
    <3>1. b = k /\ Served(R \cup {run}, k) /\ ~Served(R, k)
      BY <1>2, <1>3, <1>9, <2>2 DEF Served
    <3>2. \A i \in 1..Len(S[k].folded) :
            /\ S[k].folded[i] \in Nat /\ S[k].folded[i] <= n
            /\ \A j \in 1..Len(S[k].queue) : S[k].folded[i] < S[k].queue[j]
      <4>1. S[k].folded \in Seq(Nat) /\ l[k[1]] = 1
        BY <1>2, <1>4, <2>2, <3>1
      <4>2. ASSUME NEW i \in 1..Len(S[k].folded)
            PROVE  /\ S[k].folded[i] <= n
                   /\ \A j \in 1..Len(S[k].queue) : S[k].folded[i] < S[k].queue[j]
        BY <3>1, <4>1 DEF FoldsFit
      <4> QED
        BY <4>1, <4>2
    <3>3. \A j \in 1..Len(S[k].queue) : e <= S[k].queue[j] /\ (j # 1 => e < S[k].queue[j])
      BY <1>4, <1>5 DEF QueuesFit, Rising
    <3>4. e <= n
      BY <1>5 DEF QueuesFit
    <3>5. Rising(f)
      <4>1. Rising(S[b].folded)
        BY <1>2, <2>2 DEF FoldsFit
      <4>2. \A i \in 1..Len(S[b].folded) : S[b].folded[i] < e
        BY <1>5, <3>1, <3>2
      <4> QED
        BY <1>4, <1>5, <4>1, <4>2, AppendRises DEF f
    <3>6. \A i \in 1..Len(f) :
            /\ f[i] <= n
            /\ \A j \in 1..Len(S[k].queue) : f[i] < S[k].queue[j] \/ (j = 1 /\ f[i] <= S[k].queue[j])
      BY <1>6, <3>1, <3>2, <3>3, <3>4
    <3> QED
      BY <1>8, <2>2, <3>1, <3>5, <3>6
  <2> QED
    BY <2>1, <2>2
<1>14. DecisionsFit(T, l, R \cup {run})
  <2>1. ASSUME NEW r \in R, l[r.state[1]] = 1 PROVE r.state # b
    <3>1. /\ r.queue \in Keys /\ r.queue[1] = r.state[1] /\ r.queue[2] <= r.state[2]
          /\ 1 <= r.queue[2] /\ r.queue[2] \in Nat /\ r.state[2] \in Nat
      BY DEF RunsFit, RunType, LivesFit, Keys
    <3>2. r.queue = <<r.queue[1], r.queue[2]>>
      BY <3>1 DEF Keys
    <3>3. CASE r.state = b
      <4>1. l[k[1]] = 1 /\ r.state[2] = 1 /\ r.state[1] = k[1]
        BY <1>2, <2>1, <3>3
      <4>2. r.queue[2] = 1 /\ k[2] = 1
        BY <1>1, <3>1, <4>1
      <4> QED
        BY <1>1, <3>1, <3>2, <4>1, <4>2
    <3> QED
      BY <3>3
  <2>2. \A r \in R : r.state \in DOMAIN S
    BY DEF RunsFit
  <2> QED
    BY <1>2, <1>8, <1>9, <2>1, <2>2 DEF DecisionsFit
<1>15. Fits(T, l, R \cup {run}, n)
  BY <1>10, <1>11, <1>12, <1>13, <1>14
<1> QED
  BY <1>7, <1>15 DEF b, e, run, T

\* A run goes on to its capabilities.
LEMMA DecideKeeps ==
  ASSUME NEW S, NEW l, NEW R, NEW n \in Nat, Fits(S, l, R, n), NEW r \in R
  PROVE  Fits(S, l, (R \ {r}) \cup {[r EXCEPT !.at = "running"]}, n)
<1> DEFINE next == [r EXCEPT !.at = "running"]
           N == (R \ {r}) \cup {next}
<1> USE DEF Fits
<1>1. r \in RunType
  BY DEF RunsFit
<1>2. /\ next \in RunType /\ next.queue = r.queue /\ next.state = r.state /\ next.saw = r.saw
  BY <1>1 DEF RunType
<1> HIDE DEF next
<1>3. RunsFit(S, N)
  BY <1>2 DEF RunsFit
<1>4. \A k : Served(R, k) => Served(N, k)
  BY <1>2 DEF Served
<1>5. FoldsFit(S, l, N, n)
  BY <1>4 DEF FoldsFit
<1>6. DecisionsFit(S, l, N)
  BY <1>2 DEF DecisionsFit
<1> QED
  BY <1>3, <1>5, <1>6 DEF next

\* What an earlier process believed takes the place of what was folded.
LEMMA HydrateKeeps ==
  ASSUME NEW S, NEW l, NEW R, NEW n \in Nat, Fits(S, l, R, n), NEW b
  PROVE  Fits([S EXCEPT ![b].folded = <<>>, ![b].hydrated = TRUE], l, R, n)
<1> DEFINE T == [S EXCEPT ![b].folded = <<>>, ![b].hydrated = TRUE]
<1> USE DEF Fits
<1>1. <<>> \in Seq(Nat) /\ Len(<<>>) = 0
  OBVIOUS
<1>2. /\ DOMAIN T = DOMAIN S /\ T \in [DOMAIN S -> HeldType]
      /\ \A k \in DOMAIN S : /\ T[k].queue = S[k].queue
                             /\ k # b => T[k] = S[k]
                             /\ k = b => T[k].folded = <<>> /\ T[k].hydrated
  BY <1>1 DEF LivesFit, HeldType
<1> HIDE DEF T
<1>3. LivesFit(T, l)
  BY <1>2 DEF LivesFit
<1>4. QueuesFit(T, n)
  BY <1>2 DEF QueuesFit
<1>5. RunsFit(T, R)
  BY <1>2 DEF RunsFit
<1>6. FoldsFit(T, l, R, n)
  <2> SUFFICES ASSUME NEW k \in DOMAIN S, l[k[1]] = 1
               PROVE  /\ Rising(T[k].folded)
                      /\ \A i \in 1..Len(T[k].folded) :
                           /\ T[k].folded[i] <= n
                           /\ \A j \in 1..Len(T[k].queue) :
                                \/ T[k].folded[i] < T[k].queue[j]
                                \/ j = 1 /\ T[k].folded[i] <= T[k].queue[j] /\ Served(R, k)
    BY <1>2 DEF FoldsFit
  <2>1. CASE k = b
    BY <1>1, <1>2, <2>1 DEF Rising
  <2>2. CASE k # b
    BY <1>2, <2>2 DEF FoldsFit
  <2> QED
    BY <2>1, <2>2
<1>7. DecisionsFit(T, l, R)
  BY <1>2 DEF DecisionsFit, RunsFit
<1> QED
  BY <1>3, <1>4, <1>5, <1>6, <1>7 DEF T

-----------------------------------------------------------------------------
(* Every step keeps the invariant *)

LEMMA InvariantHoldsAtFirst == Init => CoreInv
<1> SUFFICES ASSUME Init PROVE CoreInv
  OBVIOUS
<1>1. <<>> \in Seq(Sessions) /\ Len(<<>>) = 0 /\ DOMAIN <<>> = {}
  OBVIOUS
<1>2. LivesFit(states, life)
  BY <1>1 DEF Init, LivesFit
<1> QED
  BY <1>1, <1>2 DEF Init, CoreInv, Fits, QueuesFit, RunsFit, FoldsFit, DecisionsFit

LEMMA NamesAreNames ==
  ASSUME CoreInv
  PROVE  /\ \A r \in runs : r.state[1] \in Sessions
         /\ \A k \in DOMAIN states : k[1] \in Sessions
BY DEF CoreInv, Fits, LivesFit, RunsFit, RunType, Keys

LEMMA IngestKeeps == ASSUME CoreInv, NEW id \in Sessions, Ingest(id) PROVE CoreInv'
<1> DEFINE n == Len(arrived)
<1>1. /\ Session(id) /\ arrived' = Append(arrived, id) /\ runs' = runs
      /\ states' = [States(id) EXCEPT ![Bound(id)].queue = Append(@, n + 1)]
  BY DEF Ingest
<1>2. /\ n \in Nat /\ arrived \in Seq(Sessions) /\ Fits(states, life, runs, n)
  BY DEF CoreInv
<1>3. arrived' \in Seq(Sessions) /\ Len(arrived') = n + 1
  BY <1>1, <1>2
<1> HIDE DEF n
<1>4. Fits(States(id), life', runs, n)
  BY <1>1, <1>2, TouchKeeps
<1>5. Fits(states', life', runs, n + 1)
  <2>1. CASE Bound(id) \in DOMAIN States(id)
    BY <1>1, <1>2, <1>4, <2>1, EnqueueKeeps
  <2>2. CASE Bound(id) \notin DOMAIN States(id)
    <3>1. States(id) = [k \in DOMAIN States(id) |-> States(id)[k]]
      BY <1>4 DEF Fits, LivesFit
    <3>2. states' = States(id)
      BY <1>1, <2>2, <3>1
    <3> QED
      BY <1>2, <1>4, <3>2, ArrivalKeeps
  <2> QED
    BY <2>1, <2>2
<1> QED
  BY <1>1, <1>3, <1>5 DEF CoreInv

LEMMA StartKeeps == ASSUME CoreInv, NEW e, Start(e) PROVE CoreInv'
<1> DEFINE n == Len(arrived)
<1>1. PICK k \in DOMAIN states :
        LET b == Bound(k[1])
            kept == [States(k[1]) EXCEPT ![b].folded = Append(@, e)]
        IN /\ Begins(e, k) /\ Session(k[1]) /\ arrived' = arrived
           /\ \/ states' = Dequeued(kept, k) /\ runs' = runs
              \/ /\ states' = kept
                 /\ runs' = runs \cup {[event |-> e, queue |-> k, state |-> b,
                                        saw |-> kept[b].folded, at |-> "deciding"]}
  BY DEF Start
<1>2. /\ n \in Nat /\ arrived \in Seq(Sessions) /\ Fits(states, life, runs, n) /\ k[1] \in Sessions
  BY NamesAreNames DEF CoreInv
<1> HIDE DEF n
<1> DEFINE S == States(k[1])
           b == Bound(k[1])
           kept == [S EXCEPT ![b].folded = Append(@, e)]
           run == [event |-> e, queue |-> k, state |-> b, saw |-> kept[b].folded, at |-> "deciding"]
<1>3. Fits(S, life', runs, n)
  BY <1>1, <1>2, TouchKeeps
<1>4. k \in DOMAIN S /\ S[k] = states[k] /\ b = <<k[1], life'[k[1]]>>
  BY <1>1, <1>2, TouchBeginsAtMostOneLife DEF Fits
<1>5. /\ S[k].queue # <<>> /\ e = Head(S[k].queue)
      /\ \A r \in runs : r.queue # k
  BY <1>1, <1>4 DEF Begins, Waits, Busy
<1>6. Fits(kept, life', runs \cup {run}, n)
  <2> HIDE DEF S
  <2> QED
    BY <1>2, <1>3, <1>4, <1>5, FoldKeeps
<1>7. Fits(states', life', runs', n)
  <2>1. CASE states' = kept /\ runs' = runs \cup {run}
    BY <1>6, <2>1
  <2>2. CASE states' = Dequeued(kept, k) /\ runs' = runs
    <3>1. run.queue = k /\ run \in runs \cup {run}
      OBVIOUS
    <3> HIDE DEF run, kept
    <3>2. (runs \cup {run}) \ {run} = runs
      BY <1>5, <3>1
    <3>3. Fits(Dequeued(kept, run.queue), life', (runs \cup {run}) \ {run}, n)
      BY <1>2, <1>6, <3>1, DequeueKeeps
    <3> QED
      BY <2>2, <3>1, <3>2, <3>3
  <2> QED
    BY <1>1, <2>1, <2>2
<1> QED
  BY <1>1, <1>2, <1>7 DEF CoreInv, n

LEMMA DecidedKeeps == ASSUME CoreInv, NEW e, Decide(e) PROVE CoreInv'
<1> DEFINE n == Len(arrived)
<1>1. PICK r \in runs :
        /\ Session(r.state[1]) /\ states' = States(r.state[1]) /\ arrived' = arrived
        /\ runs' = (runs \ {r}) \cup {[r EXCEPT !.at = "running"]}
  BY DEF Decide
<1>2. /\ n \in Nat /\ Fits(states, life, runs, n) /\ r.state[1] \in Sessions
  BY NamesAreNames DEF CoreInv
<1> HIDE DEF n
<1>3. Fits(States(r.state[1]), life', runs, n)
  BY <1>1, <1>2, TouchKeeps
<1>4. Fits(states', life', runs', n)
  BY <1>1, <1>2, <1>3, DecideKeeps
<1> QED
  BY <1>1, <1>4 DEF CoreInv, n

LEMMA SettledKeeps == ASSUME CoreInv, NEW e, Finish(e) \/ Fail(e) PROVE CoreInv'
<1> DEFINE n == Len(arrived)
<1>1. PICK r \in runs :
        /\ \/ Session(r.state[1]) /\ states' = Dequeued(States(r.state[1]), r.queue)
           \/ states' = Dequeued(states, r.queue) /\ life' = life
        /\ runs' = runs \ {r} /\ arrived' = arrived
  BY DEF Finish, Fail, Settled
<1>2. /\ n \in Nat /\ Fits(states, life, runs, n) /\ r.state[1] \in Sessions
  BY NamesAreNames DEF CoreInv
<1> HIDE DEF n
<1>3. CASE states' = Dequeued(states, r.queue) /\ life' = life
  BY <1>1, <1>2, <1>3, DequeueKeeps DEF CoreInv, n
<1>4. CASE Session(r.state[1]) /\ states' = Dequeued(States(r.state[1]), r.queue)
  <2>1. Fits(States(r.state[1]), life', runs, n)
    BY <1>2, <1>4, TouchKeeps
  <2>2. Fits(states', life', runs', n)
    BY <1>1, <1>2, <1>4, <2>1, DequeueKeeps
  <2> QED
    BY <1>1, <2>2 DEF CoreInv, n
<1> QED
  BY <1>1, <1>3, <1>4

LEMMA OutsideKeeps == ASSUME CoreInv, NEW id \in Sessions, Touch(id) \/ Hydrate(id) PROVE CoreInv'
<1> DEFINE n == Len(arrived)
<1>1. /\ Session(id) /\ runs' = runs /\ arrived' = arrived
      /\ \/ states' = States(id)
         \/ states' = [States(id) EXCEPT ![Bound(id)].folded = <<>>, ![Bound(id)].hydrated = TRUE]
  BY DEF Touch, Hydrate, Outside
<1>2. /\ n \in Nat /\ Fits(states, life, runs, n)
  BY DEF CoreInv
<1> HIDE DEF n
<1>3. Fits(States(id), life', runs, n)
  BY <1>1, <1>2, TouchKeeps
<1>4. Fits(states', life', runs, n)
  BY <1>1, <1>2, <1>3, HydrateKeeps
<1> QED
  BY <1>1, <1>4 DEF CoreInv, n

LEMMA InvariantIsKept == CoreInv /\ [Next]_vars => CoreInv'
<1> SUFFICES ASSUME CoreInv, [Next]_vars PROVE CoreInv'
  OBVIOUS
<1>1. CASE Next
  BY <1>1, IngestKeeps, StartKeeps, DecidedKeeps, SettledKeeps, OutsideKeeps DEF Next, Step
<1>2. CASE UNCHANGED vars
  BY <1>2 DEF vars, CoreInv, Fits
<1> QED
  BY <1>1, <1>2

\* The inductive invariant of CoreSessions: who holds the lock of a held session, what its runs were
\* given, and what it has folded.
THEOREM CoreInvariant == Spec => []CoreInv
BY InvariantHoldsAtFirst, InvariantIsKept, PTL DEF Spec

-----------------------------------------------------------------------------
(* What follows *)

\* The comment on ingest: a session that never made room is never in two runs at once.
THEOREM OneRunAtATime == Spec => []SerialWhileHeld
<1>1. CoreInv => SerialWhileHeld
  <2> SUFFICES ASSUME CoreInv, NEW r \in runs, NEW s \in runs, r.state = s.state, r # s
               PROVE  life[r.state[1]] > 1
    BY DEF SerialWhileHeld
  <2>1. /\ r.queue \in Keys /\ s.queue \in Keys /\ r.queue # s.queue
        /\ r.queue[1] = r.state[1] /\ s.queue[1] = r.state[1]
        /\ r.queue[2] <= r.state[2] /\ s.queue[2] <= r.state[2]
        /\ 1 <= r.queue[2] /\ 1 <= s.queue[2]
        /\ r.state \in Keys /\ r.state[2] <= life[r.state[1]]
    BY DEF CoreInv, Fits, RunsFit, RunType, LivesFit
  <2>2. /\ r.queue = <<r.queue[1], r.queue[2]>> /\ s.queue = <<s.queue[1], s.queue[2]>>
        /\ r.queue[2] \in Nat /\ s.queue[2] \in Nat /\ r.state[2] \in Nat
        /\ life[r.state[1]] \in Nat
    BY <2>1 DEF Keys, CoreInv, Fits, LivesFit
  <2>3. r.queue[2] # s.queue[2]
    BY <2>1, <2>2
  <2> QED
    BY <2>1, <2>2, <2>3
<1> QED
  BY <1>1, CoreInvariant, PTL

\* runIngest: what was decided is applied to the world it was decided about, unless the session
\* was resumed or had made room meanwhile.
THEOREM WorldsAreDecidedOn == Spec => []DecidedForThisWorld
<1>1. CoreInv => DecidedForThisWorld
  BY DEF CoreInv, Fits, DecisionsFit, DecidedForThisWorld
<1> QED
  BY <1>1, CoreInvariant, PTL

\* ingest: a session that never made room folds its events in the order they arrived.
THEOREM EventsAreFoldedInOrder == Spec => []FoldedInOrder
<1>1. CoreInv => FoldedInOrder
  <2> SUFFICES ASSUME CoreInv, NEW k \in DOMAIN states, life[k[1]] = 1
               PROVE  \A i, j \in DOMAIN states[k].folded :
                        i < j => states[k].folded[i] < states[k].folded[j]
    BY DEF FoldedInOrder
  <2>1. Rising(states[k].folded) /\ states[k].folded \in Seq(Nat)
    BY DEF CoreInv, Fits, FoldsFit, LivesFit, HeldType
  <2> QED
    BY <2>1 DEF Rising
<1> QED
  BY <1>1, CoreInvariant, PTL

\* The comment on ingest: until a session makes room its runs keep apart - one at a time, each
\* decided for the world it read, its events folded in their order.
THEOREM RunsAreKeptApart == Spec => []RunsKeepApart
<1>1. SerialWhileHeld /\ DecidedForThisWorld /\ FoldedInOrder => RunsKeepApart
  BY DEF RunsKeepApart
<1> QED
  BY <1>1, OneRunAtATime, WorldsAreDecidedOn, EventsAreFoldedInOrder, PTL

-----------------------------------------------------------------------------
(* The snapshots of a session: who has what with the pool, and which rows that leaves *)

InLine(q, s) == \E i \in 1..Len(q) : q[i] = s
OncePerSaver(q) == \A i, j \in 1..Len(q) : q[i] = q[j] => i = j

Todos(s) ==
  IF s = Lane THEN {<<"world", "ui", "memory">>, <<"ui", "memory">>, <<"memory">>}
              ELSE {<<"memory", "ui">>, <<"ui">>}

Jobs == [todo : Seq(Pool!Kinds), of : Nat, lessons : SUBSET Nat, life : Nat, id : Nat]

\* Every saver with work left has one statement with the pool.
SaversFit ==
  /\ issued \in Seq(Pool!Savers) /\ OncePerSaver(issued)
  /\ saver \in [Pool!Savers -> Jobs]
  /\ \A s \in Pool!Savers :
       /\ saver[s] # Pool!Idle <=> InLine(issued, s)
       /\ saver[s] # Pool!Idle =>
            saver[s].todo \in Todos(s) /\ saver[s].of \in 1..step /\ saver[s].life = poolLife
       /\ saver[s].id <= lastId

\* The newest of some rows, and those of a kind.
LastOf(R) == CHOOSE r \in R : \A q \in R : q.id <= r.id
HasLast(R) == R # {} => \E r \in R : \A q \in R : q.id <= r.id
OfRows(R, k) == {r \in R : r.kind = k}
OneIdEach(R) == \A r, q \in R : r.id = q.id => r = q

Rows == [id : Nat \ {0}, kind : Pool!Kinds, of : Nat, lessons : SUBSET Nat, life : Nat]
RowsFit ==
  /\ rows \subseteq Rows /\ OneIdEach(rows)
  /\ \A r \in rows : r.id <= lastId /\ r.of <= step /\ r.life <= poolLife
  /\ \A k \in Pool!Kinds : HasLast(OfRows(rows, k))

\* A row that was inserted is there, or a newer one, until its saver has deleted the others.
DeletesFit ==
  \A s \in Pool!Savers : saver[s].id > 0 =>
    /\ \A r \in rows : r.id = saver[s].id => r.kind = Head(saver[s].todo)
    /\ \E r \in rows : r.kind = Head(saver[s].todo) /\ r.id >= saver[s].id

\* Of two rows of a kind the newer one's saver is still to delete the other.
OldRowsGo ==
  ~missed => \A r, q \in rows : r.kind = q.kind /\ r.id < q.id => \E s \in Pool!Savers : saver[s].id = q.id

CountsFit ==
  /\ step \in Nat /\ lastId \in Nat /\ poolLife \in Nat /\ missed \in BOOLEAN
  /\ taught \subseteq 1..step /\ reversals \subseteq 1..step /\ lessons \subseteq Nat
  /\ found \subseteq Rows

TableInv == CountsFit /\ SaversFit /\ RowsFit /\ DeletesFit /\ OldRowsGo

-----------------------------------------------------------------------------
\* How many statements a saver has had run.
Stage(todo) ==
  IF todo \in {<<"world", "ui", "memory">>, <<"memory", "ui">>} THEN 0
  ELSE IF todo \in {<<"ui", "memory">>, <<"ui">>} THEN 2 ELSE 4
Done(v) == Stage(v.todo) + (IF v.id = 0 THEN 0 ELSE 1)
InsertsMemory(v) == Head(v.todo) = "memory" /\ v.id = 0

\* While nothing is overtaken the savers take turns: who began later is never ahead, ...
InTurn(v, w) ==
  /\ v.of # w.of
  /\ v.of < w.of => Done(v) >= Done(w)
  /\ v.of > w.of => Done(v) < Done(w)
  /\ InsertsMemory(v) /\ InsertsMemory(w) => v.lessons \subseteq w.lessons
TurnsKept ==
  \A i, j \in 1..Len(issued) : i < j => InTurn(saver[issued[i]], saver[issued[j]])

AtWork == {s \in Pool!Savers : saver[s] # Pool!Idle}

\* ... so that the last step's body is stored, and stored last.
LastBodyIsNewest ==
  ~missed /\ step > 0 =>
    \/ \E s \in AtWork : saver[s].of = step /\ Done(saver[s]) <= 2
    \/ /\ OfRows(rows, "ui") # {} /\ LastOf(OfRows(rows, "ui")).of = step
       /\ \A s \in AtWork : Done(saver[s]) >= 3

\* A lesson the table has, that no memory about to be saved is without.
Learned(x) ==
  /\ OfRows(rows, "memory") # {} /\ x \in LastOf(OfRows(rows, "memory")).lessons
  /\ x \in lessons
  /\ \A s \in AtWork : InsertsMemory(saver[s]) => x \in saver[s].lessons

LessonsFit ==
  /\ \A s \in AtWork :
       /\ InsertsMemory(saver[s]) => saver[s].lessons \subseteq lessons
       /\ s = Lane => saver[s].of \notin taught
       /\ \A x \in taught : saver[s].of = x =>
            IF Done(saver[s]) = 0 THEN x \in saver[s].lessons ELSE Learned(x)
  /\ \A r \in rows : r.kind = "ui" /\ r.life = poolLife /\ r.of \in taught => Learned(r.of)

TurnInv == TurnsKept /\ LastBodyIsNewest /\ LessonsFit
-----------------------------------------------------------------------------
\* A statement is through, and others are as they were.
LEMMA OneIsThrough ==
  ASSUME NEW S, NEW q \in Seq(S), NEW i \in 1..Len(q)
  PROVE  /\ Pool!RemoveAt(q, i) \in Seq(S) /\ Len(Pool!RemoveAt(q, i)) = Len(q) - 1
         /\ \A j \in 1..(Len(q) - 1) : Pool!RemoveAt(q, i)[j] = IF j < i THEN q[j] ELSE q[j + 1]
<1>1. Len(q) \in Nat /\ i \in Nat /\ 1 <= i /\ i <= Len(q)
  OBVIOUS
<1> DEFINE a == SubSeq(q, 1, i - 1)
           b == SubSeq(q, i + 1, Len(q))
<1>2. a \in Seq(S) /\ Len(a) = i - 1 /\ \A j \in 1..(i - 1) : a[j] = q[j]
  BY <1>1, SubSeqProperties
<1>3. b \in Seq(S) /\ Len(b) = Len(q) - i /\ \A j \in 1..(Len(q) - i) : b[j] = q[i + j]
  BY <1>1, SubSeqProperties
<1> HIDE DEF a, b
<1>4. a \o b \in Seq(S) /\ Len(a \o b) = Len(q) - 1
  <2>1. Len(a \o b) = Len(a) + Len(b) /\ a \o b \in Seq(S)
    BY <1>2, <1>3, ConcatProperties
  <2> QED
    BY <1>1, <1>2, <1>3, <2>1
<1>5. ASSUME NEW j \in 1..(Len(q) - 1) PROVE (a \o b)[j] = IF j < i THEN q[j] ELSE q[j + 1]
  <2>1. CASE j < i
    BY <1>1, <1>2, <1>3, <2>1
  <2>2. CASE ~(j < i)
    <3>1. j - Len(a) \in 1..Len(b) /\ i + (j - Len(a)) = j + 1
      BY <1>1, <1>2, <1>3, <2>2
    <3>2. (a \o b)[j] = b[j - Len(a)]
      BY <1>1, <1>2, <1>3, <2>2
    <3> QED
      BY <1>3, <2>2, <3>1, <3>2
  <2> QED
    BY <2>1, <2>2
<1>6. Pool!RemoveAt(q, i) = a \o b
  BY DEF Pool!RemoveAt, a, b
<1> QED
  BY <1>4, <1>5, <1>6

LEMMA OneLeaves ==
  ASSUME NEW S, NEW q \in Seq(S), NEW i \in 1..Len(q), OncePerSaver(q)
  PROVE  /\ Pool!RemoveAt(q, i) \in Seq(S) /\ OncePerSaver(Pool!RemoveAt(q, i))
         /\ \A s : InLine(Pool!RemoveAt(q, i), s) <=> InLine(q, s) /\ s # q[i]
<1> DEFINE r == Pool!RemoveAt(q, i)
<1>1. r \in Seq(S) /\ Len(r) = Len(q) - 1 /\ Len(q) \in Nat
      /\ \A j \in 1..(Len(q) - 1) : r[j] = IF j < i THEN q[j] ELSE q[j + 1]
  <2>1. Len(q) \in Nat
    OBVIOUS
  <2> QED
    BY <2>1, OneIsThrough
<1> HIDE DEF r
<1> DEFINE at(j) == IF j < i THEN j ELSE j + 1
<1>2. \A j \in 1..Len(r) : at(j) \in 1..Len(q) /\ at(j) # i /\ r[j] = q[at(j)]
  BY <1>1
<1>3. \A j, k \in 1..Len(r) : at(j) = at(k) => j = k
  BY <1>1
<1>4. \A k \in 1..Len(q) : k # i => \E j \in 1..Len(r) : r[j] = q[k]
  <2> TAKE k \in 1..Len(q)
  <2> HAVE k # i
  <2>1. CASE k < i
    BY <1>1, <2>1
  <2>2. CASE k > i
    <3>1. k - 1 \in 1..(Len(q) - 1) /\ ~(k - 1 < i) /\ (k - 1) + 1 = k
      BY <1>1, <2>2
    <3>2. r[k - 1] = q[(k - 1) + 1]
      BY <1>1, <3>1
    <3> QED
      BY <1>1, <3>1, <3>2
  <2> QED
    BY <2>1, <2>2
<1>5. OncePerSaver(r)
  BY <1>2, <1>3 DEF OncePerSaver
<1>6. ASSUME NEW s PROVE InLine(r, s) <=> InLine(q, s) /\ s # q[i]
  <2>1. InLine(r, s) => InLine(q, s) /\ s # q[i]
    BY <1>2 DEF InLine, OncePerSaver
  <2>2. InLine(q, s) /\ s # q[i] => InLine(r, s)
    BY <1>4 DEF InLine
  <2> QED
    BY <2>1, <2>2
<1> QED
  BY <1>1, <1>5, <1>6 DEF r

LEMMA OneJoins ==
  ASSUME NEW S, NEW q \in Seq(S), NEW s \in S, ~InLine(q, s), OncePerSaver(q)
  PROVE  /\ Append(q, s) \in Seq(S) /\ OncePerSaver(Append(q, s))
         /\ \A t : InLine(Append(q, s), t) <=> InLine(q, t) \/ t = s
<1>1. Len(q) \in Nat /\ Append(q, s) \in Seq(S) /\ Len(Append(q, s)) = Len(q) + 1
      /\ Append(q, s)[Len(q) + 1] = s /\ \A i \in 1..Len(q) : Append(q, s)[i] = q[i]
  OBVIOUS
<1>2. \A i \in 1..Len(Append(q, s)) : i \in 1..Len(q) \/ i = Len(q) + 1
  BY <1>1
<1>3. OncePerSaver(Append(q, s))
  BY <1>1, <1>2 DEF OncePerSaver, InLine
<1>4. ASSUME NEW t PROVE InLine(Append(q, s), t) <=> InLine(q, t) \/ t = s
  <2>1. InLine(Append(q, s), t) => InLine(q, t) \/ t = s
    BY <1>1, <1>2 DEF InLine
  <2>2. InLine(q, t) => InLine(Append(q, s), t)
    BY <1>1 DEF InLine
  <2>3. t = s => InLine(Append(q, s), t)
    BY <1>1 DEF InLine
  <2> QED
    BY <2>1, <2>2, <2>3
<1> QED
  BY <1>1, <1>3, <1>4

LEMMA OneMoves ==
  ASSUME NEW S, NEW q \in Seq(S), NEW i \in 1..Len(q), OncePerSaver(q)
  PROVE  /\ Append(Pool!RemoveAt(q, i), q[i]) \in Seq(S)
         /\ OncePerSaver(Append(Pool!RemoveAt(q, i), q[i]))
         /\ \A s : InLine(Append(Pool!RemoveAt(q, i), q[i]), s) <=> InLine(q, s)
<1>1. /\ Pool!RemoveAt(q, i) \in Seq(S) /\ OncePerSaver(Pool!RemoveAt(q, i))
      /\ \A s : InLine(Pool!RemoveAt(q, i), s) <=> InLine(q, s) /\ s # q[i]
  BY OneLeaves
<1>2. q[i] \in S /\ InLine(q, q[i])
  BY DEF InLine
<1>3. ~InLine(Pool!RemoveAt(q, i), q[i])
  BY <1>1
<1>4. /\ Append(Pool!RemoveAt(q, i), q[i]) \in Seq(S) /\ OncePerSaver(Append(Pool!RemoveAt(q, i), q[i]))
      /\ \A t : InLine(Append(Pool!RemoveAt(q, i), q[i]), t) <=> InLine(Pool!RemoveAt(q, i), t) \/ t = q[i]
  BY <1>1, <1>2, <1>3, OneJoins
<1> QED
  BY <1>1, <1>2, <1>4

LEMMA NewestIsLast == \A k : Pool!OfKind(k) = OfRows(rows, k) /\ Pool!Newest(k) = LastOf(OfRows(rows, k))
  BY DEF Pool!Newest, LastOf, Pool!OfKind, OfRows

LEMMA LastIs ==
  ASSUME NEW R, R \subseteq Rows, NEW m \in R, \A q \in R : q.id <= m.id, OneIdEach(R)
  PROVE  LastOf(R) = m
<1>1. LastOf(R) \in R /\ \A q \in R : q.id <= LastOf(R).id
  BY DEF LastOf
<1>2. LastOf(R).id = m.id
  <2>1. LastOf(R).id <= m.id /\ m.id <= LastOf(R).id /\ m.id \in Nat /\ LastOf(R).id \in Nat
    BY <1>1 DEF Rows
  <2> QED
    BY <2>1
<1> QED
  BY <1>1, <1>2 DEF OneIdEach

LEMMA LastIsIn ==
  ASSUME NEW R, R # {}, HasLast(R)
  PROVE  LastOf(R) \in R /\ \A q \in R : q.id <= LastOf(R).id
  BY DEF HasLast, LastOf

\* The last of some rows is the last of what is left of them.
LEMMA LastStays ==
  ASSUME NEW R, NEW T, T \subseteq R, R \subseteq Rows, OneIdEach(R), NEW m \in T, \A q \in R : q.id <= m.id
  PROVE  LastOf(R) = m /\ LastOf(T) = m /\ HasLast(T)
<1>1. T \subseteq Rows /\ OneIdEach(T) /\ m \in R /\ \A q \in T : q.id <= m.id
  BY DEF OneIdEach
<1> QED
  BY <1>1, LastIs DEF HasLast

\* A saver's work is never nothing.
LEMMA WorkIsNotIdle ==
  ASSUME NEW v \in Jobs, NEW s, v.todo \in Todos(s)
  PROVE  v # Pool!Idle
<1>1. Len(v.todo) # 0
  BY DEF Todos
<1>2. Len(Pool!Idle.todo) = 0
  BY DEF Pool!Idle
<1> QED
  BY <1>1, <1>2

LEMMA IdleIsAJob == Pool!Idle \in Jobs /\ Pool!Idle.id = 0 /\ Pool!Idle.todo = <<>>
  BY DEF Pool!Idle, Jobs

\* A saver goes on to its next statement, ...
LEMMA SaverGoesOn ==
  ASSUME SaversFit, CountsFit, NEW i \in 1..Len(issued), NEW v \in Jobs,
         v.todo \in Todos(issued[i]), v.of = saver[issued[i]].of, v.life = poolLife,
         lastId' \in Nat, lastId <= lastId', v.id <= lastId', UNCHANGED <<step, poolLife>>,
         saver' = [saver EXCEPT ![issued[i]] = v],
         issued' = Append(Pool!RemoveAt(issued, i), issued[i])
  PROVE  SaversFit'
<1> DEFINE s == issued[i]
<1>1. s \in Pool!Savers /\ InLine(issued, s)
  BY DEF SaversFit, InLine
<1>2. /\ issued' \in Seq(Pool!Savers) /\ OncePerSaver(issued')
      /\ \A t : InLine(issued', t) <=> InLine(issued, t)
  BY OneMoves DEF SaversFit
<1>3. saver' \in [Pool!Savers -> Jobs] /\ saver'[s] = v /\ \A t \in Pool!Savers : t # s => saver'[t] = saver[t]
  BY <1>1 DEF SaversFit
<1>4. v # Pool!Idle
  BY WorkIsNotIdle
<1>5. \A t \in Pool!Savers : saver[t].id <= lastId'
  <2>1. \A t \in Pool!Savers : saver[t].id \in Nat /\ saver[t].id <= lastId
    BY DEF SaversFit, Jobs
  <2> QED
    BY <2>1 DEF CountsFit
<1>6. v.of \in 1..step
  BY <1>1 DEF SaversFit
<1> HIDE DEF s
<1>7. ASSUME NEW t \in Pool!Savers
      PROVE  /\ saver'[t] # Pool!Idle <=> InLine(issued', t)
             /\ saver'[t] # Pool!Idle =>
                  saver'[t].todo \in Todos(t) /\ saver'[t].of \in 1..step' /\ saver'[t].life = poolLife'
             /\ saver'[t].id <= lastId'
  <2>1. CASE t = s
    BY <1>1, <1>2, <1>3, <1>4, <1>6, <2>1 DEF s
  <2>2. CASE t # s
    BY <1>2, <1>3, <1>5, <2>2 DEF SaversFit
  <2> QED
    BY <2>1, <2>2
<1> QED
  BY <1>2, <1>3, <1>7 DEF SaversFit

\* ... or is done, ...
LEMMA SaverIsDone ==
  ASSUME SaversFit, NEW i \in 1..Len(issued), UNCHANGED <<step, poolLife, lastId>>,
         saver' = [saver EXCEPT ![issued[i]] = Pool!Idle],
         issued' = Pool!RemoveAt(issued, i), CountsFit
  PROVE  SaversFit'
<1> DEFINE s == issued[i]
<1>1. s \in Pool!Savers
  BY DEF SaversFit
<1>2. /\ issued' \in Seq(Pool!Savers) /\ OncePerSaver(issued')
      /\ \A t : InLine(issued', t) <=> InLine(issued, t) /\ t # s
  BY OneLeaves DEF SaversFit
<1>3. saver' \in [Pool!Savers -> Jobs] /\ saver'[s] = Pool!Idle
      /\ \A t \in Pool!Savers : t # s => saver'[t] = saver[t]
  BY <1>1, IdleIsAJob DEF SaversFit
<1> HIDE DEF s
<1>4. ASSUME NEW t \in Pool!Savers
      PROVE  /\ saver'[t] # Pool!Idle <=> InLine(issued', t)
             /\ saver'[t] # Pool!Idle =>
                  saver'[t].todo \in Todos(t) /\ saver'[t].of \in 1..step' /\ saver'[t].life = poolLife'
             /\ saver'[t].id <= lastId'
  <2>1. CASE t = s
    BY <1>2, <1>3, <2>1, IdleIsAJob DEF CountsFit
  <2>2. CASE t # s
    BY <1>2, <1>3, <2>2 DEF SaversFit
  <2> QED
    BY <2>1, <2>2
<1> QED
  BY <1>2, <1>3, <1>4 DEF SaversFit

\* ... and one at rest may begin.
LEMMA SaverBegins ==
  ASSUME SaversFit, CountsFit, NEW s \in Pool!Savers, saver[s] = Pool!Idle, NEW v \in Jobs,
         v.todo \in Todos(s), v.of = step + 1, v.life = poolLife, v.id = 0,
         step' = step + 1, UNCHANGED <<poolLife, lastId>>,
         saver' = [saver EXCEPT ![s] = v], issued' = Append(issued, s)
  PROVE  SaversFit'
<1>1. ~InLine(issued, s)
  BY DEF SaversFit
<1>2. /\ issued' \in Seq(Pool!Savers) /\ OncePerSaver(issued')
      /\ \A t : InLine(issued', t) <=> InLine(issued, t) \/ t = s
  BY <1>1, OneJoins DEF SaversFit
<1>3. saver' \in [Pool!Savers -> Jobs] /\ saver'[s] = v /\ \A t \in Pool!Savers : t # s => saver'[t] = saver[t]
  BY DEF SaversFit
<1>4. v # Pool!Idle
  BY WorkIsNotIdle
<1>5. step + 1 \in 1..step' /\ 1..step \subseteq 1..step' /\ 0 <= lastId'
  BY DEF CountsFit
<1>6. ASSUME NEW t \in Pool!Savers
      PROVE  /\ saver'[t] # Pool!Idle <=> InLine(issued', t)
             /\ saver'[t] # Pool!Idle =>
                  saver'[t].todo \in Todos(t) /\ saver'[t].of \in 1..step' /\ saver'[t].life = poolLife'
             /\ saver'[t].id <= lastId'
  <2>1. CASE t = s
    BY <1>2, <1>3, <1>4, <1>5, <2>1
  <2>2. CASE t # s
    BY <1>2, <1>3, <1>5, <2>2 DEF SaversFit
  <2> QED
    BY <2>1, <2>2
<1> QED
  BY <1>2, <1>3, <1>6 DEF SaversFit

-----------------------------------------------------------------------------
\* At first nothing is stored and nobody saves.
LEMMA TableInit == ASSUME Pool!Init PROVE TableInv
<1>1. issued \in Seq(Pool!Savers) /\ OncePerSaver(issued) /\ \A s : ~InLine(issued, s)
  <2>1. issued \in Seq(Pool!Savers) /\ Len(issued) = 0
    BY DEF Pool!Init
  <2> QED
    BY <2>1 DEF OncePerSaver, InLine
<1>2. \A s \in Pool!Savers : saver[s] = Pool!Idle
  BY DEF Pool!Init
<1>3. saver \in [Pool!Savers -> Jobs]
  BY IdleIsAJob DEF Pool!Init
<1>4. SaversFit
  BY <1>1, <1>2, <1>3, IdleIsAJob DEF SaversFit, Pool!Init
<1>5. RowsFit
  BY DEF RowsFit, Pool!Init, OneIdEach, HasLast, OfRows
<1>6. DeletesFit
  BY <1>2, IdleIsAJob DEF DeletesFit
<1>7. OldRowsGo
  BY DEF OldRowsGo, Pool!Init
<1>8. CountsFit
  BY DEF CountsFit, Pool!Init
<1> QED
  BY <1>4, <1>5, <1>6, <1>7, <1>8 DEF TableInv

\* A step and the saver that begins with it.
Beginning(s, todo) ==
  /\ s \in Pool!Savers /\ saver[s] = Pool!Idle /\ step' = step + 1
  /\ saver' = [saver EXCEPT ![s] = Pool!Inserting(todo, step')]
  /\ issued' = Append(issued, s) /\ todo \in Todos(s)
  /\ lessons \subseteq lessons' /\ lessons' \subseteq lessons \cup {step'}
  /\ taught \subseteq taught' /\ taught' \subseteq taught \cup {step'}
  /\ reversals' \subseteq reversals \cup {step'}
  /\ UNCHANGED <<poolLife, rows, lastId, failures, missed, found>>

LEMMA MorphBegins == ASSUME Pool!Ingest PROVE Beginning(Lane, <<"world", "ui", "memory">>)
  BY DEF Pool!Ingest, Beginning, Pool!Starts, Todos, Pool!tableVars, Pool!Savers

LEMMA ReversalBegins ==
  ASSUME Pool!SnapshotsAssumption, NEW r \in Reversers, NEW teaches \in BOOLEAN, Pool!TakeBack(r, teaches)
  PROVE  Beginning(r, <<"memory", "ui">>)
<1>1. r # Lane /\ r \in Pool!Savers
  BY DEF Pool!SnapshotsAssumption, Pool!Savers
<1>2. <<"memory", "ui">> \in Todos(r)
  BY <1>1 DEF Todos
<1> QED
  BY <1>1, <1>2 DEF Pool!TakeBack, Beginning, Pool!Starts, Pool!tableVars, Pool!ReversalSaves

LEMMA TodosAreKinds == \A s : \A todo \in Todos(s) : todo \in Seq(Pool!Kinds) /\ Len(todo) > 0 /\ todo # <<>>
<1> SUFFICES ASSUME NEW s, NEW todo \in Todos(s)
             PROVE  todo \in Seq(Pool!Kinds) /\ Len(todo) > 0 /\ todo # <<>>
  OBVIOUS
<1> DEFINE one == <<"memory">>
           other == <<"ui">>
           two == <<"ui", "memory">>
           back == <<"memory", "ui">>
           three == <<"world", "ui", "memory">>
<1>1. todo = one \/ todo = other \/ todo = two \/ todo = back \/ todo = three
  BY DEF Todos
<1>2. /\ one \in Seq(Pool!Kinds) /\ other \in Seq(Pool!Kinds) /\ two \in Seq(Pool!Kinds)
      /\ back \in Seq(Pool!Kinds) /\ three \in Seq(Pool!Kinds)
  BY DEF Pool!Kinds
<1>3. Len(one) = 1 /\ Len(other) = 1 /\ Len(two) = 2 /\ Len(back) = 2 /\ Len(three) = 3
  OBVIOUS
<1> HIDE DEF one, other, two, back, three
<1>4. todo \in Seq(Pool!Kinds)
  BY <1>1, <1>2
<1>6. Len(todo) > 0
  BY <1>1, <1>3
<1>5. todo # <<>>
  BY <1>4, <1>6
<1> QED
  BY <1>4, <1>5, <1>6

LEMMA BegunJob ==
  ASSUME CountsFit, SaversFit, NEW s, NEW todo, Beginning(s, todo)
  PROVE  LET v == [todo |-> todo, of |-> step + 1, lessons |-> lessons', life |-> poolLife, id |-> 0]
         IN  /\ v \in Jobs /\ Pool!Inserting(todo, step') = v
             /\ saver' = [saver EXCEPT ![s] = v]
             /\ saver'[s] = v /\ \A t \in Pool!Savers : t # s => saver'[t] = saver[t]
<1> DEFINE v == [todo |-> todo, of |-> step + 1, lessons |-> lessons', life |-> poolLife, id |-> 0]
<1>1. Pool!Inserting(todo, step') = v
  BY DEF Pool!Inserting, Beginning
<1>2. todo \in Seq(Pool!Kinds)
  BY TodosAreKinds DEF Beginning
<1>3. step + 1 \in Nat /\ lessons' \in SUBSET Nat /\ poolLife \in Nat
  BY DEF CountsFit, Beginning
<1>4. v \in Jobs
  BY <1>2, <1>3 DEF Jobs
<1>5. saver' = [saver EXCEPT ![s] = v] /\ s \in Pool!Savers
  BY <1>1 DEF Beginning
<1> HIDE DEF v
<1>6. saver'[s] = v /\ \A t \in Pool!Savers : t # s => saver'[t] = saver[t]
  BY <1>5 DEF SaversFit
<1> QED
  BY <1>1, <1>4, <1>5, <1>6 DEF v

LEMMA TableBegins ==
  ASSUME TableInv, NEW s, NEW todo, Beginning(s, todo)
  PROVE  TableInv'
<1> DEFINE v == [todo |-> todo, of |-> step + 1, lessons |-> lessons', life |-> poolLife, id |-> 0]
<1>1. /\ v \in Jobs /\ saver' = [saver EXCEPT ![s] = v]
      /\ saver'[s] = v /\ \A t \in Pool!Savers : t # s => saver'[t] = saver[t]
  BY BegunJob DEF TableInv
<1>2. v.todo = todo /\ v.of = step + 1 /\ v.life = poolLife /\ v.id = 0
  OBVIOUS
<1>0. saver[s].id = 0
  BY IdleIsAJob DEF Beginning
<1> HIDE DEF v
<1>3. SaversFit'
  BY <1>1, <1>2, SaverBegins DEF TableInv, Beginning
<1>4. CountsFit'
  <2>1. step' \in Nat /\ 1..step \subseteq 1..step' /\ step' \in 1..step'
    BY DEF TableInv, CountsFit, Beginning
  <2> QED
    BY <2>1 DEF TableInv, CountsFit, Beginning
<1>5. RowsFit'
  <2>1. \A r \in rows : r.of <= step'
    <3>1. \A r \in rows : r.of \in Nat /\ r.of <= step
      BY DEF TableInv, RowsFit, Rows
    <3> QED
      BY <3>1 DEF TableInv, CountsFit, Beginning
  <2> QED
    BY <2>1 DEF TableInv, RowsFit, Beginning
<1>6. DeletesFit'
  BY <1>1, <1>2 DEF TableInv, DeletesFit, Beginning
<1>7. OldRowsGo'
  <2>1. \A q \in rows, t \in Pool!Savers : saver[t].id = q.id => t # s
    <3>1. \A q \in rows : q.id \in Nat \ {0}
      BY DEF TableInv, RowsFit, Rows
    <3> QED
      BY <1>0, <3>1
  <2> QED
    BY <1>1, <2>1 DEF TableInv, OldRowsGo, Beginning
<1> QED
  BY <1>3, <1>4, <1>5, <1>6, <1>7 DEF TableInv

\* What a statement in hand is of.
LEMMA InHandIs ==
  ASSUME TableInv, NEW i, Pool!InHand(i)
  PROVE  /\ i \in 1..Len(issued) /\ issued[i] \in Pool!Savers /\ InLine(issued, issued[i])
         /\ saver[issued[i]] \in Jobs /\ saver[issued[i]] # Pool!Idle
         /\ saver[issued[i]].todo \in Todos(issued[i]) /\ saver[issued[i]].of \in 1..step
         /\ saver[issued[i]].life = poolLife /\ saver[issued[i]].todo \in Seq(Pool!Kinds)
         /\ Head(saver[issued[i]].todo) \in Pool!Kinds
<1>1. i \in 1..Len(issued)
  BY DEF Pool!InHand
<1>2. issued[i] \in Pool!Savers /\ InLine(issued, issued[i])
  BY <1>1 DEF TableInv, SaversFit, InLine
<1>3. /\ saver[issued[i]] \in Jobs /\ saver[issued[i]] # Pool!Idle
      /\ saver[issued[i]].todo \in Todos(issued[i]) /\ saver[issued[i]].of \in 1..step
      /\ saver[issued[i]].life = poolLife
  BY <1>2 DEF TableInv, SaversFit
<1>4. saver[issued[i]].todo \in Seq(Pool!Kinds) /\ saver[issued[i]].todo # <<>>
  BY <1>3, TodosAreKinds
<1>5. Head(saver[issued[i]].todo) \in Pool!Kinds
  BY <1>4
<1> QED
  BY <1>1, <1>2, <1>3, <1>4, <1>5

\* The row an insert makes, and its saver after it.
NewRow(v) == [id |-> lastId + 1, kind |-> Head(v.todo), of |-> v.of, lessons |-> v.lessons, life |-> v.life]
Stored(v) == [v EXCEPT !.id = lastId + 1]

LEMMA StoredIs ==
  ASSUME NEW v \in Jobs, lastId \in Nat
  PROVE  /\ Stored(v) \in Jobs /\ Stored(v).id = lastId + 1 /\ Stored(v).todo = v.todo /\ Stored(v).of = v.of
         /\ Stored(v).life = v.life /\ Stored(v).lessons = v.lessons
  BY DEF Stored, Jobs

LEMMA NewRowIs ==
  ASSUME NEW v \in Jobs, lastId \in Nat, Head(v.todo) \in Pool!Kinds
  PROVE  /\ NewRow(v) \in Rows /\ NewRow(v).id = lastId + 1 /\ NewRow(v).kind = Head(v.todo)
         /\ NewRow(v).of = v.of /\ NewRow(v).lessons = v.lessons /\ NewRow(v).life = v.life
  BY DEF NewRow, Rows, Jobs

LEMMA InsertIs ==
  ASSUME TableInv, NEW i, Pool!Insert(i)
  PROVE  LET s == issued[i]
             v == saver[s]
         IN  /\ v.id = 0 /\ lastId' = lastId + 1 /\ rows' = rows \cup {NewRow(v)}
             /\ saver' = [saver EXCEPT ![s] = Stored(v)]
             /\ saver'[s] = Stored(v) /\ \A t \in Pool!Savers : t # s => saver'[t] = saver[t]
             /\ issued' = Append(Pool!RemoveAt(issued, i), s)
             /\ UNCHANGED <<poolLife, step, reversals, taught, body, lessons, reversible, failures, missed, found>>
<1> DEFINE s == issued[i]
           v == saver[s]
<1>1. s \in Pool!Savers /\ v \in Jobs
  BY InHandIs DEF Pool!Insert
<1>2. v.id = 0 /\ lastId' = lastId + 1
  BY DEF Pool!Insert
<1>3. rows' = rows \cup {NewRow(v)}
  BY <1>2 DEF Pool!Insert, NewRow
<1>4. saver' = [saver EXCEPT ![s].id = lastId + 1] /\ issued' = Append(Pool!RemoveAt(issued, i), s)
  BY <1>2 DEF Pool!Insert
<1>5. saver' = [saver EXCEPT ![s] = Stored(v)]
  BY <1>4 DEF Stored
<1>6. UNCHANGED <<poolLife, step, reversals, taught, body, lessons, reversible, failures, missed, found>>
  BY DEF Pool!Insert, Pool!liveVars
<1>7. saver \in [Pool!Savers -> Jobs]
  BY DEF TableInv, SaversFit
<1> HIDE DEF s, v
<1>8. saver'[s] = Stored(v) /\ \A t \in Pool!Savers : t # s => saver'[t] = saver[t]
  BY <1>1, <1>5, <1>7
<1> QED
  BY <1>2, <1>3, <1>4, <1>5, <1>6, <1>8 DEF s, v

LEMMA TableStores ==
  ASSUME TableInv, NEW i, Pool!Insert(i)
  PROVE  TableInv'
<1> DEFINE s == issued[i]
           v == saver[s]
           k == Head(v.todo)
           row == NewRow(v)
<1>1. /\ v.id = 0 /\ lastId' = lastId + 1 /\ rows' = rows \cup {row}
      /\ saver' = [saver EXCEPT ![s] = Stored(v)]
      /\ saver'[s] = Stored(v) /\ \A t \in Pool!Savers : t # s => saver'[t] = saver[t]
      /\ issued' = Append(Pool!RemoveAt(issued, i), s)
      /\ UNCHANGED <<poolLife, step, reversals, taught, lessons, missed, found>>
  BY InsertIs
<1>2. /\ i \in 1..Len(issued) /\ s \in Pool!Savers
      /\ v \in Jobs /\ v.todo \in Todos(s) /\ v.of \in 1..step /\ v.life = poolLife
      /\ k \in Pool!Kinds
  BY InHandIs DEF Pool!Insert
<1>3. lastId \in Nat /\ step \in Nat /\ poolLife \in Nat
  BY DEF TableInv, CountsFit
<1>4. /\ Stored(v) \in Jobs /\ Stored(v).id = lastId + 1 /\ Stored(v).todo = v.todo /\ Stored(v).of = v.of
      /\ Stored(v).life = v.life
  BY <1>2, <1>3, StoredIs
<1>5. row \in Rows /\ row.id = lastId + 1 /\ row.kind = k /\ row.of = v.of /\ row.life = v.life
  BY <1>2, <1>3, NewRowIs
<1>6. \A r \in rows : r \in Rows /\ r.id \in Nat /\ r.id # 0 /\ r.id < lastId + 1
  BY <1>3 DEF TableInv, RowsFit, Rows
<1>7. \A t \in Pool!Savers : saver[t].id \in Nat /\ saver[t].id < lastId + 1
  BY <1>3 DEF TableInv, SaversFit, Jobs
<1> HIDE DEF row
<1>8. SaversFit'
  <2>1. Stored(v).todo \in Todos(issued[i]) /\ Stored(v).of = saver[issued[i]].of /\ Stored(v).life = poolLife
    BY <1>2, <1>4
  <2>2. lastId' \in Nat /\ lastId <= lastId' /\ Stored(v).id <= lastId'
    BY <1>1, <1>3, <1>4
  <2> QED
    BY <1>1, <1>2, <1>4, <2>1, <2>2, SaverGoesOn DEF TableInv
<1> HIDE DEF k, v, s
<1>9. RowsFit'
  <2>1. rows' \subseteq Rows /\ OneIdEach(rows')
    BY <1>1, <1>5, <1>6 DEF TableInv, RowsFit, OneIdEach
  <2>2. \A r \in rows' : r.id <= lastId' /\ r.of <= step' /\ r.life <= poolLife'
    <3>1. \A r \in rows : r.id <= lastId'
      BY <1>1, <1>3, <1>6
    <3>2. row.id <= lastId' /\ row.of <= step /\ row.life <= poolLife
      BY <1>1, <1>2, <1>3, <1>5
    <3> QED
      BY <1>1, <3>1, <3>2 DEF TableInv, RowsFit
  <2>3. ASSUME NEW j \in Pool!Kinds PROVE HasLast(OfRows(rows', j))
    <3>1. CASE j = k
      <4>1. row \in OfRows(rows', j) /\ \A q \in OfRows(rows', j) : q.id <= row.id
        BY <1>1, <1>3, <1>5, <1>6, <3>1 DEF OfRows
      <4> QED
        BY <4>1 DEF HasLast
    <3>2. CASE j # k
      <4>1. OfRows(rows', j) = OfRows(rows, j)
        BY <1>1, <1>5, <3>2 DEF OfRows
      <4> QED
        BY <4>1 DEF TableInv, RowsFit
    <3> QED
      BY <3>1, <3>2
  <2> QED
    BY <2>1, <2>2, <2>3 DEF RowsFit
<1>10. DeletesFit'
  <2> SUFFICES ASSUME NEW t \in Pool!Savers, saver'[t].id > 0
               PROVE  /\ \A r \in rows' : r.id = saver'[t].id => r.kind = Head(saver'[t].todo)
                      /\ \E r \in rows' : r.kind = Head(saver'[t].todo) /\ r.id >= saver'[t].id
    BY DEF DeletesFit
  <2>1. CASE t = s
    <3>1. saver'[t].id = row.id /\ Head(saver'[t].todo) = row.kind
      BY <1>1, <1>4, <1>5, <2>1 DEF k
    <3>2. \A r \in rows' : r.id = row.id => r = row
      BY <1>1, <1>3, <1>5, <1>6
    <3> QED
      BY <1>1, <1>3, <1>5, <3>1, <3>2
  <2>2. CASE t # s
    <3>1. saver'[t] = saver[t] /\ saver[t].id # row.id
      BY <1>1, <1>3, <1>5, <1>7, <2>2
    <3> QED
      BY <1>1, <3>1 DEF TableInv, DeletesFit
  <2> QED
    BY <2>1, <2>2
<1>11. OldRowsGo'
  <2> SUFFICES ASSUME ~missed, NEW r \in rows', NEW q \in rows', r.kind = q.kind, r.id < q.id
               PROVE  \E t \in Pool!Savers : saver'[t].id = q.id
    BY <1>1 DEF OldRowsGo
  <2>1. CASE q = row
    BY <1>1, <1>2, <1>4, <1>5, <2>1
  <2>2. CASE q # row
    <3>1. q \in rows /\ r \in rows
      BY <1>1, <1>3, <1>5, <1>6, <2>2
    <3>2. PICK t \in Pool!Savers : saver[t].id = q.id
      BY <3>1 DEF TableInv, OldRowsGo
    <3>3. t # s
      BY <1>1, <1>6, <3>1, <3>2 DEF v
    <3> QED
      BY <1>1, <3>2, <3>3
  <2> QED
    BY <2>1, <2>2
<1>12. CountsFit'
  BY <1>1, <1>3 DEF TableInv, CountsFit
<1> QED
  BY <1>8, <1>9, <1>10, <1>11, <1>12 DEF TableInv

\* What is left of a saver's work: what it saves next, and what after that.
LEMMA TodoIs ==
  ASSUME NEW s, NEW todo \in Todos(s)
  PROVE  \/ /\ s = Lane /\ Head(todo) = "world" /\ Stage(todo) = 0
            /\ Tail(todo) \in Todos(s) /\ Stage(Tail(todo)) = 2 /\ Head(Tail(todo)) = "ui"
         \/ /\ s = Lane /\ Head(todo) = "ui" /\ Stage(todo) = 2
            /\ Tail(todo) \in Todos(s) /\ Stage(Tail(todo)) = 4 /\ Head(Tail(todo)) = "memory"
         \/ s = Lane /\ Head(todo) = "memory" /\ Stage(todo) = 4 /\ Tail(todo) = <<>>
         \/ /\ s # Lane /\ Head(todo) = "memory" /\ Stage(todo) = 0
            /\ Tail(todo) \in Todos(s) /\ Stage(Tail(todo)) = 2 /\ Head(Tail(todo)) = "ui"
         \/ s # Lane /\ Head(todo) = "ui" /\ Stage(todo) = 2 /\ Tail(todo) = <<>>
<1>1. CASE todo = <<"world", "ui", "memory">>
  <2>1. Head(todo) = "world" /\ Tail(todo) = <<"ui", "memory">> /\ Head(<<"ui", "memory">>) = "ui"
    BY <1>1
  <2>2. s = Lane
    BY <1>1 DEF Todos
  <2> QED
    BY <1>1, <2>1, <2>2 DEF Stage, Todos
<1>2. CASE todo = <<"ui", "memory">>
  <2>1. Head(todo) = "ui" /\ Tail(todo) = <<"memory">> /\ Head(<<"memory">>) = "memory"
    BY <1>2
  <2>2. s = Lane
    BY <1>2 DEF Todos
  <2>3. Stage(<<"memory">>) = 4 /\ Stage(<<"ui", "memory">>) = 2
    BY DEF Stage
  <2> QED
    BY <1>2, <2>1, <2>2, <2>3 DEF Todos
<1>3. CASE todo = <<"memory">>
  <2>1. Head(todo) = "memory" /\ Tail(todo) = <<>>
    BY <1>3
  <2>2. s = Lane
    BY <1>3 DEF Todos
  <2>3. Stage(<<"memory">>) = 4
    BY DEF Stage
  <2> QED
    BY <1>3, <2>1, <2>2, <2>3
<1>4. CASE todo = <<"memory", "ui">>
  <2>1. Head(todo) = "memory" /\ Tail(todo) = <<"ui">> /\ Head(<<"ui">>) = "ui"
    BY <1>4
  <2>2. s # Lane
    BY <1>4 DEF Todos
  <2>3. Stage(<<"memory", "ui">>) = 0 /\ Stage(<<"ui">>) = 2
    BY DEF Stage
  <2> QED
    BY <1>4, <2>1, <2>2, <2>3 DEF Todos
<1>5. CASE todo = <<"ui">>
  <2>1. Head(todo) = "ui" /\ Tail(todo) = <<>>
    BY <1>5
  <2>2. s # Lane
    BY <1>5 DEF Todos
  <2>3. Stage(<<"ui">>) = 2
    BY DEF Stage
  <2> QED
    BY <1>5, <2>1, <2>2, <2>3
<1> QED
  BY <1>1, <1>2, <1>3, <1>4, <1>5 DEF Todos

\* The saver after its delete: at rest, or with its next insert.
NextJob(v) == [todo |-> Tail(v.todo), of |-> v.of, lessons |-> lessons, life |-> poolLife, id |-> 0]
Left(v) == {r \in rows : ~(r.kind = Head(v.todo) /\ r.id < v.id)}

LEMMA DeleteIs ==
  ASSUME TableInv, NEW i, Pool!Delete(i)
  PROVE  LET s == issued[i]
             v == saver[s]
         IN  /\ v.id > 0 /\ rows' = Left(v)
             /\ \/ /\ Tail(v.todo) = <<>> /\ saver' = [saver EXCEPT ![s] = Pool!Idle]
                   /\ issued' = Pool!RemoveAt(issued, i)
                \/ /\ Tail(v.todo) # <<>> /\ saver' = [saver EXCEPT ![s] = NextJob(v)]
                   /\ issued' = Append(Pool!RemoveAt(issued, i), s)
             /\ UNCHANGED <<poolLife, step, reversals, taught, body, lessons, reversible, lastId, failures, missed, found>>
<1> DEFINE s == issued[i]
           v == saver[s]
<1>1. v.id > 0
  BY DEF Pool!Delete
<1>2. rows' = Left(v)
  <2>1. rows' = rows \ Pool!Replaced(Head(v.todo), v.id)
    BY DEF Pool!Delete
  <2> QED
    BY <2>1 DEF Left, Pool!Replaced, Pool!OfKind
<1>3. UNCHANGED <<poolLife, step, reversals, taught, body, lessons, reversible, lastId, failures, missed, found>>
  BY DEF Pool!Delete, Pool!liveVars
<1>4. Pool!Inserting(Tail(v.todo), v.of) = NextJob(v)
  BY <1>3 DEF Pool!Inserting, NextJob
<1>5. s \in Pool!Savers /\ saver \in [Pool!Savers -> Jobs]
  BY InHandIs DEF Pool!Delete, TableInv, SaversFit
<1>6. CASE Tail(v.todo) = <<>>
  BY <1>1, <1>2, <1>3, <1>6 DEF Pool!Delete, Pool!Taken
<1>7. CASE Tail(v.todo) # <<>>
  <2>1. saver' = [saver EXCEPT ![s] = Pool!Inserting(Tail(v.todo), v.of)] /\ issued' = Append(Pool!RemoveAt(issued, i), s)
    BY <1>7 DEF Pool!Delete
  <2> QED
    BY <1>1, <1>2, <1>3, <1>4, <1>7, <2>1
<1> QED
  BY <1>6, <1>7

\* A delete takes the newest row of no kind.
LEMMA NewestIsLeft ==
  ASSUME TableInv, NEW i, Pool!Delete(i), NEW k \in Pool!Kinds, OfRows(rows, k) # {}
  PROVE  /\ OfRows(rows', k) # {} /\ LastOf(OfRows(rows', k)) = LastOf(OfRows(rows, k))
         /\ HasLast(OfRows(rows', k)) /\ LastOf(OfRows(rows, k)) \in rows'
         /\ LastOf(OfRows(rows, k)) \in OfRows(rows, k)
         /\ \A q \in OfRows(rows, k) : q.id <= LastOf(OfRows(rows, k)).id
<1> DEFINE s == issued[i]
           v == saver[s]
           R == OfRows(rows, k)
           T == OfRows(rows', k)
           m == LastOf(R)
<1>1. v.id > 0 /\ rows' = Left(v) /\ s \in Pool!Savers /\ v \in Jobs
  BY DeleteIs, InHandIs DEF Pool!Delete
<1>2. m \in R /\ \A q \in R : q.id <= m.id
  BY LastIsIn DEF TableInv, RowsFit
<1>3. R \subseteq Rows /\ OneIdEach(R) /\ m \in rows /\ m.kind = k
  BY <1>2 DEF TableInv, RowsFit, OfRows, OneIdEach
<1>4. T \subseteq R
  BY <1>1 DEF OfRows, Left
<1>5. m \in T
  <2>1. CASE k # Head(v.todo)
    BY <1>1, <1>3, <2>1 DEF OfRows, Left
  <2>2. CASE k = Head(v.todo)
    <3>1. PICK r \in rows : r.kind = Head(v.todo) /\ r.id >= v.id
      BY <1>1 DEF TableInv, DeletesFit
    <3>2. r \in R /\ r.id <= m.id
      BY <1>2, <2>2, <3>1 DEF OfRows
    <3>3. m.id \in Nat /\ r.id \in Nat /\ v.id \in Nat
      BY <1>1, <1>2, <1>3, <3>2 DEF Rows, Jobs
    <3>4. ~(m.id < v.id)
      BY <3>1, <3>2, <3>3
    <3> QED
      BY <1>1, <1>3, <3>4 DEF OfRows, Left
  <2> QED
    BY <2>1, <2>2
<1> HIDE DEF R, T
<1>6. LastOf(T) = m /\ HasLast(T)
  <2> HIDE DEF m
  <2> QED
    BY <1>2, <1>3, <1>4, <1>5, LastStays
<1>7. m \in rows'
  BY <1>5 DEF T, OfRows
<1> QED
  BY <1>2, <1>5, <1>6, <1>7 DEF R, T

LEMMA TableLoses ==
  ASSUME TableInv, NEW i, Pool!Delete(i)
  PROVE  TableInv'
<1> DEFINE s == issued[i]
           v == saver[s]
           k == Head(v.todo)
<1>1. /\ v.id > 0 /\ rows' = Left(v)
      /\ \/ /\ Tail(v.todo) = <<>> /\ saver' = [saver EXCEPT ![s] = Pool!Idle]
            /\ issued' = Pool!RemoveAt(issued, i)
         \/ /\ Tail(v.todo) # <<>> /\ saver' = [saver EXCEPT ![s] = NextJob(v)]
            /\ issued' = Append(Pool!RemoveAt(issued, i), s)
      /\ UNCHANGED <<poolLife, step, reversals, taught, lessons, lastId, missed, found>>
  BY DeleteIs
<1>2. /\ i \in 1..Len(issued) /\ s \in Pool!Savers
      /\ v \in Jobs /\ v.todo \in Todos(s) /\ v.of \in 1..step /\ v.life = poolLife
      /\ k \in Pool!Kinds
  BY InHandIs DEF Pool!Delete
<1>3. CountsFit /\ SaversFit /\ lastId \in Nat
  BY DEF TableInv, CountsFit
<1>4. CountsFit'
  BY <1>1, <1>3 DEF CountsFit
<1>5. SaversFit'
  <2>1. CASE Tail(v.todo) = <<>>
    BY <1>1, <1>2, <1>3, <2>1, SaverIsDone
  <2>2. CASE Tail(v.todo) # <<>>
    <3>1. Tail(v.todo) \in Todos(s)
      BY <1>2, <2>2, TodoIs
    <3>2. /\ NextJob(v).todo \in Todos(s) /\ NextJob(v).of = v.of /\ NextJob(v).life = poolLife /\ NextJob(v).id = 0
      BY <3>1 DEF NextJob
    <3>3. NextJob(v) \in Jobs
      <4>1. Tail(v.todo) \in Seq(Pool!Kinds)
        BY <3>1, TodosAreKinds
      <4>2. v.of \in Nat /\ lessons \in SUBSET Nat /\ poolLife \in Nat
        BY <1>2, <1>3 DEF Jobs, CountsFit
      <4> QED
        BY <4>1, <4>2 DEF NextJob, Jobs
    <3>4. NextJob(v).id <= lastId' /\ lastId <= lastId' /\ lastId' \in Nat
      BY <1>1, <1>3, <3>2
    <3> HIDE DEF v
    <3> QED
      BY <1>1, <1>2, <1>3, <2>2, <3>2, <3>3, <3>4, SaverGoesOn DEF v
  <2> QED
    BY <2>1, <2>2
<1>6. RowsFit'
  <2>1. rows' \subseteq rows
    BY <1>1 DEF Left
  <2>2. rows' \subseteq Rows /\ OneIdEach(rows') /\ \A r \in rows' : r.id <= lastId' /\ r.of <= step' /\ r.life <= poolLife'
    BY <1>1, <2>1 DEF TableInv, RowsFit, OneIdEach
  <2>3. ASSUME NEW j \in Pool!Kinds PROVE HasLast(OfRows(rows', j))
    <3>1. CASE OfRows(rows, j) = {}
      <4>1. OfRows(rows', j) = {}
        BY <2>1, <3>1 DEF OfRows
      <4> QED
        BY <4>1 DEF HasLast
    <3>2. CASE OfRows(rows, j) # {}
      BY <3>2, NewestIsLeft
    <3> QED
      BY <3>1, <3>2
  <2> QED
    BY <2>2, <2>3 DEF RowsFit
<1>7. \A t \in Pool!Savers : t # s => saver'[t] = saver[t]
  BY <1>1, <1>3 DEF SaversFit
<1>8. saver'[s].id = 0
  <2>1. CASE saver' = [saver EXCEPT ![s] = Pool!Idle]
    <3>1. saver'[s] = Pool!Idle
      BY <1>2, <1>3, <2>1 DEF SaversFit
    <3> QED
      BY <3>1, IdleIsAJob
  <2>2. CASE saver' = [saver EXCEPT ![s] = NextJob(v)]
    <3>1. saver'[s] = NextJob(v)
      BY <1>2, <1>3, <2>2 DEF SaversFit
    <3> QED
      BY <3>1 DEF NextJob
  <2> QED
    BY <1>1, <2>1, <2>2
<1>9. DeletesFit'
  <2> SUFFICES ASSUME NEW t \in Pool!Savers, saver'[t].id > 0
               PROVE  /\ \A r \in rows' : r.id = saver'[t].id => r.kind = Head(saver'[t].todo)
                      /\ \E r \in rows' : r.kind = Head(saver'[t].todo) /\ r.id >= saver'[t].id
    BY DEF DeletesFit
  <2>1. t # s /\ saver'[t] = saver[t]
    BY <1>7, <1>8
  <2>2. rows' \subseteq rows
    BY <1>1 DEF Left
  <2>3. \A r \in rows' : r.id = saver'[t].id => r.kind = Head(saver'[t].todo)
    BY <2>1, <2>2 DEF TableInv, DeletesFit
  <2>4. PICK r \in rows : r.kind = Head(saver[t].todo) /\ r.id >= saver[t].id
    BY <2>1 DEF TableInv, DeletesFit
  <2>5. r.kind \in Pool!Kinds /\ r \in OfRows(rows, r.kind) /\ r.id \in Nat /\ saver[t].id \in Nat
    BY <2>4 DEF TableInv, RowsFit, Rows, OfRows, SaversFit, Jobs
  <2> DEFINE m == LastOf(OfRows(rows, r.kind))
  <2>6. m \in rows' /\ m \in OfRows(rows, r.kind) /\ r.id <= m.id
    BY <2>5, NewestIsLeft
  <2>7. m.kind = r.kind /\ m.id \in Nat
    BY <2>6 DEF OfRows, TableInv, RowsFit, Rows
  <2> HIDE DEF m
  <2>8. m.id >= saver[t].id
    BY <2>4, <2>5, <2>6, <2>7
  <2> QED
    BY <2>1, <2>3, <2>4, <2>6, <2>7, <2>8
<1>10. OldRowsGo'
  <2> SUFFICES ASSUME ~missed, NEW r \in rows', NEW q \in rows', r.kind = q.kind, r.id < q.id
               PROVE  \E t \in Pool!Savers : saver'[t].id = q.id
    BY <1>1 DEF OldRowsGo
  <2>1. r \in rows /\ q \in rows
    BY <1>1 DEF Left
  <2>2. PICK t \in Pool!Savers : saver[t].id = q.id
    BY <2>1 DEF TableInv, OldRowsGo
  <2>3. t # s
    <3>1. SUFFICES ASSUME t = s PROVE FALSE
      OBVIOUS
    <3>2. q.kind = k
      BY <1>1, <2>1, <2>2, <3>1 DEF TableInv, DeletesFit
    <3>3. r.kind = k /\ r.id < v.id
      BY <2>2, <3>1, <3>2
    <3> QED
      BY <1>1, <3>3 DEF Left
  <2> QED
    BY <1>7, <2>2, <2>3
<1> QED
  BY <1>4, <1>5, <1>6, <1>9, <1>10 DEF TableInv

LEMMA FailIs ==
  ASSUME TableInv, NEW i, Pool!Fail(i)
  PROVE  /\ missed' = TRUE /\ saver' = [saver EXCEPT ![issued[i]] = Pool!Idle]
         /\ issued' = Pool!RemoveAt(issued, i) /\ saver'[issued[i]] = Pool!Idle
         /\ \A t \in Pool!Savers : t # issued[i] => saver'[t] = saver[t]
         /\ UNCHANGED <<poolLife, step, reversals, taught, body, lessons, reversible, rows, lastId, found>>
<1>1. /\ missed' = TRUE /\ saver' = [saver EXCEPT ![issued[i]] = Pool!Idle]
      /\ issued' = Pool!RemoveAt(issued, i)
      /\ UNCHANGED <<poolLife, step, reversals, taught, body, lessons, reversible, rows, lastId, found>>
  BY DEF Pool!Fail, Pool!Taken, Pool!liveVars
<1>2. issued[i] \in Pool!Savers /\ saver \in [Pool!Savers -> Jobs]
  BY InHandIs DEF Pool!Fail, TableInv, SaversFit
<1> QED
  BY <1>1, <1>2

LEMMA TableFails ==
  ASSUME TableInv, NEW i, Pool!Fail(i)
  PROVE  TableInv'
<1>1. /\ missed' = TRUE /\ saver' = [saver EXCEPT ![issued[i]] = Pool!Idle]
      /\ issued' = Pool!RemoveAt(issued, i) /\ saver'[issued[i]] = Pool!Idle
      /\ \A t \in Pool!Savers : t # issued[i] => saver'[t] = saver[t]
      /\ UNCHANGED <<poolLife, step, reversals, taught, lessons, rows, lastId, found>>
  BY FailIs
<1>2. i \in 1..Len(issued)
  BY InHandIs DEF Pool!Fail
<1>3. SaversFit'
  BY <1>1, <1>2, SaverIsDone DEF TableInv
<1>4. DeletesFit'
  BY <1>1, IdleIsAJob DEF TableInv, DeletesFit
<1>5. RowsFit' /\ OldRowsGo' /\ CountsFit'
  BY <1>1 DEF TableInv, RowsFit, OldRowsGo, CountsFit
<1> QED
  BY <1>3, <1>4, <1>5 DEF TableInv

\* With no saver at work nothing is left to delete.
LEMMA NothingToDelete ==
  ASSUME TableInv, ~missed, \A s \in Pool!Savers : saver[s] = Pool!Idle,
         NEW r \in rows, NEW q \in rows, r.kind = q.kind
  PROVE  r = q
<1>1. r.id \in Nat \ {0} /\ q.id \in Nat \ {0}
  BY DEF TableInv, RowsFit, Rows
<1>2. ~(r.id < q.id) /\ ~(q.id < r.id)
  BY <1>1, IdleIsAJob DEF TableInv, OldRowsGo
<1>3. r.id = q.id
  BY <1>1, <1>2
<1> QED
  BY <1>3 DEF TableInv, RowsFit, OneIdEach

LEMMA TableCrashes == ASSUME TableInv, Pool!Crash PROVE TableInv'
<1>1. /\ poolLife' = poolLife + 1 /\ lessons' = {} /\ missed' = (missed \/ issued # <<>>)
      /\ saver' = [s \in Pool!Savers |-> Pool!Idle] /\ issued' = <<>> /\ found' = {}
      /\ UNCHANGED <<step, reversals, taught, rows, lastId>>
  BY DEF Pool!Crash
<1>2. \A s \in Pool!Savers : saver'[s] = Pool!Idle
  BY <1>1
<1>3. issued' \in Seq(Pool!Savers) /\ OncePerSaver(issued') /\ \A s : ~InLine(issued', s)
  <2>1. issued' \in Seq(Pool!Savers) /\ Len(issued') = 0
    BY <1>1
  <2> QED
    BY <2>1 DEF OncePerSaver, InLine
<1>4. CountsFit'
  <2>1. missed' \in BOOLEAN
    BY <1>1 DEF TableInv, CountsFit
  <2>2. poolLife' \in Nat
    BY <1>1 DEF TableInv, CountsFit
  <2> QED
    BY <1>1, <2>1, <2>2 DEF TableInv, CountsFit
<1>5. SaversFit'
  <2>1. saver' \in [Pool!Savers -> Jobs]
    BY <1>1, IdleIsAJob
  <2>2. 0 <= lastId'
    BY <1>1 DEF TableInv, CountsFit
  <2> QED
    BY <1>2, <1>3, <2>1, <2>2, IdleIsAJob DEF SaversFit
<1>6. RowsFit'
  <2>1. \A r \in rows : r.life <= poolLife'
    <3>1. \A r \in rows : r.life \in Nat /\ r.life <= poolLife
      BY DEF TableInv, RowsFit, Rows
    <3> QED
      BY <1>1, <3>1 DEF TableInv, CountsFit
  <2> QED
    BY <1>1, <2>1 DEF TableInv, RowsFit
<1>7. DeletesFit'
  BY <1>2, IdleIsAJob DEF DeletesFit
<1>8. OldRowsGo'
  <2> SUFFICES ASSUME ~missed', NEW r \in rows, NEW q \in rows, r.kind = q.kind, r.id < q.id
               PROVE  FALSE
    BY <1>1 DEF OldRowsGo
  <2>1. ~missed /\ issued = <<>>
    BY <1>1
  <2>2. \A s : ~InLine(issued, s)
    BY <2>1 DEF InLine
  <2>3. \A s \in Pool!Savers : saver[s] = Pool!Idle
    BY <2>2 DEF TableInv, SaversFit
  <2>4. r = q
    BY <2>1, <2>3, NothingToDelete
  <2>5. r.id \in Nat
    BY DEF TableInv, RowsFit, Rows
  <2> QED
    BY <2>4, <2>5
<1> QED
  BY <1>4, <1>5, <1>6, <1>7, <1>8 DEF TableInv

\* A resume brings lessons that were stored.
LEMMA ResumeIs ==
  ASSUME TableInv, Pool!ResumeList \/ Pool!ResumeHydrate \/ UNCHANGED Pool!vars
  PROVE  /\ UNCHANGED <<poolLife, step, reversals, taught, rows, lastId, failures, missed, saver, issued>>
         /\ lessons \subseteq lessons'
<1>1. CASE Pool!ResumeList
  BY <1>1 DEF Pool!ResumeList, Pool!liveVars, Pool!tableVars
<1>2. CASE Pool!ResumeHydrate
  BY <1>2 DEF Pool!ResumeHydrate, Pool!tableVars
<1>3. CASE UNCHANGED Pool!vars
  BY <1>3 DEF Pool!vars, Pool!liveVars, Pool!tableVars
<1> QED
  BY <1>1, <1>2, <1>3

LEMMA TableResumes ==
  ASSUME TableInv, Pool!ResumeList \/ Pool!ResumeHydrate \/ UNCHANGED Pool!vars
  PROVE  TableInv'
<1>1. UNCHANGED <<poolLife, step, reversals, taught, rows, lastId, failures, missed, saver, issued>>
  BY ResumeIs
<1>2. lessons' \subseteq Nat /\ found' \subseteq Rows
  <2>1. CASE Pool!ResumeList
    <3>1. lessons' = lessons
      BY <2>1 DEF Pool!ResumeList, Pool!liveVars
    <3>2. ASSUME NEW k \in Pool!Kinds, Pool!OfKind(k) # {} PROVE Pool!Newest(k) \in Rows
      <4>1. LastOf(OfRows(rows, k)) \in OfRows(rows, k)
        BY <3>2, NewestIsLast, LastIsIn DEF TableInv, RowsFit
      <4> QED
        BY <4>1, NewestIsLast DEF OfRows, TableInv, RowsFit
    <3>3. found' = {Pool!Newest(k) : k \in {j \in Pool!Kinds : Pool!OfKind(j) # {}}}
      BY <2>1 DEF Pool!ResumeList
    <3> QED
      BY <3>1, <3>2, <3>3 DEF TableInv, CountsFit
  <2>2. CASE Pool!ResumeHydrate
    <3>1. PICK memories \in SUBSET found : lessons' = lessons \cup UNION {r.lessons : r \in memories}
      BY <2>2 DEF Pool!ResumeHydrate
    <3>2. \A r \in memories : r.lessons \subseteq Nat
      BY DEF TableInv, CountsFit, Rows
    <3> QED
      BY <2>2, <3>1, <3>2 DEF TableInv, CountsFit, Pool!ResumeHydrate
  <2>3. CASE UNCHANGED Pool!vars
    BY <2>3 DEF Pool!vars, Pool!liveVars, TableInv, CountsFit
  <2> QED
    BY <2>1, <2>2, <2>3
<1> QED
  BY <1>1, <1>2 DEF TableInv, CountsFit, SaversFit, RowsFit, DeletesFit, OldRowsGo

LEMMA TableKept == ASSUME Pool!SnapshotsAssumption, TableInv, [Pool!Next]_(Pool!vars) PROVE TableInv'
<1>1. CASE Pool!Ingest
  BY <1>1, MorphBegins, TableBegins
<1>2. ASSUME NEW r \in Reversers, NEW teaches \in BOOLEAN, Pool!TakeBack(r, teaches) PROVE TableInv'
  BY <1>2, ReversalBegins, TableBegins
<1>3. ASSUME NEW i \in 1..Connections, Pool!Insert(i) \/ Pool!Delete(i) \/ Pool!Fail(i) PROVE TableInv'
  BY <1>3, TableStores, TableLoses, TableFails
<1> QED
  BY <1>1, <1>2, <1>3, TableCrashes, TableResumes DEF Pool!Next

LEMMA OneRowEach == TableInv => Pool!OneRowPerKind
  BY NothingToDelete DEF Pool!OneRowPerKind, Pool!Quiet

\* Two rows of the table at most are compared: the newest before a step, and the newest after it.
LEMMA NewestOnlyGrows ==
  ASSUME Pool!SnapshotsAssumption, TableInv, [Pool!Next]_(Pool!vars), rows # rows', NEW k \in Pool!Kinds, Pool!OfKind(k) # {}
  PROVE  Pool!OfKind(k)' # {} /\ Pool!Newest(k)'.id >= Pool!Newest(k).id
<1> DEFINE R == OfRows(rows, k)
           T == OfRows(rows', k)
<1>1. /\ Pool!OfKind(k) = R /\ Pool!Newest(k) = LastOf(R)
      /\ Pool!OfKind(k)' = T /\ Pool!Newest(k)' = LastOf(T)
  BY DEF Pool!Newest, LastOf, Pool!OfKind, OfRows
<1>2. LastOf(R) \in R /\ LastOf(R) \in Rows
  BY <1>1, LastIsIn DEF TableInv, RowsFit, OfRows
<1>3. \E i \in 1..Connections : Pool!Insert(i) \/ Pool!Delete(i)
  <2>1. Pool!Ingest => rows' = rows
    BY DEF Pool!Ingest, Pool!tableVars
  <2>2. \A r \in Reversers, teaches \in BOOLEAN : Pool!TakeBack(r, teaches) => rows' = rows
    BY DEF Pool!TakeBack, Pool!tableVars
  <2>3. \A i \in 1..Connections : Pool!Fail(i) => rows' = rows
    BY DEF Pool!Fail
  <2>4. Pool!Crash => rows' = rows
    BY DEF Pool!Crash
  <2> QED
    BY <2>1, <2>2, <2>3, <2>4, ResumeIs DEF Pool!Next
<1>4. PICK i \in 1..Connections : Pool!Insert(i) \/ Pool!Delete(i)
  BY <1>3
<1>5. CASE Pool!Delete(i)
  <2>1. T # {} /\ LastOf(T) = LastOf(R)
    BY <1>1, <1>5, NewestIsLeft
  <2>2. LastOf(R).id \in Nat
    BY <1>2 DEF Rows
  <2> QED
    BY <1>1, <2>1, <2>2
<1>6. CASE Pool!Insert(i)
  <2>1. R \subseteq T
    BY <1>6, InsertIs DEF OfRows
  <2>2. T # {} /\ LastOf(R) \in T
    BY <1>2, <2>1
  <2>3. TableInv'
    BY <1>6, TableStores
  <2>4. LastOf(T) \in T /\ \A q \in T : q.id <= LastOf(T).id
    BY <2>2, <2>3, LastIsIn DEF TableInv, RowsFit
  <2>5. LastOf(T).id \in Nat /\ LastOf(R).id \in Nat
    BY <1>2, <2>3, <2>4 DEF TableInv, RowsFit, Rows, OfRows
  <2> QED
    BY <1>1, <2>2, <2>4, <2>5
<1> QED
  BY <1>4, <1>5, <1>6

\* pg.ts over any pool, with savers that fail and processes that die: when every save was let
\* finish a kind has one row at most, and the row a resume would read goes only for a newer one.
THEOREM TheNewestRowsAreKept ==
  ASSUME Pool!SnapshotsAssumption
  PROVE  Pool!Spec => []Pool!OneRowPerKind /\ Pool!NewestIsKept
<1>1. Pool!Init => TableInv
  BY TableInit
<1>2. TableInv /\ [Pool!Next]_(Pool!vars) => TableInv'
  BY TableKept
<1>3. TableInv => Pool!OneRowPerKind
  BY OneRowEach
<1>4. TableInv /\ [Pool!Next]_(Pool!vars) =>
        [rows # rows' => \A k \in Pool!Kinds : Pool!OfKind(k) # {} =>
           Pool!OfKind(k)' # {} /\ Pool!Newest(k)'.id >= Pool!Newest(k).id]_(Pool!vars)
  BY NewestOnlyGrows
<1> QED
  BY <1>1, <1>2, <1>3, <1>4, PTL DEF Pool!Spec, Pool!NewestIsKept

-----------------------------------------------------------------------------
\* Who is first in line moves to its end, ...
LEMMA FirstMovesLast ==
  ASSUME NEW S, NEW q \in Seq(S), 1 \in 1..Len(q)
  PROVE  LET r == Append(Pool!RemoveAt(q, 1), q[1])
         IN  /\ Len(r) = Len(q)
             /\ \A j \in 1..Len(q) : r[j] = IF j < Len(q) THEN q[j + 1] ELSE q[1]
<1> DEFINE a == Pool!RemoveAt(q, 1)
<1>1. a \in Seq(S) /\ Len(a) = Len(q) - 1 /\ Len(q) \in Nat /\ q[1] \in S
      /\ \A j \in 1..(Len(q) - 1) : a[j] = IF j < 1 THEN q[j] ELSE q[j + 1]
  <2>1. Len(q) \in Nat /\ q[1] \in S
    OBVIOUS
  <2> QED
    BY <2>1, OneIsThrough
<1> HIDE DEF a
<1>2. Len(Append(a, q[1])) = Len(q) /\ \A j \in 1..(Len(q) - 1) : Append(a, q[1])[j] = a[j]
  BY <1>1
<1>3. Append(a, q[1])[Len(q)] = q[1]
  BY <1>1
<1>4. ASSUME NEW j \in 1..Len(q) PROVE Append(a, q[1])[j] = IF j < Len(q) THEN q[j + 1] ELSE q[1]
  <2>1. CASE j < Len(q)
    <3>1. j \in 1..(Len(q) - 1) /\ ~(j < 1)
      BY <1>1, <2>1
    <3> QED
      BY <1>1, <1>2, <2>1, <3>1
  <2>2. CASE ~(j < Len(q))
    <3>1. j = Len(q)
      BY <1>1, <2>2
    <3> QED
      BY <1>3, <2>2, <3>1
  <2> QED
    BY <2>1, <2>2
<1> QED
  BY <1>2, <1>4 DEF a

\* ... or leaves.
LEMMA FirstLeaves ==
  ASSUME NEW S, NEW q \in Seq(S), 1 \in 1..Len(q)
  PROVE  /\ Len(Pool!RemoveAt(q, 1)) = Len(q) - 1
         /\ \A j \in 1..(Len(q) - 1) : Pool!RemoveAt(q, 1)[j] = q[j + 1]
<1>1. Len(q) \in Nat
  OBVIOUS
<1>2. \A j \in 1..(Len(q) - 1) : ~(j < 1)
  BY <1>1
<1> QED
  BY <1>1, <1>2, OneIsThrough

\* How far a saver at work has come.
LEMMA DoneIs ==
  ASSUME NEW s, NEW v \in Jobs, v.todo \in Todos(s)
  PROVE  /\ Stage(v.todo) \in {0, 2, 4} /\ Done(v) \in Nat
         /\ v.id = 0 => Done(v) = Stage(v.todo)
         /\ v.id # 0 => Done(v) = Stage(v.todo) + 1
         /\ InsertsMemory(v) <=> Head(v.todo) = "memory" /\ v.id = 0
         /\ Stage(v.todo) = 2 <=> Head(v.todo) = "ui"
         /\ s # Lane /\ Stage(v.todo) = 0 => Head(v.todo) = "memory"
         /\ s # Lane => Stage(v.todo) # 4
<1>1. Stage(v.todo) \in {0, 2, 4}
  BY DEF Stage
<1>2. Done(v) = Stage(v.todo) + (IF v.id = 0 THEN 0 ELSE 1)
  BY DEF Done
<1>3. /\ Stage(v.todo) = 2 <=> Head(v.todo) = "ui"
      /\ s # Lane /\ Stage(v.todo) = 0 => Head(v.todo) = "memory"
      /\ s # Lane => Stage(v.todo) # 4
  <2> DEFINE todo == v.todo
             g == Stage(todo)
             h == Head(todo)
  <2>1. \/ s = Lane /\ h = "world" /\ g = 0
        \/ s = Lane /\ h = "ui" /\ g = 2
        \/ s = Lane /\ h = "memory" /\ g = 4
        \/ s # Lane /\ h = "memory" /\ g = 0
        \/ s # Lane /\ h = "ui" /\ g = 2
    <3> HIDE DEF todo
    <3>1. todo \in Todos(s)
      BY DEF todo
    <3> QED
      BY <3>1, TodoIs
  <2> HIDE DEF g, h, todo
  <2>2. /\ g = 2 <=> h = "ui"
        /\ s # Lane /\ g = 0 => h = "memory"
        /\ s # Lane => g # 4
    BY <2>1
  <2> QED
    BY <2>2 DEF g, h, todo
<1>4. InsertsMemory(v) <=> Head(v.todo) = "memory" /\ v.id = 0
  BY DEF InsertsMemory
<1> QED
  BY <1>1, <1>2, <1>3, <1>4

\* Who is at work, and where in the line.
LEMMA AtWorkIs ==
  ASSUME TableInv, NEW t \in AtWork
  PROVE  /\ t \in Pool!Savers /\ saver[t] \in Jobs /\ saver[t].todo \in Todos(t) /\ saver[t].of \in 1..step
         /\ saver[t].life = poolLife /\ \E j \in 1..Len(issued) : issued[j] = t
  BY DEF AtWork, TableInv, SaversFit, InLine

LEMMA FirstsTurn ==
  ASSUME TableInv, TurnsKept, 1 \in 1..Len(issued), NEW t \in AtWork, t # issued[1]
  PROVE  InTurn(saver[issued[1]], saver[t])
<1>1. PICK j \in 1..Len(issued) : issued[j] = t
  BY AtWorkIs
<1>2. Len(issued) \in Nat
  BY DEF TableInv, SaversFit
<1>3. 1 < j
  BY <1>1, <1>2
<1> QED
  BY <1>1, <1>3 DEF TurnsKept

\* The line stays in turn when the first goes to its end, one statement further, ...
LEMMA TurnsGoOn ==
  ASSUME TableInv, TurnsKept, 1 \in 1..Len(issued),
         issued' = Append(Pool!RemoveAt(issued, 1), issued[1]),
         \A t \in Pool!Savers : t # issued[1] => saver'[t] = saver[t],
         \A t \in AtWork : t # issued[1] => InTurn(saver[t], saver'[issued[1]])
  PROVE  TurnsKept'
<1> DEFINE n == Len(issued)
<1>1. n \in Nat /\ Len(issued') = n /\ \A j \in 1..n : issued'[j] = IF j < n THEN issued[j + 1] ELSE issued[1]
  BY FirstMovesLast DEF TableInv, SaversFit
<1>2. \A j \in 1..n : issued[j] \in Pool!Savers /\ issued[j] \in AtWork
  BY DEF TableInv, SaversFit, AtWork, InLine
<1>3. \A j \in 1..n : j # 1 => issued[j] # issued[1]
  BY DEF TableInv, SaversFit, OncePerSaver
<1> SUFFICES ASSUME NEW i \in 1..n, NEW j \in 1..n, i < j
             PROVE  InTurn(saver'[issued'[i]], saver'[issued'[j]])
  BY <1>1 DEF TurnsKept, InTurn, Done, InsertsMemory
<1>4. i < n /\ i + 1 \in 1..n /\ i + 1 # 1 /\ issued'[i] = issued[i + 1]
  BY <1>1
<1>5. saver'[issued'[i]] = saver[issued[i + 1]]
  BY <1>2, <1>3, <1>4
<1>6. CASE j < n
  <2>1. j + 1 \in 1..n /\ j + 1 # 1 /\ issued'[j] = issued[j + 1] /\ i + 1 < j + 1
    BY <1>1, <1>6
  <2>2. saver'[issued'[j]] = saver[issued[j + 1]]
    BY <1>2, <1>3, <2>1
  <2> QED
    BY <1>4, <1>5, <2>1, <2>2 DEF TurnsKept
<1>7. CASE ~(j < n)
  <2>1. issued'[j] = issued[1]
    BY <1>1, <1>7
  <2>2. issued[i + 1] \in AtWork /\ issued[i + 1] # issued[1]
    BY <1>2, <1>3, <1>4
  <2> QED
    BY <1>5, <2>1, <2>2
<1> QED
  BY <1>6, <1>7

\* ... when it leaves, ...
LEMMA TurnsEnd ==
  ASSUME TableInv, TurnsKept, 1 \in 1..Len(issued),
         issued' = Pool!RemoveAt(issued, 1),
         \A t \in Pool!Savers : t # issued[1] => saver'[t] = saver[t]
  PROVE  TurnsKept'
<1> DEFINE n == Len(issued)
<1>1. n \in Nat /\ Len(issued') = n - 1 /\ \A j \in 1..(n - 1) : issued'[j] = issued[j + 1]
  BY FirstLeaves DEF TableInv, SaversFit
<1>2. \A j \in 1..n : issued[j] \in Pool!Savers
  BY DEF TableInv, SaversFit
<1>3. \A j \in 1..n : j # 1 => issued[j] # issued[1]
  BY DEF TableInv, SaversFit, OncePerSaver
<1>4. \A j \in 1..(n - 1) : j + 1 \in 1..n /\ j + 1 # 1
  BY <1>1
<1>5. \A j \in 1..(n - 1) : saver'[issued'[j]] = saver[issued[j + 1]]
  BY <1>1, <1>2, <1>3, <1>4
<1> SUFFICES ASSUME NEW i \in 1..(n - 1), NEW j \in 1..(n - 1), i < j
             PROVE  InTurn(saver'[issued'[i]], saver'[issued'[j]])
  BY <1>1 DEF TurnsKept, InTurn, Done, InsertsMemory
<1>6. i + 1 < j + 1
  BY <1>1
<1> QED
  BY <1>4, <1>5, <1>6 DEF TurnsKept

\* ... and when one more joins.
LEMMA TurnsBegin ==
  ASSUME TableInv, TurnsKept, NEW s \in Pool!Savers, saver[s] = Pool!Idle,
         issued' = Append(issued, s),
         \A t \in Pool!Savers : t # s => saver'[t] = saver[t],
         \A t \in AtWork : InTurn(saver[t], saver'[s])
  PROVE  TurnsKept'
<1> DEFINE n == Len(issued)
<1>1. n \in Nat /\ Len(issued') = n + 1 /\ issued'[n + 1] = s /\ \A j \in 1..n : issued'[j] = issued[j]
  BY DEF TableInv, SaversFit
<1>2. \A j \in 1..n : issued[j] \in Pool!Savers /\ issued[j] \in AtWork /\ issued[j] # s
  BY DEF TableInv, SaversFit, AtWork, InLine
<1>3. \A j \in 1..n : saver'[issued'[j]] = saver[issued[j]]
  BY <1>1, <1>2
<1>4. \A i, j \in 1..(n + 1) : i < j => i \in 1..n /\ (j \in 1..n \/ j = n + 1)
  BY <1>1
<1> SUFFICES ASSUME NEW i \in 1..(n + 1), NEW j \in 1..(n + 1), i < j
             PROVE  InTurn(saver'[issued'[i]], saver'[issued'[j]])
  BY <1>1 DEF TurnsKept, InTurn, Done, InsertsMemory
<1>5. CASE j \in 1..n
  BY <1>3, <1>4, <1>5 DEF TurnsKept
<1>6. CASE j = n + 1
  BY <1>1, <1>2, <1>3, <1>4, <1>6
<1> QED
  BY <1>4, <1>5, <1>6

\* The row an insert makes is the last of its kind.
LEMMA StoredIsLast ==
  ASSUME TableInv, NEW i, Pool!Insert(i)
  PROVE  LET row == NewRow(saver[issued[i]])
         IN  row \in OfRows(rows', row.kind) /\ LastOf(OfRows(rows', row.kind)) = row
<1> DEFINE row == NewRow(saver[issued[i]])
           T == OfRows(rows', row.kind)
<1>1. rows' = rows \cup {row} /\ lastId \in Nat
  BY InsertIs DEF TableInv, CountsFit
<1>2. row.id = lastId + 1
  BY <1>1, InHandIs, NewRowIs DEF Pool!Insert
<1>3. \A r \in rows : r.id \in Nat /\ r.id <= lastId
  BY DEF TableInv, RowsFit, Rows
<1> HIDE DEF row
<1>4. row \in T /\ \A q \in T : q.id <= row.id
  BY <1>1, <1>2, <1>3 DEF OfRows
<1>5. T \subseteq Rows /\ OneIdEach(T)
  BY TableStores DEF TableInv, RowsFit, OneIdEach, OfRows
<1> QED
  BY <1>4, <1>5, LastIs DEF row

\* A delete's saver is at rest after it, or about to save what it knows.
LEMMA DeleteLeaves ==
  ASSUME TableInv, NEW i, Pool!Delete(i)
  PROVE  LET s == issued[i]
             v == saver[s]
         IN  /\ \A t \in Pool!Savers : t # s => saver'[t] = saver[t]
             /\ Tail(v.todo) = <<>> => saver'[s] = Pool!Idle
             /\ Tail(v.todo) # <<>> => saver'[s] = NextJob(v) /\ saver'[s] # Pool!Idle
             /\ saver'[s] # Pool!Idle => saver'[s] = NextJob(v) /\ saver'[s].lessons = lessons
                                         /\ Tail(v.todo) # <<>>
<1> DEFINE s == issued[i]
           v == saver[s]
<1>1. s \in Pool!Savers /\ saver \in [Pool!Savers -> Jobs] /\ v \in Jobs /\ v.todo \in Todos(s)
  BY InHandIs DEF Pool!Delete, TableInv, SaversFit
<1>2. \A t \in Pool!Savers : t # s => saver'[t] = saver[t]
  BY <1>1, DeleteIs
<1>3. Tail(v.todo) = <<>> => saver'[s] = Pool!Idle
  BY <1>1, DeleteIs
<1>4. Tail(v.todo) # <<>> => saver'[s] = NextJob(v)
  BY <1>1, DeleteIs
<1>5. Tail(v.todo) # <<>> => NextJob(v) # Pool!Idle
  <2> SUFFICES ASSUME Tail(v.todo) # <<>>, NextJob(v) = Pool!Idle PROVE FALSE
    OBVIOUS
  <2>1. NextJob(v).todo = Tail(v.todo) /\ Pool!Idle.todo = <<>>
    BY IdleIsAJob DEF NextJob
  <2> QED
    BY <2>1
<1>6. NextJob(v).lessons = lessons
  BY DEF NextJob
<1> QED
  BY <1>2, <1>3, <1>4, <1>5, <1>6

\* A lesson that is learned stays so when the first in line inserts its row, ...
LEMMA LearnedIsStored ==
  ASSUME TableInv, Pool!Insert(1), NEW x, Learned(x)
  PROVE  Learned(x)'
<1> DEFINE s == issued[1]
           v == saver[s]
           row == NewRow(v)
<1>1. /\ v.id = 0 /\ lastId' = lastId + 1 /\ rows' = rows \cup {row}
      /\ saver'[s] = Stored(v) /\ \A t \in Pool!Savers : t # s => saver'[t] = saver[t]
      /\ lessons' = lessons
  BY InsertIs
<1>2. s \in AtWork /\ s \in Pool!Savers /\ v \in Jobs /\ Head(v.todo) \in Pool!Kinds /\ lastId \in Nat
  BY InHandIs DEF Pool!Insert, AtWork, TableInv, CountsFit
<1>3. /\ row \in Rows /\ row.id = lastId + 1 /\ row.kind = Head(v.todo) /\ row.lessons = v.lessons
  BY <1>2, NewRowIs
<1>4. Stored(v).id = lastId + 1 /\ lastId + 1 # 0
  BY <1>2, StoredIs
<1> HIDE DEF row
<1>5. ASSUME NEW t \in AtWork', InsertsMemory(saver'[t])
      PROVE  x \in saver'[t].lessons
  <2>1. t # s
    BY <1>1, <1>4, <1>5 DEF InsertsMemory
  <2>2. saver'[t] = saver[t] /\ t \in AtWork
    BY <1>1, <2>1 DEF AtWork
  <2> QED
    BY <1>5, <2>2 DEF Learned
<1>6. OfRows(rows', "memory") # {} /\ x \in LastOf(OfRows(rows', "memory")).lessons
  <2>1. CASE Head(v.todo) = "memory"
    <3>1. InsertsMemory(v)
      BY <1>1, <2>1 DEF InsertsMemory
    <3>2. x \in row.lessons
      BY <1>2, <1>3, <3>1 DEF Learned
    <3>3. LastOf(OfRows(rows', "memory")) = row /\ row \in OfRows(rows', "memory")
      BY <1>3, <2>1, StoredIsLast DEF row
    <3> QED
      BY <3>2, <3>3
  <2>2. CASE Head(v.todo) # "memory"
    <3>1. OfRows(rows', "memory") = OfRows(rows, "memory")
      BY <1>1, <1>3, <2>2 DEF OfRows
    <3> QED
      BY <3>1 DEF Learned
  <2> QED
    BY <2>1, <2>2
<1> QED
  BY <1>1, <1>5, <1>6 DEF Learned, InsertsMemory

\* ... or deletes the ones its row replaces, ...
LEMMA LearnedIsLeft ==
  ASSUME TableInv, Pool!Delete(1), NEW x, Learned(x)
  PROVE  Learned(x)'
<1> DEFINE s == issued[1]
<1>1. \A t \in Pool!Savers : t # s => saver'[t] = saver[t]
  BY DeleteLeaves
<1>2. saver'[s] # Pool!Idle => saver'[s].lessons = lessons
  BY DeleteLeaves
<1>3. lessons' = lessons
  BY DeleteIs
<1>4. OfRows(rows', "memory") # {} /\ LastOf(OfRows(rows', "memory")) = LastOf(OfRows(rows, "memory"))
  BY NewestIsLeft DEF Learned, Pool!Kinds
<1>5. ASSUME NEW t \in AtWork', InsertsMemory(saver'[t])
      PROVE  x \in saver'[t].lessons
  <2>1. CASE t = s
    BY <1>2, <2>1 DEF AtWork, Learned
  <2>2. CASE t # s
    <3>1. saver'[t] = saver[t] /\ t \in AtWork
      BY <1>1, <2>2 DEF AtWork
    <3> QED
      BY <1>5, <3>1 DEF Learned
  <2> QED
    BY <2>1, <2>2
<1> QED
  BY <1>3, <1>4, <1>5 DEF Learned, InsertsMemory

\* ... when somebody gives up, ...
LEMMA LearnedIsKept ==
  ASSUME UNCHANGED rows, lessons \subseteq lessons',
         \A t \in AtWork' : saver'[t] = saver[t] /\ t \in AtWork, NEW x, Learned(x)
  PROVE  Learned(x)'
  BY DEF Learned, InsertsMemory

\* ... and when somebody begins.
LEMMA LearnedIsCarriedOn ==
  ASSUME TableInv, NEW s, NEW todo, Beginning(s, todo), NEW x, Learned(x)
  PROVE  Learned(x)'
<1> DEFINE v == [todo |-> todo, of |-> step + 1, lessons |-> lessons', life |-> poolLife, id |-> 0]
<1>1. saver'[s] = v /\ \A t \in Pool!Savers : t # s => saver'[t] = saver[t]
  BY BegunJob DEF TableInv
<1>2. v.lessons = lessons' /\ x \in lessons'
  BY DEF Beginning, Learned
<1> HIDE DEF v
<1>3. ASSUME NEW t \in AtWork', InsertsMemory(saver'[t])
      PROVE  x \in saver'[t].lessons
  <2>1. CASE t = s
    BY <1>1, <1>2, <2>1
  <2>2. CASE t # s
    <3>1. saver'[t] = saver[t] /\ t \in AtWork
      BY <1>1, <2>2 DEF AtWork
    <3> QED
      BY <1>3, <3>1 DEF Learned
  <2> QED
    BY <2>1, <2>2
<1>4. rows' = rows
  BY DEF Beginning
<1> QED
  BY <1>2, <1>3, <1>4 DEF Learned, InsertsMemory

-----------------------------------------------------------------------------
\* A step begins: its saver is last in line, and knows what the live memory does.
LEMMA TurnBegins ==
  ASSUME TableInv, TurnInv, NEW s, NEW todo, Beginning(s, todo),
         Stage(todo) = 0, step' \in taught' => step' \in lessons' /\ s # Lane
  PROVE  TurnInv'
<1> DEFINE v == [todo |-> todo, of |-> step + 1, lessons |-> lessons', life |-> poolLife, id |-> 0]
<1>1. v \in Jobs /\ saver'[s] = v /\ \A t \in Pool!Savers : t # s => saver'[t] = saver[t]
  BY BegunJob DEF TableInv
<1>2. v.todo = todo /\ v.of = step + 1 /\ v.lessons = lessons' /\ v.id = 0
  OBVIOUS
<1> HIDE DEF v
<1>3. /\ s \in Pool!Savers /\ saver[s] = Pool!Idle /\ todo \in Todos(s) /\ step' = step + 1
      /\ issued' = Append(issued, s) /\ rows' = rows /\ poolLife' = poolLife /\ lessons \subseteq lessons'
      /\ taught' \subseteq taught \cup {step'}
  BY DEF Beginning
<1>4. Done(v) = 0 /\ step \in Nat
  BY <1>2, <1>1, <1>3, DoneIs DEF TableInv, CountsFit
<1>5. v # Pool!Idle
  BY <1>1, <1>2, <1>3, WorkIsNotIdle
<1>6. \A t \in AtWork' : t # s => t \in AtWork /\ saver'[t] = saver[t]
  BY <1>1 DEF AtWork
<1>7. TurnsKept'
  <2>1. ASSUME NEW t \in AtWork PROVE InTurn(saver[t], v)
    <3>1. saver[t].of \in 1..step /\ saver[t] \in Jobs /\ saver[t].todo \in Todos(t)
      BY AtWorkIs
    <3>2. saver[t].of < v.of /\ saver[t].of # v.of /\ ~(saver[t].of > v.of)
      BY <1>2, <1>4, <3>1
    <3>3. Done(saver[t]) >= Done(v)
      BY <1>4, <3>1, DoneIs
    <3>4. InsertsMemory(saver[t]) => saver[t].lessons \subseteq v.lessons
      BY <1>2, <1>3 DEF TurnInv, LessonsFit
    <3> QED
      BY <3>2, <3>3, <3>4 DEF InTurn
  <2> QED
    BY <1>1, <1>3, <2>1, TurnsBegin DEF TurnInv
<1>8. LastBodyIsNewest'
  <2>1. s \in AtWork' /\ saver'[s].of = step' /\ Done(saver'[s]) <= 2
    BY <1>1, <1>2, <1>3, <1>4, <1>5 DEF AtWork
  <2> QED
    BY <2>1 DEF LastBodyIsNewest, Done
<1>9. LessonsFit'
  <2>1. \A x \in 1..step : x \in taught' => x \in taught
    BY <1>3, <1>4
  <2>2. \A x : Learned(x) => Learned(x)'
    BY LearnedIsCarriedOn
  <2>3. ASSUME NEW t \in AtWork'
        PROVE  /\ InsertsMemory(saver'[t]) => saver'[t].lessons \subseteq lessons'
               /\ t = Lane => saver'[t].of \notin taught'
               /\ \A x \in taught' : saver'[t].of = x =>
                    IF Done(saver'[t]) = 0 THEN x \in saver'[t].lessons ELSE Learned(x)'
    <3>1. CASE t = s
      <4>1. saver'[t] = v /\ v.of = step'
        BY <1>1, <1>2, <1>3, <3>1
      <4> QED
        BY <1>2, <1>4, <3>1, <4>1
    <3>2. CASE t # s
      <4>1. t \in AtWork /\ saver'[t] = saver[t]
        BY <1>6, <3>2
      <4>2. saver[t].of \in 1..step
        BY <4>1, AtWorkIs
      <4>3. InsertsMemory(saver[t]) => saver[t].lessons \subseteq lessons'
        BY <1>3, <4>1 DEF TurnInv, LessonsFit
      <4>4. t = Lane => saver[t].of \notin taught'
        BY <2>1, <4>1, <4>2 DEF TurnInv, LessonsFit
      <4>5. \A x \in taught' : saver[t].of = x =>
              IF Done(saver[t]) = 0 THEN x \in saver[t].lessons ELSE Learned(x)'
        BY <2>1, <2>2, <4>1, <4>2 DEF TurnInv, LessonsFit
      <4> QED
        BY <4>1, <4>3, <4>4, <4>5
    <3> QED
      BY <3>1, <3>2
  <2>4. ASSUME NEW r \in rows', r.kind = "ui", r.life = poolLife', r.of \in taught'
        PROVE  Learned(r.of)'
    <3>1. r \in rows /\ r.of \in Nat /\ r.of <= step
      BY <1>3 DEF TableInv, RowsFit, Rows
    <3>2. r.of \in taught
      BY <1>3, <1>4, <2>4, <3>1
    <3> QED
      BY <1>3, <2>2, <2>4, <3>1, <3>2 DEF TurnInv, LessonsFit
  <2> QED
    BY <2>3, <2>4 DEF LessonsFit, Learned, InsertsMemory, Done
<1> QED
  BY <1>7, <1>8, <1>9 DEF TurnInv

\* The first in line inserts a row.  Its memory holds what those behind it will save.
LEMMA TurnStores ==
  ASSUME TableInv, TurnInv, Pool!Insert(1)
  PROVE  TurnInv'
<1> DEFINE s == issued[1]
           v == saver[s]
           w == Stored(v)
           row == NewRow(v)
<1>1. /\ v.id = 0 /\ lastId' = lastId + 1 /\ rows' = rows \cup {row}
      /\ saver'[s] = w /\ \A t \in Pool!Savers : t # s => saver'[t] = saver[t]
      /\ issued' = Append(Pool!RemoveAt(issued, 1), s)
      /\ UNCHANGED <<poolLife, step, taught, lessons, missed>>
  BY InsertIs
<1>2. /\ 1 \in 1..Len(issued) /\ s \in Pool!Savers /\ s \in AtWork /\ v \in Jobs /\ v.todo \in Todos(s)
      /\ v.of \in 1..step /\ v.life = poolLife /\ Head(v.todo) \in Pool!Kinds /\ lastId \in Nat
  BY InHandIs DEF Pool!Insert, AtWork, TableInv, CountsFit
<1>3. /\ w \in Jobs /\ w.id = lastId + 1 /\ w.id # 0 /\ w.todo = v.todo /\ w.of = v.of /\ w.lessons = v.lessons
  BY <1>2, StoredIs
<1>4. /\ row \in Rows /\ row.kind = Head(v.todo) /\ row.of = v.of /\ row.lessons = v.lessons
  BY <1>2, NewRowIs
<1>5. /\ Done(v) = Stage(v.todo) /\ Stage(v.todo) \in {0, 2, 4}
      /\ InsertsMemory(v) <=> Head(v.todo) = "memory"
      /\ Stage(v.todo) = 2 <=> Head(v.todo) = "ui"
      /\ s # Lane /\ Stage(v.todo) = 0 => Head(v.todo) = "memory"
  BY <1>1, <1>2, DoneIs
<1>6. Done(w) = Done(v) + 1 /\ ~InsertsMemory(w)
  BY <1>2, <1>3, <1>5, DoneIs
<1>7. w # Pool!Idle
  BY <1>2, <1>3, WorkIsNotIdle
<1>8. s \in AtWork' /\ \A t \in AtWork' : t # s => t \in AtWork /\ saver'[t] = saver[t]
  BY <1>1, <1>2, <1>7 DEF AtWork
<1>9. \A t \in AtWork : t # s => InTurn(v, saver[t])
  BY <1>2, FirstsTurn DEF TurnInv
<1>10. row \in OfRows(rows', row.kind) /\ LastOf(OfRows(rows', row.kind)) = row
  BY StoredIsLast
<1> HIDE DEF row, w, v, s
<1>11. TurnsKept'
  <2>1. ASSUME NEW t \in AtWork, t # s PROVE InTurn(saver[t], w)
    <3>1. saver[t].of \in Nat /\ v.of \in Nat /\ Done(saver[t]) \in Nat /\ Done(v) \in Nat
      <4>1. saver[t].of \in 1..step /\ saver[t] \in Jobs /\ saver[t].todo \in Todos(t)
        BY AtWorkIs
      <4>2. Done(saver[t]) \in Nat /\ Done(v) \in Nat
        BY <1>2, <4>1, DoneIs
      <4> QED
        BY <1>2, <4>1, <4>2
    <3>2. InTurn(v, saver[t])
      BY <1>9, <2>1
    <3>3. saver[t].of # w.of
      BY <1>3, <3>2 DEF InTurn
    <3>4. saver[t].of < w.of => Done(saver[t]) >= Done(w)
      BY <1>3, <1>6, <3>1, <3>2 DEF InTurn
    <3>5. saver[t].of > w.of => Done(saver[t]) < Done(w)
      BY <1>3, <1>6, <3>1, <3>2 DEF InTurn
    <3> QED
      BY <1>6, <3>3, <3>4, <3>5 DEF InTurn
  <2>2. 1 \in 1..Len(issued)
    BY <1>2
  <2> QED
    BY <1>1, <2>1, <2>2, TurnsGoOn DEF TurnInv, s
<1>12. LastBodyIsNewest'
  <2> SUFFICES ASSUME ~missed, step > 0
               PROVE  \/ \E t \in AtWork' : saver'[t].of = step /\ Done(saver'[t]) <= 2
                      \/ /\ OfRows(rows', "ui") # {} /\ LastOf(OfRows(rows', "ui")).of = step
                         /\ \A t \in AtWork' : Done(saver'[t]) >= 3
    BY <1>1 DEF LastBodyIsNewest, Done
  <2>1. CASE \E t \in AtWork : saver[t].of = step /\ Done(saver[t]) <= 2
    <3>1. PICK t \in AtWork : saver[t].of = step /\ Done(saver[t]) <= 2
      BY <2>1
    <3>2. CASE t # s
      <4>1. t \in AtWork' /\ saver'[t] = saver[t]
        BY <1>1, <3>2 DEF AtWork
      <4> QED
        BY <3>1, <4>1
    <3>3. CASE t = s /\ Done(v) = 0
      BY <1>1, <1>3, <1>6, <1>8, <3>1, <3>3 DEF v
    <3>4. CASE t = s /\ Done(v) = 2
      <4>1. row.kind = "ui" /\ row.of = step
        BY <1>4, <1>5, <3>1, <3>4 DEF v
      <4>2. Done(saver'[s]) >= 3
        BY <1>1, <1>6, <3>4
      <4>3. ASSUME NEW u \in AtWork', u # s PROVE Done(saver'[u]) >= 3
        <5>1. u \in AtWork /\ saver'[u] = saver[u] /\ InTurn(v, saver[u])
          BY <1>8, <1>9, <4>3
        <5>2. saver[u].of \in 1..step /\ Done(saver[u]) \in Nat /\ v.of = step /\ step \in Nat
          BY <3>1, <3>4, <5>1, AtWorkIs, DoneIs DEF v, TableInv, CountsFit
        <5>3. v.of > saver[u].of
          BY <5>1, <5>2 DEF InTurn
        <5>4. Done(v) < Done(saver[u])
          BY <5>1, <5>3 DEF InTurn
        <5> QED
          BY <3>4, <5>1, <5>2, <5>4
      <4> QED
        BY <1>10, <4>1, <4>2, <4>3
    <3>5. t = s => Done(v) = 0 \/ Done(v) = 2
      BY <1>5, <3>1 DEF v
    <3> QED
      BY <3>2, <3>3, <3>4, <3>5
  <2>2. CASE /\ OfRows(rows, "ui") # {} /\ LastOf(OfRows(rows, "ui")).of = step
             /\ \A t \in AtWork : Done(saver[t]) >= 3
    <3>1. Done(v) >= 3
      BY <1>2, <2>2 DEF v
    <3>2. Head(v.todo) # "ui" /\ Done(w) >= 3
      BY <1>5, <1>6, <3>1
    <3>3. OfRows(rows', "ui") = OfRows(rows, "ui")
      BY <1>1, <1>4, <3>2 DEF OfRows
    <3>4. \A t \in AtWork' : Done(saver'[t]) >= 3
      BY <1>1, <1>8, <2>2, <3>2
    <3> QED
      BY <2>2, <3>3, <3>4
  <2> QED
    BY <2>1, <2>2 DEF TurnInv, LastBodyIsNewest
<1>13. LessonsFit'
  <2>1. \A x : Learned(x) => Learned(x)'
    BY LearnedIsStored
  <2>2. v.lessons \subseteq lessons \/ ~InsertsMemory(v)
    BY <1>2 DEF TurnInv, LessonsFit, v
  <2>3. s = Lane => v.of \notin taught
    BY <1>2 DEF TurnInv, LessonsFit, v
  <2>4. \A x \in taught : v.of = x => IF Done(v) = 0 THEN x \in v.lessons ELSE Learned(x)
    BY <1>2 DEF TurnInv, LessonsFit, v
  <2>5. ASSUME NEW x \in taught, v.of = x
        PROVE  Learned(x)'
    <3>1. CASE Done(v) # 0
      BY <2>1, <2>4, <2>5, <3>1
    <3>2. CASE Done(v) = 0
      <4>1. x \in v.lessons /\ Head(v.todo) = "memory" /\ InsertsMemory(v)
        BY <1>5, <2>3, <2>4, <2>5, <3>2
      <4>2. OfRows(rows', "memory") # {} /\ x \in LastOf(OfRows(rows', "memory")).lessons
        BY <1>4, <1>10, <4>1
      <4>3. x \in lessons'
        BY <1>1, <2>2, <4>1
      <4>4. ASSUME NEW t \in AtWork', InsertsMemory(saver'[t]) PROVE x \in saver'[t].lessons
        <5>1. t # s
          BY <1>1, <1>6, <4>4
        <5>2. t \in AtWork /\ saver'[t] = saver[t] /\ InTurn(v, saver[t])
          BY <1>8, <1>9, <5>1
        <5>3. v.lessons \subseteq saver[t].lessons
          BY <4>1, <4>4, <5>2 DEF InTurn
        <5> QED
          BY <4>1, <5>2, <5>3
      <4> QED
        BY <4>2, <4>3, <4>4 DEF Learned, InsertsMemory
    <3> QED
      BY <3>1, <3>2
  <2>6. ASSUME NEW t \in AtWork'
        PROVE  /\ InsertsMemory(saver'[t]) => saver'[t].lessons \subseteq lessons'
               /\ t = Lane => saver'[t].of \notin taught'
               /\ \A x \in taught' : saver'[t].of = x =>
                    IF Done(saver'[t]) = 0 THEN x \in saver'[t].lessons ELSE Learned(x)'
    <3>1. CASE t = s
      <4>1. saver'[t] = w /\ Done(w) # 0
        <5>1. Done(v) \in Nat
          BY <1>5
        <5> QED
          BY <1>1, <1>6, <3>1, <5>1
      <4> QED
        BY <1>1, <1>3, <1>6, <2>3, <2>5, <3>1, <4>1
    <3>2. CASE t # s
      <4>1. t \in AtWork /\ saver'[t] = saver[t]
        BY <1>8, <3>2
      <4> QED
        BY <1>1, <2>1, <4>1 DEF TurnInv, LessonsFit
    <3> QED
      BY <3>1, <3>2
  <2>7. ASSUME NEW r \in rows', r.kind = "ui", r.life = poolLife', r.of \in taught'
        PROVE  Learned(r.of)'
    <3>1. CASE r \in rows
      BY <1>1, <2>1, <2>7, <3>1 DEF TurnInv, LessonsFit
    <3>2. CASE r = row
      BY <1>1, <1>4, <2>5, <2>7, <3>2
    <3> QED
      BY <1>1, <3>1, <3>2
  <2> QED
    BY <2>6, <2>7 DEF LessonsFit, Learned, InsertsMemory, Done
<1> QED
  BY <1>11, <1>12, <1>13 DEF TurnInv

LEMMA TailIs ==
  ASSUME NEW s, NEW todo \in Todos(s)
  PROVE  /\ Tail(todo) # <<>> => Stage(todo) \in {0, 2} /\ Stage(Tail(todo)) = Stage(todo) + 2
         /\ Stage(todo) = 0 => Tail(todo) # <<>>
<1>1. Tail(todo) \in Todos(s) => Tail(todo) # <<>>
  BY TodosAreKinds
<1> DEFINE g == Stage(todo)
           rest == Tail(todo)
           h == Stage(rest)
<1>2. \/ g = 0 /\ rest \in Todos(s) /\ h = 2
      \/ g = 2 /\ rest \in Todos(s) /\ h = 4
      \/ g = 2 /\ rest = <<>>
      \/ g = 4 /\ rest = <<>>
  BY TodoIs
<1> HIDE DEF g, rest, h
<1>3. (rest \in Todos(s) => rest # <<>>) =>
        /\ rest # <<>> => g \in {0, 2} /\ h = g + 2
        /\ g = 0 => rest # <<>>
  BY <1>2
<1> QED
  BY <1>1, <1>3 DEF g, rest, h

\* The first in line deletes what its row replaces, and exports the live memory if that is next.
LEMMA TurnLoses ==
  ASSUME TableInv, TurnInv, Pool!Delete(1)
  PROVE  TurnInv'
<1> DEFINE s == issued[1]
           v == saver[s]
           w == NextJob(v)
<1>1. /\ v.id > 0 /\ UNCHANGED <<poolLife, step, taught, lessons, missed>>
      /\ \/ Tail(v.todo) = <<>> /\ issued' = Pool!RemoveAt(issued, 1)
         \/ Tail(v.todo) # <<>> /\ issued' = Append(Pool!RemoveAt(issued, 1), s)
  BY DeleteIs
<1>2. /\ 1 \in 1..Len(issued) /\ s \in Pool!Savers /\ s \in AtWork /\ v \in Jobs /\ v.todo \in Todos(s)
      /\ v.of \in 1..step
  BY InHandIs DEF Pool!Delete, AtWork
<1>3. /\ \A t \in Pool!Savers : t # s => saver'[t] = saver[t]
      /\ Tail(v.todo) = <<>> => saver'[s] = Pool!Idle
      /\ Tail(v.todo) # <<>> => saver'[s] = w /\ saver'[s] # Pool!Idle
  BY DeleteLeaves
<1>4. w.todo = Tail(v.todo) /\ w.of = v.of /\ w.lessons = lessons /\ w.id = 0
  BY DEF NextJob
<1>5. Done(v) = Stage(v.todo) + 1 /\ Stage(v.todo) \in {0, 2, 4}
  <2>1. v.id \in Nat
    BY <1>2 DEF Jobs
  <2> QED
    BY <1>1, <1>2, <2>1, DoneIs
<1>6. Done(w) = Stage(w.todo)
  BY <1>4 DEF Done, Stage
<1>7. Tail(v.todo) # <<>> => Done(w) = Done(v) + 1 /\ Done(v) \in {1, 3}
  <2> SUFFICES ASSUME Tail(v.todo) # <<>>
               PROVE  Done(w) = Done(v) + 1 /\ Done(v) \in {1, 3}
    OBVIOUS
  <2>1. Stage(v.todo) \in {0, 2} /\ Stage(Tail(v.todo)) = Stage(v.todo) + 2
    BY <1>2, TailIs
  <2>2. Done(w) = Stage(Tail(v.todo))
    BY <1>4, <1>6
  <2> HIDE DEF v, w
  <2> QED
    BY <1>5, <2>1, <2>2
<1>8. \A t \in AtWork' : t # s => t \in AtWork /\ saver'[t] = saver[t]
  BY <1>3 DEF AtWork
<1>9. \A t \in AtWork : t # s => InTurn(v, saver[t])
  BY <1>2, FirstsTurn DEF TurnInv
<1>10. s \in AtWork' => Tail(v.todo) # <<>>
  BY <1>3 DEF AtWork
<1>11. Tail(v.todo) # <<>> => s \in AtWork'
  BY <1>2, <1>3 DEF AtWork
<1> HIDE DEF w, v, s
<1>12. TurnsKept'
  <2>1. CASE Tail(v.todo) = <<>>
    BY <1>1, <1>2, <1>3, <2>1, TurnsEnd DEF TurnInv, s
  <2>2. CASE Tail(v.todo) # <<>>
    <3>1. ASSUME NEW t \in AtWork, t # s PROVE InTurn(saver[t], w)
      <4>1. saver[t].of \in Nat /\ v.of \in Nat /\ Done(saver[t]) \in Nat /\ Done(v) \in Nat
        <5>1. saver[t].of \in 1..step /\ saver[t] \in Jobs /\ saver[t].todo \in Todos(t)
          BY AtWorkIs
        <5>2. Done(saver[t]) \in Nat /\ Done(v) \in Nat
          BY <1>2, <5>1, DoneIs
        <5> QED
          BY <1>2, <5>1, <5>2
      <4>2. InTurn(v, saver[t])
        BY <1>9, <3>1
      <4>3. saver[t].of # w.of
        BY <1>4, <4>2 DEF InTurn
      <4>4. saver[t].of < w.of => Done(saver[t]) >= Done(w)
        BY <1>4, <1>7, <2>2, <4>1, <4>2 DEF InTurn
      <4>5. saver[t].of > w.of => Done(saver[t]) < Done(w)
        BY <1>4, <1>7, <2>2, <4>1, <4>2 DEF InTurn
      <4>6. InsertsMemory(saver[t]) => saver[t].lessons \subseteq w.lessons
        BY <1>4 DEF TurnInv, LessonsFit
      <4> QED
        BY <4>3, <4>4, <4>5, <4>6 DEF InTurn
    <3> QED
      BY <1>1, <1>2, <1>3, <2>2, <3>1, TurnsGoOn DEF TurnInv, s
  <2> QED
    BY <2>1, <2>2
<1>13. LastBodyIsNewest'
  <2> SUFFICES ASSUME ~missed, step > 0
               PROVE  \/ \E t \in AtWork' : saver'[t].of = step /\ Done(saver'[t]) <= 2
                      \/ /\ OfRows(rows', "ui") # {} /\ LastOf(OfRows(rows', "ui")).of = step
                         /\ \A t \in AtWork' : Done(saver'[t]) >= 3
    BY <1>1 DEF LastBodyIsNewest, Done
  <2>1. CASE \E t \in AtWork : saver[t].of = step /\ Done(saver[t]) <= 2
    <3>1. PICK t \in AtWork : saver[t].of = step /\ Done(saver[t]) <= 2
      BY <2>1
    <3>2. CASE t # s
      <4>1. t \in AtWork' /\ saver'[t] = saver[t]
        BY <1>3, <3>2 DEF AtWork
      <4> QED
        BY <3>1, <4>1
    <3>3. CASE t = s
      <4>1. Done(v) = 1 /\ v.of = step
        BY <1>5, <3>1, <3>3 DEF v
      <4>2. Stage(v.todo) = 0
        BY <1>5, <4>1
      <4>3. Tail(v.todo) # <<>>
        BY <1>2, <4>2, TailIs
      <4> QED
        BY <1>3, <1>4, <1>7, <1>11, <4>1, <4>3
    <3> QED
      BY <3>2, <3>3
  <2>2. CASE /\ OfRows(rows, "ui") # {} /\ LastOf(OfRows(rows, "ui")).of = step
             /\ \A t \in AtWork : Done(saver[t]) >= 3
    <3>1. OfRows(rows', "ui") # {} /\ LastOf(OfRows(rows', "ui")) = LastOf(OfRows(rows, "ui"))
      BY <2>2, NewestIsLeft DEF Pool!Kinds
    <3>2. ASSUME NEW t \in AtWork' PROVE Done(saver'[t]) >= 3
      <4>1. CASE t = s
        <5>1. Done(v) >= 3
          BY <1>2, <2>2 DEF v
        <5>2. Tail(v.todo) # <<>>
          BY <1>10, <4>1
        <5> QED
          BY <1>3, <1>7, <4>1, <5>1, <5>2
      <4>2. CASE t # s
        BY <1>8, <2>2, <4>2
      <4> QED
        BY <4>1, <4>2
    <3> QED
      BY <2>2, <3>1, <3>2
  <2> QED
    BY <2>1, <2>2 DEF TurnInv, LastBodyIsNewest
<1>14. LessonsFit'
  <2>1. \A x : Learned(x) => Learned(x)'
    BY LearnedIsLeft
  <2>2. s = Lane => v.of \notin taught
    BY <1>2 DEF TurnInv, LessonsFit, v
  <2>3. \A x \in taught : v.of = x => IF Done(v) = 0 THEN x \in v.lessons ELSE Learned(x)
    BY <1>2 DEF TurnInv, LessonsFit, v
  <2>4. ASSUME NEW t \in AtWork'
        PROVE  /\ InsertsMemory(saver'[t]) => saver'[t].lessons \subseteq lessons'
               /\ t = Lane => saver'[t].of \notin taught'
               /\ \A x \in taught' : saver'[t].of = x =>
                    IF Done(saver'[t]) = 0 THEN x \in saver'[t].lessons ELSE Learned(x)'
    <3>1. CASE t = s
      <4>1. saver'[t] = w /\ Done(w) # 0 /\ Done(v) # 0
        BY <1>3, <1>7, <1>10, <3>1
      <4> QED
        BY <1>1, <1>4, <2>1, <2>2, <2>3, <3>1, <4>1
    <3>2. CASE t # s
      <4>1. t \in AtWork /\ saver'[t] = saver[t]
        BY <1>8, <3>2
      <4> QED
        BY <1>1, <2>1, <4>1 DEF TurnInv, LessonsFit
    <3> QED
      BY <3>1, <3>2
  <2>5. ASSUME NEW r \in rows', r.kind = "ui", r.life = poolLife', r.of \in taught'
        PROVE  Learned(r.of)'
    <3>1. r \in rows
      BY DeleteIs DEF Left
    <3> QED
      BY <1>1, <2>1, <2>5, <3>1 DEF TurnInv, LessonsFit
  <2> QED
    BY <2>4, <2>5 DEF LessonsFit, Learned, InsertsMemory, Done
<1> QED
  BY <1>12, <1>13, <1>14 DEF TurnInv

\* A saver that fails leaves the line; the table is as it was.
LEMMA TurnFails ==
  ASSUME TableInv, TurnInv, Pool!Fail(1)
  PROVE  TurnInv'
<1> DEFINE s == issued[1]
<1>1. /\ missed' = TRUE /\ issued' = Pool!RemoveAt(issued, 1) /\ saver'[s] = Pool!Idle
      /\ \A t \in Pool!Savers : t # s => saver'[t] = saver[t]
      /\ UNCHANGED <<poolLife, step, taught, lessons, rows>>
  BY FailIs
<1>2. 1 \in 1..Len(issued)
  BY InHandIs DEF Pool!Fail
<1>3. \A t \in AtWork' : saver'[t] = saver[t] /\ t \in AtWork
  BY <1>1 DEF AtWork
<1>4. TurnsKept'
  BY <1>1, <1>2, TurnsEnd DEF TurnInv
<1>5. LastBodyIsNewest'
  BY <1>1 DEF LastBodyIsNewest
<1>6. LessonsFit'
  <2>1. \A x : Learned(x) => Learned(x)'
    BY <1>1, <1>3, LearnedIsKept
  <2> QED
    BY <1>1, <1>3, <2>1 DEF TurnInv, LessonsFit, Learned, InsertsMemory, Done
<1> QED
  BY <1>4, <1>5, <1>6 DEF TurnInv

\* The line dies with its process, and no row is of the next life.
LEMMA TurnCrashes == ASSUME TableInv, TurnInv, Pool!Crash PROVE TurnInv'
<1>1. /\ poolLife' = poolLife + 1 /\ missed' = (missed \/ issued # <<>>) /\ issued' = <<>>
      /\ saver' = [s \in Pool!Savers |-> Pool!Idle]
      /\ UNCHANGED <<step, taught, rows>>
  BY DEF Pool!Crash
<1>2. AtWork' = {}
  BY <1>1 DEF AtWork
<1>3. TurnsKept'
  <2>1. Len(issued') = 0
    BY <1>1
  <2> QED
    BY <2>1 DEF TurnsKept
<1>4. LastBodyIsNewest'
  <2> SUFFICES ASSUME ~missed', step > 0
               PROVE  OfRows(rows, "ui") # {} /\ LastOf(OfRows(rows, "ui")).of = step
    BY <1>1, <1>2 DEF LastBodyIsNewest
  <2>1. ~missed /\ issued = <<>>
    BY <1>1
  <2>2. Len(issued) = 0
    BY <2>1
  <2>3. AtWork = {}
    BY <2>2 DEF AtWork, TableInv, SaversFit, InLine
  <2> QED
    BY <2>1, <2>3 DEF TurnInv, LastBodyIsNewest
<1>5. LessonsFit'
  <2>1. \A r \in rows : r.life # poolLife'
    <3>1. \A r \in rows : r.life \in Nat /\ r.life <= poolLife
      BY DEF TableInv, RowsFit, Rows
    <3> QED
      BY <1>1, <3>1 DEF TableInv, CountsFit
  <2> QED
    BY <1>1, <1>2, <2>1 DEF LessonsFit
<1> QED
  BY <1>3, <1>4, <1>5 DEF TurnInv

LEMMA TurnResumes ==
  ASSUME TableInv, TurnInv, Pool!ResumeList \/ Pool!ResumeHydrate \/ UNCHANGED Pool!vars
  PROVE  TurnInv'
<1>1. /\ UNCHANGED <<poolLife, step, taught, rows, missed, saver, issued>> /\ lessons \subseteq lessons'
  BY ResumeIs
<1>2. AtWork' = AtWork
  BY <1>1 DEF AtWork
<1>3. TurnsKept' /\ LastBodyIsNewest'
  BY <1>1, <1>2 DEF TurnInv, TurnsKept, LastBodyIsNewest, InTurn, Done, InsertsMemory
<1>4. LessonsFit'
  <2>1. \A x : Learned(x) => Learned(x)'
    BY <1>1, <1>2, LearnedIsKept
  <2> QED
    BY <1>1, <1>2, <2>1 DEF TurnInv, LessonsFit, Learned, InsertsMemory, Done
<1> QED
  BY <1>3, <1>4 DEF TurnInv

LEMMA TurnInit == ASSUME Pool!Init PROVE TurnInv
<1>1. Len(issued) = 0 /\ AtWork = {} /\ step = 0 /\ rows = {}
  BY DEF Pool!Init, AtWork
<1>2. TurnsKept /\ LastBodyIsNewest /\ LessonsFit
  BY <1>1 DEF TurnsKept, LastBodyIsNewest, LessonsFit
<1> QED
  BY <1>2 DEF TurnInv

\* A step after which no statement was ever overtaken lets the first in line go, if any.
LEMMA NothingOvertakenYet ==
  ASSUME Pool!Next, ~overtaken'
  PROVE  /\ ~overtaken
         /\ \/ Pool!Ingest
            \/ \E r \in Reversers, teaches \in BOOLEAN : Pool!TakeBack(r, teaches)
            \/ Pool!Insert(1) \/ Pool!Delete(1) \/ Pool!Fail(1)
            \/ Pool!Crash \/ Pool!ResumeList \/ Pool!ResumeHydrate
<1>1. CASE Pool!Ingest \/ \E r \in Reversers, teaches \in BOOLEAN : Pool!TakeBack(r, teaches)
  BY <1>1 DEF Pool!Ingest, Pool!TakeBack, Pool!tableVars
<1>2. CASE Pool!Crash \/ Pool!ResumeList \/ Pool!ResumeHydrate
  BY <1>2 DEF Pool!Crash, Pool!ResumeList, Pool!ResumeHydrate, Pool!tableVars
<1>3. ASSUME NEW i \in 1..Connections, Pool!Insert(i) \/ Pool!Delete(i) \/ Pool!Fail(i)
      PROVE  ~overtaken /\ i = 1
  <2>1. overtaken' = IF i > 1 THEN TRUE ELSE overtaken
    BY <1>3 DEF Pool!Insert, Pool!Delete, Pool!Fail, Pool!Overtakes
  <2>2. i \in Int /\ 1 <= i
    OBVIOUS
  <2> QED
    BY <2>1, <2>2
<1>4. (\E i \in 1..Connections : Pool!Insert(i) \/ Pool!Delete(i) \/ Pool!Fail(i)) =>
        ~overtaken /\ (Pool!Insert(1) \/ Pool!Delete(1) \/ Pool!Fail(1))
  BY <1>3
<1> QED
  BY <1>1, <1>2, <1>4 DEF Pool!Next

LEMMA TurnKept ==
  ASSUME Pool!SnapshotsAssumption, TableInv, ~overtaken => TurnInv, [Pool!Next]_(Pool!vars), ~overtaken'
  PROVE  TurnInv'
<1>1. CASE UNCHANGED Pool!vars
  <2>1. overtaken' = overtaken
    BY <1>1 DEF Pool!vars, Pool!tableVars
  <2> QED
    BY <1>1, <2>1, TurnResumes
<1>2. CASE Pool!Next
  <2>1. TurnInv
    BY <1>2, NothingOvertakenYet
  <2>2. ASSUME Pool!Ingest PROVE TurnInv'
    <3>1. step' \notin taught' /\ Stage(<<"world", "ui", "memory">>) = 0
      <4>1. step + 1 \notin taught
        BY DEF TableInv, CountsFit
      <4> QED
        BY <2>2, <4>1 DEF Pool!Ingest, Stage
    <3> QED
      BY <2>1, <2>2, <3>1, MorphBegins, TurnBegins
  <2>3. ASSUME NEW r \in Reversers, NEW teaches \in BOOLEAN, Pool!TakeBack(r, teaches) PROVE TurnInv'
    <3>1. Beginning(r, <<"memory", "ui">>) /\ r # Lane
      BY <2>3, ReversalBegins DEF Pool!SnapshotsAssumption
    <3>2. step + 1 \notin taught
      BY DEF TableInv, CountsFit
    <3>3. step' \in taught' => step' \in lessons'
      BY <2>3, <3>2 DEF Pool!TakeBack
    <3>4. Stage(<<"memory", "ui">>) = 0
      BY DEF Stage
    <3> QED
      BY <2>1, <3>1, <3>3, <3>4, TurnBegins
  <2> QED
    BY <1>2, <2>1, <2>2, <2>3, NothingOvertakenYet, TurnStores, TurnLoses, TurnFails, TurnCrashes, TurnResumes
<1> QED
  BY <1>1, <1>2

LEMMA TurnsAgree ==
  ASSUME TableInv, TurnInv
  PROVE  Pool!LessonIsKept /\ Pool!UndoneStaysUndone
<1>1. \A k : Pool!OfKind(k) = OfRows(rows, k) /\ Pool!Newest(k) = LastOf(OfRows(rows, k))
  BY NewestIsLast
<1>2. Pool!LessonIsKept
  <2> SUFFICES ASSUME NEW r \in OfRows(rows, "ui"), r.life = poolLife, r.of \in taught
               PROVE  OfRows(rows, "memory") # {} /\ r.of \in LastOf(OfRows(rows, "memory")).lessons
    BY <1>1 DEF Pool!LessonIsKept
  <2>1. Learned(r.of)
    BY DEF TurnInv, LessonsFit, OfRows
  <2> QED
    BY <2>1 DEF Learned
<1>3. Pool!UndoneStaysUndone
  <2> SUFFICES ASSUME Pool!Quiet, ~missed, step \in reversals
               PROVE  OfRows(rows, "ui") # {} /\ LastOf(OfRows(rows, "ui")).of = step
    BY <1>1 DEF Pool!UndoneStaysUndone
  <2>1. AtWork = {}
    BY DEF AtWork, Pool!Quiet
  <2>2. step > 0
    BY DEF TableInv, CountsFit
  <2> QED
    BY <2>1, <2>2 DEF TurnInv, LastBodyIsNewest
<1> QED
  BY <1>2, <1>3

\* persistReversal over a pool of any number of connections, with savers that overlap, statements
\* that fail and processes that die: as long as no statement ran before one handed over earlier, no
\* stored body of a living process shows a card taken back without the lesson that taught, and once
\* every save has ended a resume shows the body the last reversal left.  In whatever order the
\* statements run, a kind keeps its newest row, and in the end that row alone.
THEOREM SavesInTurnKeepLessons ==
  ASSUME Pool!SnapshotsAssumption
  PROVE  Pool!Spec => SnapshotsAgree
<1> DEFINE Turns == ~overtaken => TurnInv
           Agree == part \in {"snapshots", "failures"} =>
                      /\ Pool!OneRowPerKind
                      /\ ~overtaken => Pool!LessonIsKept /\ Pool!UndoneStaysUndone
<1>1. Pool!Init => TableInv /\ Turns
  BY TableInit, TurnInit
<1>2. TableInv /\ Turns /\ [Pool!Next]_(Pool!vars) => (TableInv /\ Turns)'
  BY TableKept, TurnKept
<1>3. TableInv /\ Turns => Agree
  BY OneRowEach, TurnsAgree
<1>4. TableInv /\ [Pool!Next]_(Pool!vars) =>
        [rows # rows' => \A k \in Pool!Kinds : Pool!OfKind(k) # {} =>
           Pool!OfKind(k)' # {} /\ Pool!Newest(k)'.id >= Pool!Newest(k).id]_(Pool!vars)
  BY NewestOnlyGrows
<1> QED
  BY <1>1, <1>2, <1>3, <1>4, PTL DEF Pool!Spec, Pool!NewestIsKept, SnapshotsAgree
=============================================================================
