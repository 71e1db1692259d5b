--------------------------- MODULE AgentScreen_proofs ---------------------------
(* Theorems about AgentScreen, for any listed programs, any interval, any length   *)
(* of the queue and any number of pictures: no picture is lost uncounted, readings *)
(* come in the order of their pictures, the newest are kept, and no program is     *)
(* photographed too often.                                                         *)
EXTENDS AgentScreen, TLAPS, SequenceTheorems, FiniteSetTheorems

----
(* The inductive invariant *)

Rising(q) == \A i, j \in 1..Len(q) : i < j => q[i] < q[j]

\* The last picture that is no longer being taken.
LastTaken == IF camera = None THEN Len(shots) ELSE Len(shots) - 1

\* A picture that is done with: older than the one being read and all that wait.
Below(shot, w, r, last) ==
  shot \in 1..last /\ (r # None => shot < r) /\ \A j \in 1..Len(w) : shot < w[j]

QueueFits(w, r, sent, failed, last) ==
  /\ w \in Seq(Nat) /\ Rising(w) /\ \A j \in 1..Len(w) : w[j] \in 1..last
  /\ r = None => w = <<>>
  /\ r # None => r \in 1..last /\ \A j \in 1..Len(w) : r < w[j]
  /\ sent \in Seq(Nat) /\ Rising(sent) /\ \A i \in 1..Len(sent) : Below(sent[i], w, r, last)
  /\ IsFiniteSet(failed) /\ \A shot \in failed : Below(shot, w, r, last)

InLine(w, r) == Len(w) + (IF r = None THEN 0 ELSE 1)

\* Whatever was asked for, was asked for when its program was last claimed or before.
ClaimsFit ==
  /\ now \in 0..MaxTime
  /\ claimed \in [Listed -> 0..MaxTime \cup {None}]
  /\ \A a \in Listed : claimed[a] # None => claimed[a] <= now
  /\ shots \in Seq([app : Listed, at : 0..MaxTime]) /\ Len(shots) <= MaxShots
  /\ \A i \in 1..Len(shots) :
       claimed[shots[i].app] # None /\ shots[i].at <= claimed[shots[i].app]
  /\ OnePerInterval

\* The picture being taken is the last one asked for.
CameraFits ==
  /\ camera \in [shot : Shots, saved : BOOLEAN] \cup {None}
  /\ camera # None => camera.shot = Len(shots)
  /\ disk \subseteq Shots

ToldFits ==
  /\ told \in Seq(Nat) /\ Rising(told) /\ \A i \in 1..Len(told) : told[i] \in 1..LastTaken
  /\ Len(told) <= LastTaken

CountsFit == dropped \in Nat /\ EveryPictureIsAccountedFor

ScreenInv ==
  /\ ClaimsFit /\ CameraFits /\ ToldFits /\ CountsFit
  /\ QueueFits(waiting, reading, readings, unread, LastTaken) /\ Len(waiting) <= MaxWaiting

----
(* Sequences that rise *)

LEMMA AppendIs ==
  ASSUME NEW q \in Seq(Nat), NEW e \in Nat
  PROVE  /\ Append(q, e) \in Seq(Nat) /\ Len(Append(q, e)) = Len(q) + 1
         /\ Append(q, e)[Len(Append(q, e))] = e
         /\ \A i \in 1..Len(q) : Append(q, e)[i] = q[i]
         /\ \A i \in 1..Len(Append(q, e)) : i \in 1..Len(q) \/ i = Len(Append(q, e))
<1>1. /\ Append(q, e) \in Seq(Nat) /\ Len(Append(q, e)) = Len(q) + 1 /\ Len(q) \in Nat
      /\ Append(q, e)[Len(q) + 1] = e
      /\ \A i \in 1..Len(q) : Append(q, e)[i] = q[i]
  BY AppendProperties, LenProperties
<1> QED
  BY <1>1

LEMMA AppendRises ==
  ASSUME NEW q \in Seq(Nat), NEW e \in Nat, Rising(q), \A j \in 1..Len(q) : q[j] < e
  PROVE  Rising(Append(q, e))
<1> DEFINE p == Append(q, e)
<1>1. /\ Len(p) = Len(q) + 1 /\ p[Len(q) + 1] = e
      /\ \A j \in 1..Len(q) : p[j] = q[j]
  OBVIOUS
<1> HIDE DEF p
<1>2. ASSUME NEW i \in 1..Len(p), NEW j \in 1..Len(p), i < j
      PROVE  p[i] < p[j]
  <2>1. i \in 1..Len(q)
    BY <1>1, <1>2
  <2>2. CASE j \in 1..Len(q)
    BY <1>1, <1>2, <2>1, <2>2 DEF Rising
  <2>3. CASE j = Len(q) + 1
    BY <1>1, <2>1, <2>3
  <2> QED
    BY <1>1, <2>2, <2>3
<1> QED
  BY <1>2 DEF Rising, p

LEMMA TailRises ==
  ASSUME NEW q \in Seq(Nat), q # <<>>, Rising(q)
  PROVE  /\ Head(q) \in Nat /\ Tail(q) \in Seq(Nat) /\ Rising(Tail(q))
         /\ Len(Tail(q)) = Len(q) - 1 /\ Head(q) = q[1] /\ 1 \in 1..Len(q)
         /\ \A j \in 1..Len(Tail(q)) : /\ Tail(q)[j] = q[j + 1] /\ j + 1 \in 1..Len(q)
                                       /\ Head(q) < Tail(q)[j]
<1>1. /\ Head(q) \in Nat /\ Tail(q) \in Seq(Nat) /\ Len(Tail(q)) = Len(q) - 1
      /\ Head(q) = q[1] /\ 1 \in 1..Len(q)
      /\ \A j \in 1..Len(Tail(q)) : Tail(q)[j] = q[j + 1] /\ j + 1 \in 1..Len(q) /\ 1 < j + 1
  BY HeadTailProperties
<1> QED
  BY <1>1 DEF Rising

----
(* What the read queue does *)

\* More pictures were taken: what is queued fits as before.
LEMMA MoreWereTaken ==
  ASSUME NEW last \in Nat, NEW more \in Nat, last <= more, NEW w, NEW r, NEW sent, NEW failed,
         QueueFits(w, r, sent, failed, last)
  PROVE  QueueFits(w, r, sent, failed, more)
<1>1. 1..last \subseteq 1..more
  OBVIOUS
<1> QED
  BY <1>1 DEF QueueFits, Below

\* A picture that was just taken is queued behind all others.
LEMMA JoinKeeps ==
  ASSUME NEW last \in Nat, NEW w, NEW r, NEW sent, NEW failed,
         QueueFits(w, r, sent, failed, last), r # None
  PROVE  QueueFits(Append(w, last + 1), r, sent, failed, last + 1)
<1> DEFINE p == Append(w, last + 1)
<1>1. w \in Seq(Nat) /\ (\A j \in 1..Len(w) : w[j] \in 1..last) /\ r \in 1..last
  BY DEF QueueFits
<1>2. /\ p \in Seq(Nat) /\ Len(p) = Len(w) + 1 /\ p[Len(w) + 1] = last + 1
      /\ \A j \in 1..Len(w) : p[j] = w[j]
      /\ \A j \in 1..Len(p) : j \in 1..Len(w) \/ j = Len(w) + 1
  BY <1>1
<1>3. Rising(p)
  BY <1>1, AppendRises DEF QueueFits
<1> HIDE DEF p
<1>4. \A shot \in 1..last : shot \in 1..(last + 1) /\ shot < last + 1
  OBVIOUS
<1>5. \A shot : Below(shot, w, r, last) => Below(shot, p, r, last + 1)
  BY <1>2, <1>4 DEF Below
<1>6. ASSUME NEW j \in 1..Len(p) PROVE p[j] \in 1..(last + 1) /\ r < p[j]
  <2>1. CASE j \in 1..Len(w)
    BY <1>1, <1>2, <1>4, <2>1 DEF QueueFits
  <2>2. CASE j = Len(w) + 1
    BY <1>1, <1>2, <1>4, <2>2
  <2> QED
    BY <1>2, <2>1, <2>2
<1> QED
  BY <1>1, <1>2, <1>3, <1>4, <1>5, <1>6 DEF QueueFits, p

\* At the ceiling the oldest goes.
LEMMA RoomKeeps ==
  ASSUME NEW last \in Nat, NEW w, NEW r, NEW sent, NEW failed,
         QueueFits(w, r, sent, failed, last), Len(w) <= MaxWaiting
  PROVE  /\ QueueFits(Room(w), r, sent, failed, last)
         /\ Len(Room(w)) + 1 <= MaxWaiting
         /\ Len(w) - Len(Room(w)) \in {0, 1}
<1>1. w \in Seq(Nat) /\ Len(w) \in Nat /\ MaxWaiting \in Nat \ {0}
  BY ScreenAssumption DEF QueueFits
<1>2. CASE Len(w) >= MaxWaiting
  <2>1. w # <<>> /\ Room(w) = Tail(w) /\ Rising(w) /\ r # None
    BY <1>1, <1>2 DEF Room, QueueFits
  <2>2. /\ Tail(w) \in Seq(Nat) /\ Rising(Tail(w)) /\ Len(Tail(w)) = Len(w) - 1
        /\ \A j \in 1..Len(Tail(w)) : Tail(w)[j] = w[j + 1] /\ j + 1 \in 1..Len(w)
    BY <1>1, <2>1, TailRises
  <2>3. QueueFits(Tail(w), r, sent, failed, last)
    BY <2>1, <2>2 DEF QueueFits, Below
  <2> QED
    BY <1>1, <1>2, <2>1, <2>2, <2>3
<1>3. CASE ~(Len(w) >= MaxWaiting)
  BY <1>1, <1>3 DEF Room
<1> QED
  BY <1>2, <1>3

\* With nobody reading, nothing waits, and the new picture is read at once.
LEMMA PushKeeps ==
  ASSUME NEW last \in Nat, NEW w, NEW r, NEW sent, NEW failed,
         QueueFits(w, r, sent, failed, last), Len(w) <= MaxWaiting
  PROVE  LET line == Append(Room(w), last + 1)
             w2 == IF r # None \/ line = <<>> THEN line ELSE Tail(line)
             r2 == IF r # None \/ line = <<>> THEN r ELSE Head(line)
         IN  /\ QueueFits(w2, r2, sent, failed, last + 1) /\ Len(w2) <= MaxWaiting
             /\ Len(w) - Len(Room(w)) \in {0, 1}
             /\ InLine(w, r) + 1 = InLine(w2, r2) + (Len(w) - Len(Room(w)))
<1> DEFINE line == Append(Room(w), last + 1)
<1>1. /\ QueueFits(Room(w), r, sent, failed, last)
      /\ Len(Room(w)) + 1 <= MaxWaiting /\ Len(w) - Len(Room(w)) \in {0, 1}
  BY RoomKeeps
<1>2. Room(w) \in Seq(Nat) /\ w \in Seq(Nat)
  BY <1>1 DEF QueueFits
<1>3. line \in Seq(Nat) /\ Len(line) = Len(Room(w)) + 1 /\ line # <<>>
  <2>1. last + 1 \in Nat
    OBVIOUS
  <2> QED
    BY <1>2, <2>1, AppendProperties
<1>4. CASE r # None
  <2>1. QueueFits(line, r, sent, failed, last + 1)
    BY <1>1, <1>4, JoinKeeps
  <2>2. InLine(w, r) + 1 = InLine(line, r) + (Len(w) - Len(Room(w)))
    BY <1>2, <1>3, <1>4 DEF InLine
  <2> HIDE DEF line
  <2> QED
    BY <1>1, <1>3, <1>4, <2>1, <2>2 DEF line
<1>5. CASE r = None
  <2>1. w = <<>> /\ Room(w) = <<>>
    BY <1>1, <1>5 DEF QueueFits
  <2>2. Head(line) = last + 1 /\ Tail(line) = <<>>
    <3>1. Len(Room(w)) = 0 /\ last + 1 \in Nat
      BY <2>1
    <3>2. Len(line) = 1 /\ line[1] = last + 1
      BY <1>2, <1>3, <3>1, AppendProperties
    <3> HIDE DEF line
    <3>3. Tail(line) \in Seq(Nat) /\ Len(Tail(line)) = Len(line) - 1
      BY <1>3, HeadTailProperties
    <3>4. Head(line) = line[1]
      BY <1>3
    <3>5. Len(Tail(line)) = 0
      BY <3>2, <3>3
    <3> QED
      BY <3>2, <3>3, <3>4, <3>5, EmptySeq
  <2>3. last + 1 # None /\ last + 1 \in 1..(last + 1) /\ MaxWaiting \in Nat
    BY ScreenAssumption
  <2>4. \A shot \in 1..last : shot \in 1..(last + 1) /\ shot < last + 1
    OBVIOUS
  <2>5. \A shot : Below(shot, w, r, last) => Below(shot, <<>>, last + 1, last + 1)
    BY <2>4 DEF Below
  <2>6. QueueFits(<<>>, last + 1, sent, failed, last + 1)
    BY <2>3, <2>5 DEF QueueFits, Rising
  <2>7. InLine(w, r) + 1 = InLine(<<>>, last + 1) + (Len(w) - Len(Room(w)))
    BY <1>5, <2>1, <2>3 DEF InLine
  <2> DEFINE w2 == IF r # None \/ line = <<>> THEN line ELSE Tail(line)
             r2 == IF r # None \/ line = <<>> THEN r ELSE Head(line)
  <2>8. w2 = <<>> /\ r2 = last + 1
    BY <1>3, <1>5, <2>2
  <2>9. Len(<<>>) <= MaxWaiting
    BY <2>3, EmptySeq
  <2> HIDE DEF line, w2, r2
  <2>10. /\ QueueFits(w2, r2, sent, failed, last + 1) /\ Len(w2) <= MaxWaiting
         /\ InLine(w, r) + 1 = InLine(w2, r2) + (Len(w) - Len(Room(w)))
    BY <2>6, <2>7, <2>8, <2>9
  <2> QED
    BY <1>1, <2>10 DEF line, w2, r2
<1> QED
  BY <1>4, <1>5

\* A reading is over, one way or the other, and the next is taken up.
LEMMA NextKeeps ==
  ASSUME NEW last \in Nat, NEW w, NEW r, NEW sent, NEW failed,
         QueueFits(w, r, sent, failed, last), Len(w) <= MaxWaiting, r # None
  PROVE  LET w2 == IF w = <<>> THEN w ELSE Tail(w)
             r2 == IF w = <<>> THEN None ELSE Head(w)
         IN  /\ QueueFits(w2, r2, Append(sent, r), failed, last)
             /\ QueueFits(w2, r2, sent, failed \cup {r}, last)
             /\ Len(w2) <= MaxWaiting
             /\ InLine(w, r) = InLine(w2, r2) + 1
             /\ r \notin failed /\ r \in Nat
<1>1. /\ w \in Seq(Nat) /\ Rising(w) /\ sent \in Seq(Nat) /\ Rising(sent)
      /\ r \in 1..last /\ r \in Nat
      /\ \A j \in 1..Len(w) : r < w[j] /\ w[j] \in 1..last
  BY DEF QueueFits
<1>2. r \notin failed
  BY <1>1 DEF QueueFits, Below
<1>3. IsFiniteSet(failed \cup {r})
  BY FS_AddElement DEF QueueFits
<1>4. Rising(Append(sent, r))
  BY <1>1, AppendRises DEF QueueFits, Below
<1>5. /\ Append(sent, r) \in Seq(Nat)
      /\ \A i \in 1..Len(Append(sent, r)) : Append(sent, r)[i] = r \/
            \E j \in 1..Len(sent) : Append(sent, r)[i] = sent[j]
  BY <1>1
<1>6. CASE w = <<>>
  <2>1. \A shot : Below(shot, w, r, last) => Below(shot, w, None, last)
    BY DEF Below
  <2>2. Below(r, w, None, last)
    BY <1>1, <1>6 DEF Below
  <2>3. QueueFits(w, None, Append(sent, r), failed, last)
    BY <1>1, <1>4, <1>5, <1>6, <2>1, <2>2 DEF QueueFits
  <2>4. QueueFits(w, None, sent, failed \cup {r}, last)
    BY <1>1, <1>3, <1>6, <2>1, <2>2 DEF QueueFits
  <2>5. InLine(w, r) = InLine(w, None) + 1
    BY <1>1 DEF InLine
  <2> QED
    BY <1>1, <1>2, <1>6, <2>3, <2>4, <2>5
<1>7. CASE w # <<>>
  <2> DEFINE h == Head(w)
             t == Tail(w)
  <2>1. /\ h \in Nat /\ t \in Seq(Nat) /\ Rising(t) /\ Len(t) = Len(w) - 1
        /\ h = w[1] /\ 1 \in 1..Len(w)
        /\ \A j \in 1..Len(t) : t[j] = w[j + 1] /\ j + 1 \in 1..Len(w) /\ h < t[j]
    BY <1>1, <1>7, TailRises
  <2> HIDE DEF h, t
  <2>2. h # None /\ h \in 1..last /\ r < h
    BY <1>1, <2>1, ScreenAssumption
  <2>3. \A shot : Below(shot, w, r, last) => Below(shot, t, h, last)
    BY <2>1 DEF Below
  <2>4. Below(r, t, h, last)
    BY <1>1, <2>1, <2>2 DEF Below
  <2>5. QueueFits(t, h, Append(sent, r), failed, last)
    BY <1>1, <1>4, <1>5, <2>1, <2>2, <2>3, <2>4 DEF QueueFits
  <2>6. QueueFits(t, h, sent, failed \cup {r}, last)
    BY <1>1, <1>3, <2>1, <2>2, <2>3, <2>4 DEF QueueFits
  <2>7. InLine(w, r) = InLine(t, h) + 1
    BY <1>1, <2>1, <2>2 DEF InLine
  <2>8. Len(t) <= MaxWaiting
    BY <1>1, <2>1, ScreenAssumption
  <2> QED
    BY <1>1, <1>2, <1>7, <2>5, <2>6, <2>7, <2>8 DEF h, t
<1> QED
  BY <1>6, <1>7

----
(* Every step keeps the invariant *)

LEMMA InvariantHoldsAtFirst == Init => ScreenInv
<1> SUFFICES ASSUME Init PROVE ScreenInv
  OBVIOUS
<1>1. /\ <<>> \in Seq(Nat) /\ Len(<<>>) = 0 /\ DOMAIN <<>> = {}
      /\ <<>> \in Seq([app : Listed, at : 0..MaxTime])
  OBVIOUS
<1>2. ClaimsFit
  BY <1>1, ScreenAssumption DEF Init, ClaimsFit, OnePerInterval
<1>3. CameraFits
  BY DEF Init, CameraFits
<1>4. LastTaken = 0
  BY <1>1 DEF Init, LastTaken
<1>5. ToldFits
  BY <1>1, <1>4 DEF Init, ToldFits, Rising
<1>6. CountsFit
  BY <1>1, FS_EmptySet DEF Init, CountsFit, EveryPictureIsAccountedFor
<1>7. QueueFits(waiting, reading, readings, unread, LastTaken)
  BY <1>1, <1>4, FS_EmptySet DEF Init, QueueFits, Rising
<1> QED
  BY <1>1, <1>2, <1>3, <1>5, <1>6, <1>7, ScreenAssumption DEF Init, ScreenInv

\* A line of the window reader may ask for a picture, of a program whose interval is over.
LEMMA LineKeeps == ASSUME ScreenInv, NEW app \in Apps, Line(app) PROVE ScreenInv'
<1> USE DEF ScreenInv
<1>1. UNCHANGED <<now, disk, told, waiting, reading, dropped, unread, readings>>
  BY DEF Line, queue
<1>2. shots \in Seq([app : Listed, at : 0..MaxTime]) /\ Len(shots) \in Nat /\ Len(shots) <= MaxShots
  BY DEF ClaimsFit
<1>3. ClaimsFit' /\ CameraFits' /\ LastTaken \in Nat /\ LastTaken' \in Nat /\ LastTaken <= LastTaken'
  <2>1. CASE UNCHANGED <<claimed, shots, camera>>
    BY <1>1, <1>2, <2>1 DEF ClaimsFit, CameraFits, OnePerInterval, LastTaken, Shots
  <2>2. CASE /\ app \in Listed /\ MayAgain(app) /\ Len(shots) < MaxShots
             /\ claimed' = [claimed EXCEPT ![app] = now]
    <3>1. /\ claimed' \in [Listed -> 0..MaxTime \cup {None}] /\ claimed'[app] = now
          /\ \A a \in Listed : a # app => claimed'[a] = claimed[a]
          /\ now \in Nat /\ now \in 0..MaxTime /\ now # None
      BY <2>2, ScreenAssumption DEF ClaimsFit
    <3>2. \A a \in Listed : claimed[a] # None =>
            /\ claimed[a] \in Nat /\ claimed'[a] # None /\ claimed[a] <= claimed'[a]
            /\ claimed'[a] \in Nat
      BY <3>1 DEF ClaimsFit
    <3>3. \A i \in 1..Len(shots) : shots[i].app \in Listed /\ shots[i].at \in Nat
      <4>1. \A i \in 1..Len(shots) : shots[i] \in [app : Listed, at : 0..MaxTime]
        BY <1>2, ElementOfSeq
      <4> QED
        BY <4>1
    <3>4. \A i \in 1..Len(shots) :
            claimed'[shots[i].app] # None /\ shots[i].at <= claimed'[shots[i].app]
      BY <3>2, <3>3 DEF ClaimsFit
    <3>5. \A i \in 1..Len(shots) : shots[i].app = app => now - shots[i].at >= Interval
      BY <2>2, <3>1, <3>2, <3>3, ScreenAssumption DEF MayAgain, ClaimsFit
    <3>6. CASE shots' = shots /\ camera' = camera
      BY <1>1, <1>2, <3>1, <3>4, <3>6 DEF ClaimsFit, CameraFits, OnePerInterval, LastTaken, Shots
    <3>7. CASE /\ shots' = Append(shots, [app |-> app, at |-> now]) /\ camera = None
               /\ camera' = [shot |-> Len(shots) + 1, saved |-> FALSE]
      <4> DEFINE shot == [app |-> app, at |-> now]
      <4>1. shot \in [app : Listed, at : 0..MaxTime] /\ shot.app = app /\ shot.at = now
        BY <2>2, <3>1
      <4> HIDE DEF shot
      <4>2. /\ shots' \in Seq([app : Listed, at : 0..MaxTime]) /\ Len(shots') = Len(shots) + 1
            /\ \A i \in 1..Len(shots) : shots'[i] = shots[i]
            /\ shots'[Len(shots) + 1] = shot
            /\ \A i \in 1..Len(shots') : i \in 1..Len(shots) \/ i = Len(shots) + 1
        BY <1>2, <3>7, <4>1, AppendProperties DEF shot
      <4>3. \A i \in 1..Len(shots') :
              claimed'[shots'[i].app] # None /\ shots'[i].at <= claimed'[shots'[i].app]
        BY <3>1, <3>4, <4>1, <4>2
      <4>4. OnePerInterval'
        <5>1. DOMAIN shots = 1..Len(shots) /\ DOMAIN shots' = 1..Len(shots')
          BY <1>2, <4>2, LenProperties
        <5> SUFFICES ASSUME NEW i \in 1..Len(shots'), NEW j \in 1..Len(shots'),
                            i < j, shots'[i].app = shots'[j].app
                     PROVE  shots'[j].at - shots'[i].at >= Interval
          BY <5>1 DEF OnePerInterval
        <5>2. i \in 1..Len(shots) /\ shots'[i] = shots[i]
          BY <1>2, <4>2
        <5>3. CASE j \in 1..Len(shots)
          BY <4>2, <5>1, <5>2, <5>3 DEF ClaimsFit, OnePerInterval
        <5>4. CASE j = Len(shots) + 1
          BY <3>5, <4>1, <4>2, <5>2, <5>4
        <5> QED
          BY <4>2, <5>3, <5>4
      <4>5. ClaimsFit'
        <5>1. Len(shots') <= MaxShots
          BY <1>2, <2>2, <4>2, ScreenAssumption
        <5>2. \A a \in Listed : claimed'[a] # None => claimed'[a] <= now'
          BY <1>1, <3>1 DEF ClaimsFit
        <5>3. now' \in 0..MaxTime
          BY <1>1, <3>1
        <5> QED
          BY <3>1, <4>2, <4>3, <4>4, <5>1, <5>2, <5>3 DEF ClaimsFit
      <4>6. camera' \in [shot : Shots, saved : BOOLEAN] /\ camera'.shot = Len(shots')
        <5>1. Len(shots) + 1 \in Shots
          BY <1>2, <2>2, ScreenAssumption DEF Shots
        <5> QED
          BY <3>7, <4>2, <5>1
      <4>7. LastTaken = Len(shots) /\ LastTaken' \in {Len(shots'), Len(shots') - 1}
        BY <3>7 DEF LastTaken
      <4> QED
        BY <1>1, <1>2, <4>2, <4>5, <4>6, <4>7 DEF CameraFits, Shots
    <3> QED
      BY <2>2, <3>6, <3>7 DEF Line, Claim
  <2> QED
    BY <2>1, <2>2 DEF Line, Claim
<1>4. ToldFits'
  <2>1. 1..LastTaken \subseteq 1..LastTaken'
    BY <1>3
  <2>2. Len(told) <= LastTaken' /\ told' = told
    BY <1>1, <1>3 DEF ToldFits
  <2> QED
    BY <2>1, <2>2 DEF ToldFits
<1>5. QueueFits(waiting, reading, readings, unread, LastTaken')
  BY <1>3, MoreWereTaken
<1> QED
  BY <1>1, <1>3, <1>4, <1>5 DEF CountsFit, EveryPictureIsAccountedFor

\* The camera lets go without a picture, the clock goes on, a picture is saved or deleted: what
\* is queued is as it was.
LEMMA IdleKeeps ==
  ASSUME ScreenInv,
         \/ Saves \/ Refused \/ Deadline \/ Tick \/ (\E shot \in disk : Deletes(shot))
         \/ UNCHANGED vars
  PROVE  ScreenInv'
<1> USE DEF ScreenInv
<1>1. UNCHANGED <<claimed, shots, told, waiting, reading, dropped, unread, readings>>
  BY DEF Saves, Refused, LetGo, Deadline, Tick, Deletes, vars, watch, queue
<1>2. ClaimsFit'
  <2>1. now' \in 0..MaxTime /\ now <= now' /\ now \in Nat /\ now' \in Nat
    BY ScreenAssumption DEF Saves, Refused, Deadline, Tick, Deletes, vars, ClaimsFit
  <2>2. \A a \in Listed : claimed[a] # None => claimed[a] \in Nat /\ claimed[a] <= now'
    BY <2>1 DEF ClaimsFit
  <2> QED
    BY <1>1, <2>1, <2>2 DEF ClaimsFit, OnePerInterval
<1>3. CameraFits'
  BY <1>1 DEF Saves, Refused, LetGo, Deadline, Tick, Deletes, vars, CameraFits
<1>4. LastTaken \in Nat /\ LastTaken' \in Nat /\ LastTaken <= LastTaken'
  <2>1. camera' = None \/ (camera' # None /\ camera # None) \/ camera' = camera
    BY DEF Saves, Refused, LetGo, Deadline, Tick, Deletes, vars
  <2>2. Len(shots) \in Nat /\ (camera # None => Len(shots) \in Nat \ {0})
    BY DEF ClaimsFit, CameraFits, Shots
  <2> QED
    BY <1>1, <2>1, <2>2 DEF LastTaken
<1>5. ToldFits'
  <2>1. 1..LastTaken \subseteq 1..LastTaken'
    BY <1>4
  <2>2. Len(told) <= LastTaken' /\ told' = told
    BY <1>1, <1>4 DEF ToldFits
  <2> QED
    BY <2>1, <2>2 DEF ToldFits
<1>6. QueueFits(waiting, reading, readings, unread, LastTaken')
  BY <1>4, MoreWereTaken
<1> QED
  BY <1>1, <1>2, <1>3, <1>5, <1>6 DEF CountsFit, EveryPictureIsAccountedFor

\* A picture that is there is told of, and joins the queue.
LEMMA ReportedKeeps == ASSUME ScreenInv, Reported PROVE ScreenInv'
<1> USE DEF ScreenInv
<1>1. /\ camera # None /\ camera' = None
      /\ UNCHANGED <<now, claimed, shots, disk, unread, readings>>
  BY DEF Reported, LetGo, watch
<1>2. /\ Len(shots) \in Nat \ {0} /\ camera.shot = Len(shots)
      /\ LastTaken = Len(shots) - 1 /\ LastTaken' = Len(shots)
      /\ LastTaken \in Nat /\ LastTaken' \in Nat /\ LastTaken' = LastTaken + 1
  BY <1>1 DEF ClaimsFit, CameraFits, Shots, LastTaken
<1>3. ClaimsFit' /\ CameraFits'
  BY <1>1 DEF ClaimsFit, CameraFits, OnePerInterval
<1>4. CASE camera.shot \notin disk
  <2>1. UNCHANGED <<told, waiting, reading, dropped>>
    BY <1>4 DEF Reported
  <2>2. ToldFits'
    <3>1. 1..LastTaken \subseteq 1..LastTaken'
      BY <1>2
    <3>2. Len(told) <= LastTaken' /\ told' = told
      BY <1>2, <2>1 DEF ToldFits
    <3> QED
      BY <3>1, <3>2 DEF ToldFits
  <2>3. QueueFits(waiting, reading, readings, unread, LastTaken')
    BY <1>2, MoreWereTaken
  <2> QED
    BY <1>1, <1>3, <2>1, <2>2, <2>3 DEF CountsFit, EveryPictureIsAccountedFor
<1>5. CASE camera.shot \in disk
  <2> DEFINE line == Append(Room(waiting), LastTaken + 1)
             lost == Len(waiting) - Len(Room(waiting))
  <2>1. /\ told' = Append(told, LastTaken + 1) /\ dropped' = dropped + lost
        /\ waiting' = IF reading # None \/ line = <<>> THEN line ELSE Tail(line)
        /\ reading' = IF reading # None \/ line = <<>> THEN reading ELSE Head(line)
    BY <1>2, <1>5 DEF Reported, Push, Pump
  <2>2. /\ QueueFits(waiting', reading', readings, unread, LastTaken + 1)
        /\ Len(waiting') <= MaxWaiting
        /\ lost \in {0, 1}
        /\ InLine(waiting, reading) + 1 = InLine(waiting', reading') + lost
    <3>1. QueueFits(waiting, reading, readings, unread, LastTaken) /\ Len(waiting) <= MaxWaiting
      OBVIOUS
    <3> DEFINE w2 == IF reading # None \/ line = <<>> THEN line ELSE Tail(line)
               r2 == IF reading # None \/ line = <<>> THEN reading ELSE Head(line)
    <3>2. /\ QueueFits(w2, r2, readings, unread, LastTaken + 1) /\ Len(w2) <= MaxWaiting
          /\ lost \in {0, 1}
          /\ InLine(waiting, reading) + 1 = InLine(w2, r2) + lost
      <4>1. LastTaken \in Nat
        BY <1>2
      <4> HIDE DEF ScreenInv
      <4> QED
        BY <3>1, <4>1, PushKeeps
    <3> HIDE DEF ScreenInv, lost, line, w2, r2
    <3>3. waiting' = w2 /\ reading' = r2
      BY <2>1 DEF w2, r2
    <3> QED
      BY <3>2, <3>3
  <2>3. told \in Seq(Nat) /\ Rising(told) /\ \A i \in 1..Len(told) : told[i] < LastTaken + 1
    BY <1>2 DEF ToldFits
  <2>4. told' \in Seq(Nat) /\ Len(told') = Len(told) + 1 /\ Rising(told')
    <3>1. LastTaken + 1 \in Nat
      BY <1>2
    <3>2. /\ Append(told, LastTaken + 1) \in Seq(Nat)
          /\ Len(Append(told, LastTaken + 1)) = Len(told) + 1
      BY <2>3, <3>1, AppendIs
    <3>3. Rising(Append(told, LastTaken + 1))
      BY <2>3, <3>1, AppendRises
    <3> QED
      BY <2>1, <3>2, <3>3
  <2>5. \A i \in 1..Len(told') : told'[i] \in 1..(LastTaken + 1)
    <3>1. \A i \in 1..Len(told) : told[i] \in 1..(LastTaken + 1)
      BY <1>2 DEF ToldFits
    <3> QED
      <4>1. /\ Append(told, LastTaken + 1)[Len(told')] = LastTaken + 1
            /\ \A i \in 1..Len(told) : told'[i] = told[i]
            /\ \A i \in 1..Len(told') : i \in 1..Len(told) \/ i = Len(told')
        BY <1>2, <2>1, <2>3, AppendIs
      <4>2. LastTaken + 1 \in 1..(LastTaken + 1)
        BY <1>2
      <4> QED
        BY <2>1, <3>1, <4>1, <4>2
  <2>6. ToldFits'
    <3>1. Len(told) + 1 <= LastTaken + 1
      BY <1>2, <2>3 DEF ToldFits
    <3> QED
      BY <1>2, <2>4, <2>5, <3>1 DEF ToldFits
  <2>7. CountsFit'
    <3> HIDE DEF line, lost
    <3>1. Len(told) = InLine(waiting, reading) + dropped + Cardinality(unread) + Len(readings)
      BY DEF CountsFit, EveryPictureIsAccountedFor, InLine
    <3>2. /\ dropped \in Nat /\ Cardinality(unread) \in Nat /\ Len(readings) \in Nat
          /\ lost \in Nat
      BY <2>2, FS_CardinalityType DEF CountsFit, QueueFits
    <3>3. InLine(waiting, reading) \in Nat /\ InLine(waiting', reading') \in Nat
      BY <2>2 DEF InLine, QueueFits
    <3>4. Len(told) + 1
            = InLine(waiting', reading') + (dropped + lost) + Cardinality(unread) + Len(readings)
      <4>1. InLine(waiting, reading) + 1 = InLine(waiting', reading') + lost
        BY <2>2
      <4> DEFINE line0 == InLine(waiting, reading)
                 rest == InLine(waiting', reading')
                 a == Cardinality(unread)
                 b == Len(readings)
                 m == Len(told)
      <4> HIDE DEF ScreenInv, line0, rest, a, b, m
      <4>2. /\ line0 \in Nat /\ rest \in Nat /\ lost \in Nat /\ dropped \in Nat
            /\ a \in Nat /\ b \in Nat
        BY <3>2, <3>3 DEF line0, rest, a, b
      <4>3. line0 + 1 = rest + lost /\ m = line0 + dropped + a + b
        BY <3>1, <4>1 DEF line0, rest, a, b, m
      <4>4. m + 1 = rest + (dropped + lost) + a + b
        BY <4>2, <4>3
      <4> QED
        BY <4>4 DEF rest, a, b, m
    <3>5. dropped' \in Nat
      BY <2>1, <3>2
    <3> QED
      BY <1>1, <2>1, <2>4, <3>4, <3>5 DEF CountsFit, EveryPictureIsAccountedFor, InLine
  <2> QED
    BY <1>1, <1>2, <1>3, <2>2, <2>6, <2>7
<1> QED
  BY <1>4, <1>5

LEMMA OneMovesOn ==
  ASSUME NEW line \in Nat, NEW rest \in Nat, line = rest + 1, NEW lost \in Nat,
         NEW a \in Nat, NEW b \in Nat, NEW c \in Nat, NEW d \in Nat, c + d = a + b + 1
  PROVE  line + lost + a + b = rest + lost + c + d
OBVIOUS

\* A picture was read, or could not be.
LEMMA ReadKeeps == ASSUME ScreenInv, Reads \/ ReadFails PROVE ScreenInv'
<1> USE DEF ScreenInv
<1>1. /\ reading # None
      /\ UNCHANGED <<now, claimed, shots, camera, disk, told, dropped>>
      /\ waiting' = IF waiting = <<>> THEN waiting ELSE Tail(waiting)
      /\ reading' = IF waiting = <<>> THEN None ELSE Head(waiting)
      /\ \/ readings' = Append(readings, reading) /\ unread' = unread
         \/ readings' = readings /\ unread' = unread \cup {reading}
  BY DEF Reads, ReadFails, TakesUpTheNext, Pump, watch
<1>2. LastTaken' = LastTaken /\ LastTaken \in Nat
  BY <1>1 DEF LastTaken, ClaimsFit, CameraFits, Shots
<1>3. /\ QueueFits(waiting', reading', Append(readings, reading), unread, LastTaken)
      /\ QueueFits(waiting', reading', readings, unread \cup {reading}, LastTaken)
      /\ Len(waiting') <= MaxWaiting
      /\ InLine(waiting, reading) = InLine(waiting', reading') + 1
      /\ reading \notin unread /\ reading \in Nat
  BY <1>1, <1>2, NextKeeps
<1>4. QueueFits(waiting', reading', readings', unread', LastTaken')
  BY <1>1, <1>2, <1>3
<1>5. ClaimsFit' /\ CameraFits' /\ ToldFits'
  BY <1>1, <1>2 DEF ClaimsFit, CameraFits, ToldFits, OnePerInterval
<1>6. CountsFit'
  <2>1. Len(told) = InLine(waiting, reading) + dropped + Cardinality(unread) + Len(readings)
    BY DEF CountsFit, EveryPictureIsAccountedFor, InLine
  <2>2. /\ dropped \in Nat /\ Cardinality(unread) \in Nat /\ IsFiniteSet(unread)
        /\ readings \in Seq(Nat) /\ Len(readings) \in Nat
    BY FS_CardinalityType DEF CountsFit, QueueFits
  <2>3. InLine(waiting, reading) \in Nat /\ InLine(waiting', reading') \in Nat
    BY <1>3 DEF InLine, QueueFits
  <2>4. /\ Cardinality(unread \cup {reading}) = Cardinality(unread) + 1
        /\ Len(Append(readings, reading)) = Len(readings) + 1
    BY <1>3, <2>2, FS_AddElement, AppendProperties
  <2>5. ASSUME NEW c \in Nat, NEW n \in Nat, c + n = Cardinality(unread) + Len(readings) + 1
        PROVE  Len(told) = InLine(waiting', reading') + dropped + c + n
    <3> DEFINE line == InLine(waiting, reading)
               rest == InLine(waiting', reading')
               a == Cardinality(unread)
               b == Len(readings)
    <3>1. line \in Nat /\ rest \in Nat /\ line = rest + 1
      BY <1>3, <2>3
    <3>2. dropped \in Nat /\ a \in Nat /\ b \in Nat /\ c + n = a + b + 1
      BY <2>2, <2>5
    <3>3. Len(told) = line + dropped + a + b
      BY <2>1
    <3> HIDE DEF ScreenInv, line, rest, a, b
    <3>4. line + dropped + a + b = rest + dropped + c + n
      BY <3>1, <3>2, OneMovesOn
    <3> QED
      BY <3>3, <3>4 DEF rest
  <2>6. /\ Len(told) = InLine(waiting', reading') + dropped + Cardinality(unread)
                         + Len(Append(readings, reading))
        /\ Len(told) = InLine(waiting', reading') + dropped + Cardinality(unread \cup {reading})
                         + Len(readings)
    <3>1. /\ Cardinality(unread) + (Len(readings) + 1) = Cardinality(unread) + Len(readings) + 1
          /\ (Cardinality(unread) + 1) + Len(readings) = Cardinality(unread) + Len(readings) + 1
          /\ Cardinality(unread) + 1 \in Nat /\ Len(readings) + 1 \in Nat
      BY <2>2
    <3> QED
      BY <2>2, <2>4, <2>5, <3>1
  <2>7. Len(told) = InLine(waiting', reading') + dropped + Cardinality(unread') + Len(readings')
    BY <1>1, <2>6
  <2> QED
    BY <1>1, <2>2, <2>7 DEF CountsFit, EveryPictureIsAccountedFor, InLine
<1> QED
  BY <1>3, <1>4, <1>5, <1>6

LEMMA InvariantIsKept == ScreenInv /\ [Next]_vars => ScreenInv'
BY LineKeeps, IdleKeeps, ReportedKeeps, ReadKeeps DEF Next

\* The inductive invariant of AgentScreen: when each program was last claimed, and where every picture
\* told of is.
THEOREM ScreenInvariant == Spec => []ScreenInv
BY InvariantHoldsAtFirst, InvariantIsKept, PTL DEF Spec

----
(* What follows *)

\* The queue of readings stays within its ceiling, and no picture is told of or read twice.
THEOREM ScreenTypeCorrect == Spec => []TypeOK
<1>1. ScreenInv => TypeOK
  <2> SUFFICES ASSUME ScreenInv PROVE TypeOK
    OBVIOUS
  <2> USE DEF ScreenInv
  <2>1. \A q \in Seq(Nat) : Rising(q) => IsInjective(q)
    <3> SUFFICES ASSUME NEW q \in Seq(Nat), Rising(q), NEW i \in 1..Len(q), NEW j \in 1..Len(q),
                        q[i] = q[j]
                 PROVE  i = j
      BY LenProperties DEF IsInjective
    <3>1. q[i] \in Nat /\ q[j] \in Nat
      BY ElementOfSeq
    <3>2. ~(i < j) /\ ~(j < i)
      BY <3>1 DEF Rising
    <3> QED
      BY <3>2
  <2>2. LastTaken \in 0..MaxShots
    BY ScreenAssumption DEF LastTaken, ClaimsFit, CameraFits, Shots
  <2>3. unread \subseteq Shots /\ reading \in Shots \cup {None}
    BY <2>2, ScreenAssumption DEF QueueFits, Below, Shots
  <2>4. dropped \in 0..MaxShots
    <3>1. /\ dropped \in Nat /\ Cardinality(unread) \in Nat /\ Len(readings) \in Nat
          /\ Len(waiting) \in Nat /\ Len(told) \in Nat /\ Len(told) <= LastTaken
      BY FS_CardinalityType DEF CountsFit, QueueFits, ToldFits
    <3>2. dropped <= Len(told)
      BY <3>1 DEF CountsFit, EveryPictureIsAccountedFor
    <3> QED
      BY <2>2, <3>1, <3>2, ScreenAssumption
  <2>5. IsInjective(told) /\ IsInjective(readings)
    BY <2>1 DEF ToldFits, QueueFits
  <2> QED
    BY <2>3, <2>4, <2>5 DEF TypeOK, ClaimsFit, CameraFits
<1> QED
  BY <1>1, ScreenInvariant, PTL

\* CaptureSchedule.claim: no two pictures of one program are asked for within its interval,
\* whatever else is being photographed.
THEOREM NoProgramIsPhotographedTooOften == Spec => []OnePerInterval
<1>1. ScreenInv => OnePerInterval
  BY DEF ScreenInv, ClaimsFit
<1> QED
  BY <1>1, ScreenInvariant, PTL

\* createReadQueue: every picture the runtime was told of is waiting, read, failed or counted.
THEOREM PicturesAreAccountedFor == Spec => []EveryPictureIsAccountedFor
<1>1. ScreenInv => EveryPictureIsAccountedFor
  BY DEF ScreenInv, CountsFit
<1> QED
  BY <1>1, ScreenInvariant, PTL

\* createReadQueue: readings are sent in the order their pictures were taken.
THEOREM PicturesAreReadInOrder == Spec => []ReadInOrder
<1>1. ScreenInv => ReadInOrder
  BY LenProperties DEF ScreenInv, QueueFits, Rising, ReadInOrder
<1> QED
  BY <1>1, ScreenInvariant, PTL

----
(* What waits is the end of what was told of *)

Ends(w, t) == Len(w) <= Len(t) /\ \A i \in 1..Len(w) : w[i] = t[Len(t) - Len(w) + i]

LEMMA StartOf ==
  ASSUME NEW q \in Seq(Nat), NEW n \in Nat, n <= Len(q)
  PROVE  /\ SubSeq(q, 1, n) \in Seq(Nat) /\ Len(SubSeq(q, 1, n)) = n
         /\ \A i \in 1..n : SubSeq(q, 1, n)[i] = q[i]
<1>1. \A i \in 1..n : q[i] \in Nat
  <2>1. \A i \in 1..n : i \in 1..Len(q)
    BY LenProperties
  <2> QED
    BY <2>1, ElementOfSeq
<1>2. /\ SubSeq(q, 1, n) \in Seq(Nat) /\ Len(SubSeq(q, 1, n)) = IF 1 <= n THEN n - 1 + 1 ELSE 0
      /\ \A i \in 1..(n - 1 + 1) : SubSeq(q, 1, n)[i] = q[1 + i - 1]
  BY <1>1, SubSeqProperties
<1>3. n - 1 + 1 = n /\ (~(1 <= n) => n = 0) /\ \A i \in 1..n : 1 + i - 1 = i
  OBVIOUS
<1> QED
  BY <1>2, <1>3

LEMMA EndsIsSuffix ==
  ASSUME NEW w \in Seq(Nat), NEW t \in Seq(Nat), Ends(w, t)
  PROVE  IsSuffix(w, t)
<1> DEFINE a == Reverse(w)
           b == Reverse(t)
<1>1. Len(w) \in Nat /\ Len(t) \in Nat /\ Len(w) <= Len(t)
  BY DEF Ends
<1>2. /\ a \in Seq(Nat) /\ Len(a) = Len(w) /\ \A i \in 1..Len(w) : a[i] = w[(Len(w) - i) + 1]
      /\ b \in Seq(Nat) /\ Len(b) = Len(t) /\ \A i \in 1..Len(t) : b[i] = t[(Len(t) - i) + 1]
  <2>1. ASSUME NEW q \in Seq(Nat)
        PROVE  /\ Reverse(q) \in Seq(Nat) /\ Len(Reverse(q)) = Len(q)
               /\ \A i \in 1..Len(q) : Reverse(q)[i] = q[(Len(q) - i) + 1]
    <3>1. Len(q) \in Nat /\ \A i \in 1..Len(q) : q[(Len(q) - i) + 1] \in Nat
      BY ElementOfSeq
    <3>2. Reverse(q) \in [1..Len(q) -> Nat]
      BY <3>1 DEF Reverse
    <3>3. Reverse(q) \in Seq(Nat)
      <4>1. [1..Len(q) -> Nat] \subseteq Seq(Nat)
        BY <3>1, SeqDef
      <4> QED
        BY <3>2, <4>1
    <3>4. Len(Reverse(q)) = Len(q)
      BY <3>1, <3>2, <3>3, LenProperties
    <3> QED
      BY <3>3, <3>4 DEF Reverse
  <2> QED
    BY <2>1
<1> HIDE DEF a, b
<1>3. \A i \in 1..Len(w) : a[i] = b[i]
  <2> SUFFICES ASSUME NEW i \in 1..Len(w) PROVE a[i] = b[i]
    OBVIOUS
  <2>1. (Len(w) - i) + 1 \in 1..Len(w) /\ i \in 1..Len(t)
    BY <1>1
  <2>2. w[(Len(w) - i) + 1] = t[Len(t) - Len(w) + ((Len(w) - i) + 1)]
    BY <2>1 DEF Ends
  <2>3. Len(t) - Len(w) + ((Len(w) - i) + 1) = (Len(t) - i) + 1
    BY <1>1
  <2> QED
    BY <1>2, <2>1, <2>2, <2>3
<1>4. /\ SubSeq(a, 1, Len(a)) \in Seq(Nat) /\ Len(SubSeq(a, 1, Len(a))) = Len(w)
      /\ \A i \in 1..Len(w) : SubSeq(a, 1, Len(a))[i] = a[i]
  <2>1. Len(w) \in Nat /\ Len(w) <= Len(a) /\ a \in Seq(Nat) /\ Len(a) = Len(w)
    BY <1>1, <1>2
  <2>2. /\ SubSeq(a, 1, Len(w)) \in Seq(Nat) /\ Len(SubSeq(a, 1, Len(w))) = Len(w)
        /\ \A i \in 1..Len(w) : SubSeq(a, 1, Len(w))[i] = a[i]
    BY <2>1, StartOf
  <2> QED
    BY <2>1, <2>2
<1>5. /\ SubSeq(b, 1, Len(a)) \in Seq(Nat) /\ Len(SubSeq(b, 1, Len(a))) = Len(w)
      /\ \A i \in 1..Len(w) : SubSeq(b, 1, Len(a))[i] = b[i]
  <2>1. Len(w) \in Nat /\ Len(w) <= Len(b) /\ b \in Seq(Nat) /\ Len(a) = Len(w)
    BY <1>1, <1>2
  <2>2. /\ SubSeq(b, 1, Len(w)) \in Seq(Nat) /\ Len(SubSeq(b, 1, Len(w))) = Len(w)
        /\ \A i \in 1..Len(w) : SubSeq(b, 1, Len(w))[i] = b[i]
    BY <2>1, StartOf
  <2> QED
    BY <2>1, <2>2
<1>6. SubSeq(a, 1, Len(a)) = SubSeq(b, 1, Len(a))
  BY <1>3, <1>4, <1>5, SeqEqual
<1>7. Len(a) <= Len(b)
  BY <1>1, <1>2
<1> QED
  BY <1>6, <1>7 DEF IsSuffix, IsPrefix, a, b

LEMMA EndsMore ==
  ASSUME NEW w \in Seq(Nat), NEW t \in Seq(Nat), Ends(w, t), NEW n \in Nat
  PROVE  Ends(Append(w, n), Append(t, n))
<1> DEFINE a == Append(w, n)
           b == Append(t, n)
<1>1. /\ Len(w) \in Nat /\ Len(t) \in Nat /\ Len(w) <= Len(t)
      /\ Len(a) = Len(w) + 1 /\ a[Len(w) + 1] = n /\ \A i \in 1..Len(w) : a[i] = w[i]
      /\ Len(b) = Len(t) + 1 /\ b[Len(t) + 1] = n /\ \A i \in 1..Len(t) : b[i] = t[i]
  BY DEF Ends
<1> HIDE DEF a, b
<1>2. \A i \in 1..Len(a) : a[i] = b[Len(b) - Len(a) + i]
  <2> SUFFICES ASSUME NEW i \in 1..Len(a) PROVE a[i] = b[Len(b) - Len(a) + i]
    OBVIOUS
  <2>1. CASE i = Len(w) + 1
    BY <1>1, <2>1
  <2>2. CASE i \in 1..Len(w)
    <3>1. Len(t) - Len(w) + i \in 1..Len(t) /\ Len(b) - Len(a) + i = Len(t) - Len(w) + i
      BY <1>1, <2>2
    <3>2. w[i] = t[Len(t) - Len(w) + i]
      BY <2>2 DEF Ends
    <3> QED
      BY <1>1, <2>2, <3>1, <3>2
  <2> QED
    BY <1>1, <2>1, <2>2
<1>3. Len(a) <= Len(b)
  BY <1>1
<1> QED
  BY <1>2, <1>3 DEF Ends, a, b

LEMMA EndsLess ==
  ASSUME NEW w \in Seq(Nat), NEW t \in Seq(Nat), Ends(w, t), w # <<>>
  PROVE  Tail(w) \in Seq(Nat) /\ Ends(Tail(w), t)
<1> DEFINE a == Tail(w)
<1>1. /\ Len(w) \in Nat \ {0} /\ Len(t) \in Nat /\ Len(w) <= Len(t)
      /\ a \in Seq(Nat) /\ Len(a) = Len(w) - 1 /\ \A i \in 1..Len(a) : a[i] = w[i + 1]
  BY HeadTailProperties, EmptySeq DEF Ends
<1> HIDE DEF a
<1>2. \A i \in 1..Len(a) : a[i] = t[Len(t) - Len(a) + i]
  <2> SUFFICES ASSUME NEW i \in 1..Len(a) PROVE a[i] = t[Len(t) - Len(a) + i]
    OBVIOUS
  <2>1. i + 1 \in 1..Len(w) /\ Len(t) - Len(w) + (i + 1) = Len(t) - Len(a) + i
    BY <1>1
  <2>2. w[i + 1] = t[Len(t) - Len(w) + (i + 1)]
    BY <2>1 DEF Ends
  <2> QED
    BY <1>1, <2>1, <2>2
<1>3. Len(a) <= Len(t)
  BY <1>1
<1> QED
  BY <1>1, <1>2, <1>3 DEF Ends, a

\* createReadQueue: when readings fall behind it is the oldest that go.
THEOREM TheNewestWait == Spec => []NewestKept
<1>1. Init => Ends(waiting, told)
  <2>1. Len(<<>>) = 0
    OBVIOUS
  <2> QED
    BY <2>1 DEF Init, Ends
<1>2. ScreenInv /\ Ends(waiting, told) /\ [Next]_vars => Ends(waiting, told)'
  <2> SUFFICES ASSUME ScreenInv, Ends(waiting, told), [Next]_vars PROVE Ends(waiting', told')
    OBVIOUS
  <2>1. waiting \in Seq(Nat) /\ told \in Seq(Nat)
    BY DEF ScreenInv, QueueFits, ToldFits
  <2>2. CASE UNCHANGED <<waiting, told>>
    BY <2>2
  <2>3. CASE Reads \/ ReadFails
    <3>1. told' = told /\ waiting' \in {waiting, Tail(waiting)}
          /\ (waiting = <<>> => waiting' = waiting)
      BY <2>3 DEF Reads, ReadFails, TakesUpTheNext, Pump
    <3> QED
      BY <2>1, <3>1, EndsLess
  <2>4. CASE Reported
    <3> DEFINE n == camera.shot
               line == Append(Room(waiting), n)
    <3>1. CASE n \notin disk
      BY <2>2, <2>4, <3>1 DEF Reported
    <3>2. CASE n \in disk
      <4>1. /\ told' = Append(told, n)
            /\ waiting' = line \/ (line # <<>> /\ waiting' = Tail(line))
        BY <2>4, <3>2 DEF Reported, Push, Pump
      <4>2. n \in Nat
        <5>1. disk \subseteq Shots
          BY DEF ScreenInv, CameraFits
        <5> QED
          <6>1. MaxShots \in Nat
            BY ScreenAssumption
          <6>2. Shots \subseteq Nat
            BY <6>1 DEF Shots
          <6> QED
            BY <3>2, <5>1, <6>2
      <4>3. Room(waiting) \in Seq(Nat) /\ Ends(Room(waiting), told)
        <5>1. Len(waiting) >= MaxWaiting => waiting # <<>>
          BY <2>1, ScreenAssumption, EmptySeq
        <5> QED
          BY <2>1, <5>1, EndsLess DEF Room
      <4>4. line \in Seq(Nat) /\ Append(told, n) \in Seq(Nat) /\ Ends(line, Append(told, n))
        BY <2>1, <4>2, <4>3, EndsMore, AppendProperties
      <4> HIDE DEF line
      <4> QED
        BY <4>1, <4>4, EndsLess
    <3> QED
      BY <3>1, <3>2
  <2> QED
    BY <2>2, <2>3, <2>4
       DEF Next, Line, Saves, Refused, Deadline, Deletes, Tick, vars, queue
<1>3. ScreenInv /\ Ends(waiting, told) => NewestKept
  BY EndsIsSuffix DEF ScreenInv, QueueFits, ToldFits, NewestKept
<1> QED
  BY <1>1, <1>2, <1>3, ScreenInvariant, PTL DEF Spec

\* shape.ts, createReadQueue: no picture goes astray between the camera and the model.
THEOREM NoPictureGoesAstray == Spec => []PicturesAreKept
<1>1. EveryPictureIsAccountedFor /\ ReadInOrder /\ NewestKept => PicturesAreKept
  BY DEF PicturesAreKept
<1> QED
  BY <1>1, PicturesAreAccountedFor, PicturesAreReadInOrder, TheNewestWait, PTL
================================================================================
