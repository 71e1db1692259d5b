-------------------------- MODULE ContentScript_proofs --------------------------
(* Theorems about ContentScript, for any absences, any page and any number of       *)
(* refusals: every interaction is reported once, the longest absence is never       *)
(* forgotten untold, and the page remembered is the one the worker took.  Then      *)
(* theorems about the connection of a page of our own (Connection), and at the end  *)
(* about a page's morphs (MorphTree, MorphSession): what a guarded application      *)
(* gives back undoes it, the undo stacks hold what undoes the page, and the lessons *)
(* taught are those of the patches that still stand.                                *)
EXTENDS MCBrowser, TLAPS, SequenceTheorems, FiniteSetTheorems, WellFoundedInduction

----
(* The inductive invariant *)

Messages ==
  [kind : {"visibility", "interaction", "idle", "page"}, what : Nat \cup Shapes]

\* What a stage has in flight: a batch of what is counted, an idle spell, whether an absence
\* is, a shape of the page.
CycleFits ==
  \/ cycle = None
  \/ cycle.stage = "interaction" /\ cycle.sent \in (1..count) \cup {None}
  \/ cycle.stage = "idle" /\ cycle.sent \in Nat \cup {None}
  \/ cycle.stage = "away" /\ cycle.sent \in BOOLEAN
  \/ cycle.stage = "page" /\ cycle.sent \in Shapes \cup {None}

ScriptTypes ==
  /\ bumps \in 0..MaxBumps /\ count \in 0..MaxBumps /\ count <= bumps
  /\ idles \in Nat /\ idle \in BOOLEAN /\ idleReported \in BOOLEAN
  /\ looks \in [shape : Shapes, changes : Nat] /\ lastShape \in Shapes \cup {None}
  /\ taken \in Seq(Messages)
  /\ CycleFits

\* There is a longest absence, and it was heard of or is still to be.
AbsencesFit ==
  /\ aways \subseteq Absences
  /\ away \in aways \cup {None} /\ report \in aways \cup {None}
  /\ aways # {} => \E longest \in aways :
                     /\ \A length \in aways : length <= longest
                     /\ longest \in Kind("visibility") \cup {away}

ScriptInv == ScriptTypes /\ AbsencesFit

----
(* Every step keeps the invariant *)

LEMMA InvariantHoldsAtFirst == Init => ScriptInv
<1> SUFFICES ASSUME Init PROVE ScriptInv
  OBVIOUS
<1>1. <<>> \in Seq(Messages)
  OBVIOUS
<1>2. looks \in [shape : Shapes, changes : Nat]
  BY ContentScriptAssumption DEF Init
<1>3. MaxBumps \in Nat
  BY ContentScriptAssumption
<1>4. AbsencesFit
  BY DEF Init, AbsencesFit
<1>5. CycleFits
  BY DEF Init, CycleFits
<1>6. /\ bumps \in 0..MaxBumps /\ count \in 0..MaxBumps /\ count <= bumps
      /\ idles \in Nat
  BY <1>3 DEF Init
<1>7. idle \in BOOLEAN /\ idleReported \in BOOLEAN
  BY DEF Init
<1>8. lastShape \in Shapes \cup {None} /\ taken \in Seq(Messages)
  BY <1>1 DEF Init
<1>9. ScriptTypes
  BY <1>2, <1>5, <1>6, <1>7, <1>8 DEF ScriptTypes
<1> QED
  BY <1>4, <1>9 DEF ScriptInv

\* A message that is taken is one more; nothing taken is lost.
LEMMA TakesAdds ==
  ASSUME ScriptTypes, NEW kind \in {"visibility", "interaction", "idle", "page"},
         NEW what \in Nat \cup Shapes, Takes(kind, what)
  PROVE  /\ taken' \in Seq(Messages)
         /\ \A k : Kind(k) \subseteq Kind(k)'
         /\ what \in Kind(kind)'
<1> DEFINE message == Message(kind, what)
<1>1. message \in Messages /\ message.kind = kind /\ message.what = what
  BY DEF Message, Messages
<1>2. taken' = Append(taken, message) /\ taken \in Seq(Messages)
  BY DEF Takes, ScriptTypes
<1> HIDE DEF message
<1>3. /\ taken' \in Seq(Messages) /\ Len(taken') = Len(taken) + 1
      /\ \A i \in 1..Len(taken) : taken'[i] = taken[i]
      /\ taken'[Len(taken) + 1] = message
  BY <1>1, <1>2, AppendProperties
<1>4. /\ DOMAIN taken = 1..Len(taken) /\ DOMAIN taken' = 1..Len(taken')
      /\ Len(taken) \in Nat
  BY <1>2, <1>3, LenProperties
<1>5. \A i \in 1..Len(taken) : i \in 1..Len(taken')
  BY <1>3, <1>4
<1>6. Len(taken) + 1 \in 1..Len(taken')
  BY <1>3, <1>4
<1>7. \A k : Kind(k) \subseteq Kind(k)'
  BY <1>3, <1>4, <1>5 DEF Kind
<1>8. what \in Kind(kind)'
  BY <1>1, <1>3, <1>4, <1>6 DEF Kind
<1> QED
  BY <1>3, <1>7, <1>8

\* Absences are as they were, and more may have been heard of them.
LEMMA AbsencesStay ==
  ASSUME ScriptInv, UNCHANGED <<aways, away>>, report' \in {report, away, None},
         Kind("visibility") \subseteq Kind("visibility")'
  PROVE  AbsencesFit'
BY DEF ScriptInv, AbsencesFit

\* The longest absence nobody has heard of is kept.
LEMMA ReturnKeeps == ASSUME ScriptInv, NEW length \in Absences, Returns(length) PROVE ScriptInv'
<1> USE DEF ScriptInv
<1>1. /\ length \notin aways /\ aways' = aways \cup {length}
      /\ away' = Larger(away, length)
      /\ report' \in {report, away'}
      /\ UNCHANGED <<bumps, count, idle, idles, idleReported, looks, lastShape, cycle, taken>>
  BY DEF Returns, counters, page
<1>2. ScriptTypes'
  BY <1>1 DEF ScriptTypes, CycleFits
<1>3. Kind("visibility")' = Kind("visibility")
  BY <1>1 DEF Kind
<1>4. /\ aways \subseteq Nat /\ length \in Nat /\ None \notin Nat
      /\ away \in aways \cup {None}
  BY ContentScriptAssumption DEF AbsencesFit
<1>5. away' \in aways' \cup {None} /\ report' \in aways' \cup {None} /\ aways' \subseteq Absences
  BY <1>1 DEF AbsencesFit, Larger
<1>6. \E longest \in aways' :
        /\ \A other \in aways' : other <= longest
        /\ longest \in Kind("visibility")' \cup {away'}
  <2>1. CASE aways = {}
    <3>1. away' = length
      BY <1>1, <1>4, <2>1 DEF Larger
    <3> QED
      BY <1>1, <1>4, <2>1, <3>1
  <2>2. CASE aways # {}
    <3>1. PICK longest \in aways : /\ \A other \in aways : other <= longest
                                   /\ longest \in Kind("visibility") \cup {away}
      BY <2>2 DEF AbsencesFit
    <3>2. CASE length > longest
      <4>1. \A other \in aways : other < length /\ other <= length
        BY <1>4, <3>1, <3>2
      <4>2. away' = length
        BY <1>1, <1>4, <4>1 DEF Larger
      <4> QED
        BY <1>1, <1>4, <4>1, <4>2
    <3>3. CASE ~(length > longest)
      <4>1. longest = away => away' = longest
        BY <1>1, <1>4, <3>1, <3>3 DEF Larger
      <4>2. length <= longest
        BY <1>4, <3>1, <3>3
      <4> QED
        BY <1>1, <1>3, <3>1, <4>1, <4>2
    <3> QED
      BY <3>2, <3>3
  <2> QED
    BY <2>1, <2>2
<1> QED
  BY <1>2, <1>5, <1>6 DEF AbsencesFit

\* The report that was taken is heard of; one that was not is still to be made.
LEMMA HeardKeeps == ASSUME ScriptInv, Heard PROVE ScriptInv'
<1> USE DEF ScriptInv
<1>1. /\ report # None /\ report' = None
      /\ UNCHANGED <<bumps, count, idle, idles, idleReported, looks, lastShape, aways, cycle>>
  BY DEF Heard, counters, page
<1>2. report \in aways /\ report \in Nat \cup Shapes
  BY <1>1, ContentScriptAssumption DEF AbsencesFit
<1>3. CASE Takes("visibility", report) /\ away' = LeftToTell(away, report)
  <2>1. /\ taken' \in Seq(Messages)
        /\ Kind("visibility") \subseteq Kind("visibility")' /\ report \in Kind("visibility")'
    BY <1>2, <1>3, TakesAdds
  <2>2. away' = (IF away = report THEN None ELSE away)
    BY <1>3 DEF LeftToTell
  <2>3. AbsencesFit'
    BY <1>1, <2>1, <2>2 DEF AbsencesFit
  <2>4. ScriptTypes'
    BY <1>1, <2>1 DEF ScriptTypes, CycleFits
  <2> QED
    BY <2>3, <2>4
<1>4. CASE Refuses /\ UNCHANGED away
  <2>1. taken' = taken
    BY <1>4 DEF Refuses
  <2>2. Kind("visibility")' = Kind("visibility")
    BY <2>1 DEF Kind
  <2> QED
    BY <1>1, <1>4, <2>1, <2>2, AbsencesStay DEF ScriptTypes, CycleFits
<1> QED
  BY <1>3, <1>4 DEF Heard

\* The person, and the stages of a tick that say nothing.
LEMMA QuietKeeps ==
  ASSUME ScriptInv, Bump \/ FallsIdle \/ PageChanges \/ Tick \/ Away \/ UNCHANGED vars
  PROVE  ScriptInv'
<1> USE DEF ScriptInv
<1>1. UNCHANGED <<aways, away, report, taken>>
  BY DEF Bump, FallsIdle, PageChanges, Tick, Away, vars, absence
<1>2. Kind("visibility")' = Kind("visibility")
  BY <1>1 DEF Kind
<1>3. AbsencesFit'
  BY <1>1, <1>2, AbsencesStay
<1>4. ScriptTypes'
  <2> USE DEF ScriptTypes
  <2>1. CASE Bump
    <3>1. count' = count + 1 /\ bumps' = bumps + 1 /\ bumps < MaxBumps /\ MaxBumps \in Nat
      BY <2>1, ContentScriptAssumption DEF Bump
    <3>2. \A n \in 1..count : n \in 1..(count + 1)
      OBVIOUS
    <3>3. count + 1 \in 0..MaxBumps /\ bumps + 1 \in 0..MaxBumps /\ count + 1 <= bumps + 1
      BY <3>1
    <3>4. CycleFits'
      BY <2>1, <3>1, <3>2 DEF Bump, CycleFits
    <3> QED
      BY <1>1, <2>1, <3>1, <3>3, <3>4 DEF Bump, page
  <2>2. CASE FallsIdle
    BY <1>1, <2>2 DEF FallsIdle, page, CycleFits
  <2>3. CASE PageChanges
    BY <1>1, <2>3 DEF PageChanges, counters, CycleFits
  <2>4. CASE Tick
    <3>1. (IF count > 0 THEN count ELSE None) \in (1..count) \cup {None}
      OBVIOUS
    <3>2. CycleFits'
      BY <2>4, <3>1 DEF Tick, Stage, CycleFits, counters
    <3> QED
      BY <1>1, <2>4, <3>2 DEF Tick, counters, page
  <2>5. CASE Away
    <3>1. CycleFits'
      BY <2>5 DEF Away, Stage, CycleFits
    <3> QED
      BY <1>1, <2>5, <3>1 DEF Away, counters, page
  <2>6. CASE UNCHANGED vars
    BY <1>1, <2>6 DEF vars, counters, page, CycleFits
  <2> QED
    BY <2>1, <2>2, <2>3, <2>4, <2>5, <2>6
<1> QED
  BY <1>3, <1>4

\* The batch that was taken is taken off what was counted, which has not gone down.
LEMMA InteractionKeeps == ASSUME ScriptInv, Interaction PROVE ScriptInv'
<1> USE DEF ScriptInv
<1>1. /\ UNCHANGED <<bumps, idle, idles, idleReported, looks, lastShape, aways, away, report>>
      /\ cycle.sent \in (1..count) \cup {None}
      /\ cycle' = Stage("idle", IF idle /\ ~idleReported THEN idles ELSE None)
  BY DEF Interaction, page, absence, ScriptTypes, CycleFits
<1>2. CycleFits'
  BY <1>1 DEF Stage, CycleFits, ScriptTypes
<1>3. CASE UNCHANGED <<count, taken>>
  <2>1. Kind("visibility")' = Kind("visibility")
    BY <1>3 DEF Kind
  <2> QED
    BY <1>1, <1>2, <1>3, <2>1, AbsencesStay DEF ScriptTypes
<1>4. CASE Takes("interaction", cycle.sent) /\ count' = count - cycle.sent /\ cycle.sent # None
  <2>1. cycle.sent \in 1..count /\ cycle.sent \in Nat
    BY <1>1, <1>4
  <2>2. taken' \in Seq(Messages) /\ Kind("visibility") \subseteq Kind("visibility")'
    BY <1>4, <2>1, TakesAdds
  <2>3. \A sent \in 1..count : count - sent \in 0..MaxBumps /\ count - sent <= bumps
    BY ContentScriptAssumption DEF ScriptTypes
  <2>4. count' \in 0..MaxBumps /\ count' <= bumps
    BY <1>4, <2>1, <2>3
  <2> QED
    BY <1>1, <1>2, <2>2, <2>4, AbsencesStay DEF ScriptTypes
<1> QED
  BY <1>3, <1>4 DEF Interaction, Refuses, Rest

LEMMA IdleKeeps == ASSUME ScriptInv, Idle PROVE ScriptInv'
<1> USE DEF ScriptInv
<1>1. /\ UNCHANGED <<bumps, count, idle, idles, looks, lastShape, aways, away>>
      /\ idleReported' \in BOOLEAN
      /\ report' \in {report, away}
      /\ cycle' = Stage("away", report = None /\ away # None)
      /\ cycle.sent \in Nat \cup {None}
  BY DEF Idle, page, absence, ScriptTypes, CycleFits
<1>2. CycleFits'
  BY <1>1 DEF Stage, CycleFits
<1>3. CASE taken' = taken
  <2>1. Kind("visibility")' = Kind("visibility")
    BY <1>3 DEF Kind
  <2> QED
    BY <1>1, <1>2, <1>3, <2>1, AbsencesStay DEF ScriptTypes
<1>4. CASE Takes("idle", cycle.sent) /\ cycle.sent # None
  <2>1. taken' \in Seq(Messages) /\ Kind("visibility") \subseteq Kind("visibility")'
    BY <1>1, <1>4, TakesAdds
  <2> QED
    BY <1>1, <1>2, <2>1, AbsencesStay DEF ScriptTypes
<1> QED
  BY <1>3, <1>4 DEF Idle, Refuses

LEMMA PageKeeps == ASSUME ScriptInv, Page PROVE ScriptInv'
<1> USE DEF ScriptInv
<1>1. /\ UNCHANGED <<bumps, count, idle, idles, idleReported, looks, aways, away, report>>
      /\ cycle' = None
      /\ cycle.sent \in Shapes \cup {None}
  BY DEF Page, Unlocked, counters, absence, ScriptTypes, CycleFits
<1>2. CASE UNCHANGED <<lastShape, taken>>
  <2>1. Kind("visibility")' = Kind("visibility")
    BY <1>2 DEF Kind
  <2> QED
    BY <1>1, <1>2, <2>1, AbsencesStay DEF ScriptTypes, CycleFits
<1>3. CASE Takes("page", cycle.sent) /\ lastShape' = cycle.sent /\ cycle.sent # None
  <2>1. taken' \in Seq(Messages) /\ Kind("visibility") \subseteq Kind("visibility")'
    BY <1>1, <1>3, TakesAdds
  <2> QED
    BY <1>1, <1>3, <2>1, AbsencesStay DEF ScriptTypes, CycleFits
<1> QED
  BY <1>2, <1>3 DEF Page, Refuses, Remembers

LEMMA InvariantIsKept == ScriptInv /\ [Next]_vars => ScriptInv'
BY ReturnKeeps, HeardKeeps, QuietKeeps, InteractionKeeps, IdleKeeps, PageKeeps DEF Next

\* The inductive invariant of ContentScript: what a stage has in flight was there to send, and there
\* is a longest absence, heard of or still to be told.
THEOREM ScriptInvariant == Spec => []ScriptInv
BY InvariantHoldsAtFirst, InvariantIsKept, PTL DEF Spec

----
(* What follows *)

\* No more is taken off the count than was counted, and every report says what its stage sends.
THEOREM ScriptTypeCorrect == Spec => []TypeOK
<1>1. ScriptInv => TypeOK
  BY DEF ScriptInv, ScriptTypes, CycleFits, AbsencesFit, TypeOK
<1> QED
  BY <1>1, ScriptInvariant, PTL

\* content.ts: the longest absence there was is heard of or still to be told; the report that
\* arrives does not wipe out a longer one recorded while it was in flight.
THEOREM TheLongestAbsenceIsKept == Spec => []LongestAbsenceIsKept
<1>1. ScriptInv => LongestAbsenceIsKept
  <2> SUFFICES ASSUME ScriptInv, aways # {}
               PROVE  Max(aways) \in Kind("visibility") \cup {away}
    BY DEF LongestAbsenceIsKept
  <2>1. PICK longest \in aways : /\ \A length \in aways : length <= longest
                                 /\ longest \in Kind("visibility") \cup {away}
    BY DEF ScriptInv, AbsencesFit
  <2>2. aways \subseteq Nat
    BY ContentScriptAssumption DEF ScriptInv, AbsencesFit
  <2>3. \A length \in aways : longest >= length
    BY <2>1, <2>2
  <2>4. Max(aways) \in aways /\ \A length \in aways : Max(aways) >= length
    BY <2>3 DEF Max
  <2>5. Max(aways) <= longest /\ longest <= Max(aways)
    BY <2>1, <2>2, <2>4
  <2>6. Max(aways) \in Nat /\ longest \in Nat
    BY <2>1, <2>2, <2>4
  <2>7. \A m, n \in Nat : m <= n /\ n <= m => m = n
    OBVIOUS
  <2>8. Max(aways) = longest
    BY <2>5, <2>6, <2>7, Zenon
  <2> QED
    BY <2>1, <2>8, Zenon
<1> QED
  BY <1>1, ScriptInvariant, PTL

\* content.ts, tick: every interaction is reported once.  A batch is taken off the count when it
\* was taken, so what happened while it was in flight is still counted, and one that was refused
\* is counted on.
THEOREM EveryInteractionIsReportedOnce == Spec => []CountsAddUp
<1> DEFINE Counted == reported \in Nat /\ reported + count = bumps
<1>1. Init => Counted
  BY DEF Init
<1>2. ScriptInv /\ Counted /\ [Next]_vars => Counted'
  <2> SUFFICES ASSUME ScriptInv, Counted, [Next]_vars PROVE Counted'
    OBVIOUS
  <2>0. count \in Nat /\ bumps \in Nat
    BY ContentScriptAssumption DEF ScriptInv, ScriptTypes
  <2>1. CASE Bump
    BY <2>0, <2>1 DEF Bump
  <2>2. CASE Interaction
    <3>1. CASE UNCHANGED <<count, reported>>
      BY <2>2, <3>1 DEF Interaction
    <3>2. CASE cycle.sent # None /\ count' = count - cycle.sent /\ reported' = reported + cycle.sent
      <4>1. cycle.sent \in 1..count
        BY <2>2, <3>2 DEF Interaction, ScriptInv, ScriptTypes, CycleFits
      <4>2. bumps' = bumps
        BY <2>2 DEF Interaction
      <4> QED
        BY <2>0, <3>2, <4>1, <4>2
    <3> QED
      BY <2>2, <3>1, <3>2 DEF Interaction, Rest
  <2>3. CASE UNCHANGED <<count, reported, bumps>>
    BY <2>3
  <2> QED
    BY <2>1, <2>2, <2>3
       DEF Next, FallsIdle, PageChanges, Returns, Heard, Tick, Idle, Away, Page, counters, vars
<1>3. Counted => CountsAddUp
  BY DEF CountsAddUp
<1> QED
  BY <1>1, <1>2, <1>3, ScriptInvariant, PTL DEF Spec

\* The last page the worker took, if it took one, is the shape remembered.
LastPage(q, shape) ==
  \/ shape = None /\ \A i \in 1..Len(q) : q[i].kind # "page"
  \/ \E i \in 1..Len(q) :
       /\ q[i].kind = "page" /\ q[i].what = shape
       /\ \A j \in 1..Len(q) : q[j].kind = "page" => j <= i

LEMMA TakesLast ==
  ASSUME ScriptTypes, NEW kind \in {"visibility", "interaction", "idle", "page"},
         NEW what \in Nat \cup Shapes, Takes(kind, what), LastPage(taken, lastShape),
         lastShape' = IF kind = "page" THEN what ELSE lastShape
  PROVE  LastPage(taken', lastShape')
<1> DEFINE message == Message(kind, what)
           n == Len(taken) + 1
<1>1. message \in Messages /\ message.kind = kind /\ message.what = what
  BY DEF Message, Messages
<1>2. taken' = Append(taken, message) /\ taken \in Seq(Messages)
  BY DEF Takes, ScriptTypes
<1> HIDE DEF message
<1>3. /\ Len(taken') = n /\ taken'[n] = message
      /\ \A i \in 1..Len(taken) : taken'[i] = taken[i]
  BY <1>1, <1>2, AppendProperties
<1>4. Len(taken) \in Nat /\ n \in 1..n /\ \A i \in 1..n : i \in 1..Len(taken) \/ i = n
  BY <1>2, LenProperties
<1>5. CASE kind = "page"
  <2>1. \A j \in 1..n : j <= n
    BY <1>4
  <2> QED
    BY <1>1, <1>3, <1>4, <1>5, <2>1 DEF LastPage
<1>6. CASE kind # "page"
  <2>1. \A i \in 1..n : taken'[i].kind = "page" => i \in 1..Len(taken) /\ taken[i].kind = "page"
    BY <1>1, <1>3, <1>4, <1>6
  <2>2. \A i \in 1..Len(taken) : i \in 1..n
    BY <1>4
  <2> HIDE DEF n
  <2>3. CASE lastShape = None /\ \A i \in 1..Len(taken) : taken[i].kind # "page"
    BY <1>3, <1>6, <2>1, <2>3 DEF LastPage
  <2>4. ASSUME NEW i \in 1..Len(taken), taken[i].kind = "page", taken[i].what = lastShape,
               \A j \in 1..Len(taken) : taken[j].kind = "page" => j <= i
        PROVE  LastPage(taken', lastShape')
    BY <1>3, <1>6, <2>1, <2>2, <2>4 DEF LastPage
  <2> QED
    BY <2>3, <2>4 DEF LastPage
<1> QED
  BY <1>5, <1>6

\* content.ts, reportPage: the shape remembered as reported is the last one the worker took, so a
\* page that was refused is reported again.
THEOREM ThePageIsAsReported == Spec => []PageIsAsTheWorkerHasIt
<1>1. Init => LastPage(taken, lastShape)
  <2>1. Len(<<>>) = 0
    OBVIOUS
  <2> QED
    BY <2>1 DEF Init, LastPage
<1>2. ScriptInv /\ LastPage(taken, lastShape) /\ [Next]_vars => LastPage(taken, lastShape)'
  <2> SUFFICES ASSUME ScriptInv, LastPage(taken, lastShape), [Next]_vars
               PROVE  LastPage(taken', lastShape')
    OBVIOUS
  <2>0. ScriptTypes /\ AbsencesFit
    BY DEF ScriptInv
  <2>1. CASE Heard
    <3>1. report \in Nat \cup Shapes /\ lastShape' = lastShape
      BY <2>0, <2>1, ContentScriptAssumption DEF Heard, AbsencesFit, page
    <3> QED
      BY <2>0, <2>1, <3>1, TakesLast DEF Heard, Refuses
  <2>2. CASE Interaction
    <3>1. cycle.sent # None => cycle.sent \in Nat
      BY <2>0, <2>2 DEF Interaction, ScriptTypes, CycleFits
    <3> QED
      BY <2>0, <2>2, <3>1, TakesLast DEF Interaction, Refuses, page
  <2>3. CASE Idle
    <3>1. cycle.sent # None => cycle.sent \in Nat
      BY <2>0, <2>3 DEF Idle, ScriptTypes, CycleFits
    <3> QED
      BY <2>0, <2>3, <3>1, TakesLast DEF Idle, Refuses, page
  <2>4. CASE Page
    <3>1. cycle.sent # None => cycle.sent \in Shapes
      BY <2>0, <2>4 DEF Page, ScriptTypes, CycleFits
    <3> QED
      BY <2>0, <2>4, <3>1, TakesLast DEF Page, Refuses, Remembers
  <2>5. CASE UNCHANGED <<taken, lastShape>>
    BY <2>5
  <2> QED
    BY <2>1, <2>2, <2>3, <2>4, <2>5
       DEF Next, Bump, FallsIdle, PageChanges, Returns, Tick, Away, page, vars
<1>3. ScriptInv /\ LastPage(taken, lastShape) => PageIsAsTheWorkerHasIt
  <2> SUFFICES ASSUME taken \in Seq(Messages), LastPage(taken, lastShape)
               PROVE  PageIsAsTheWorkerHasIt
    BY DEF ScriptInv, ScriptTypes
  <2> DEFINE pages == {i \in DOMAIN taken : taken[i].kind = "page"}
  <2>1. DOMAIN taken = 1..Len(taken)
    BY LenProperties
  <2>2. CASE pages = {}
    BY <2>1, <2>2 DEF LastPage, PageIsAsTheWorkerHasIt
  <2>3. CASE pages # {}
    BY <2>1, <2>3 DEF LastPage, PageIsAsTheWorkerHasIt
  <2> QED
    BY <2>2, <2>3
<1> QED
  BY <1>1, <1>2, <1>3, ScriptInvariant, PTL DEF Spec

\* content.ts: what the worker was told of the page adds up to what happened on it, whatever
\* happened while a report was in flight and whichever reports were refused.
THEOREM TheReportsAddUp == Spec => []ReportsAddUp
<1>1. CountsAddUp /\ LongestAbsenceIsKept /\ PageIsAsTheWorkerHasIt => ReportsAddUp
  BY DEF ReportsAddUp
<1> QED
  BY <1>1, EveryInteractionIsReportedOnce, TheLongestAbsenceIsKept, ThePageIsAsReported, PTL

----
(* The connection of the page (Connection)                                          *)
(*                                                                                  *)
(* What the page shows of the server, for any number of switches, versions of the   *)
(* body and failed reconnects, mounted once or twice.  The clients that are not     *)
(* held were disconnected by hand, so the held one alone has a socket; and what is  *)
(* on its way to it, a patch or an answer, ends with the server's body.             *)

\* What a client is before the switch that makes it.
Unmade(c) ==
  ~manual[c] /\ ~wireTimer[c] /\ socket[c] = "none" /\ frames[c] = <<>>

\* The page, and its clients.
Flags ==
  /\ mode \in {"local", "connected"} /\ connected \in BOOLEAN /\ switching \in BOOLEAN
  /\ missed \in BOOLEAN /\ overtaken \in BOOLEAN
PageTypes ==
  /\ wireMade \in 0..MaxClients /\ current \in 0..wireMade
  /\ asked \in [by : 0..wireMade, answer : Nat] /\ asked.answer <= body
  /\ shown \in 0..body /\ body \in Nat \ {0}
ClientTypes ==
  /\ manual \in [Wire!Clients -> BOOLEAN] /\ wireTimer \in [Wire!Clients -> BOOLEAN]
  /\ attempts \in [Wire!Clients -> 0..MaxAttempts]
  /\ socket \in [Wire!Clients -> Wire!Live \cup {"none", "closing"}]
  /\ frames \in [Wire!Clients -> Seq(Nat)]
WireTypes == Flags /\ PageTypes /\ ClientTypes

\* One question at a time, of a switch under way; the local core has neither client nor server.
SwitchesFit ==
  /\ switching <=> asked.by # 0
  /\ mode = "local" => ~connected /\ current = 0 /\ shown = 0
  /\ wireMade = 0 => mode = "local"

\* A client that is not held was disconnected by hand, or is still to be made.
ClientsFit ==
  \A c \in Wire!Clients :
    /\ c > wireMade => Unmade(c)
    /\ c <= wireMade => (manual[c] <=> c # current)
    /\ socket[c] \in Wire!Live => c = current
    /\ wireTimer[c] => socket[c] = "none"
    /\ socket[c] = "open" => attempts[c] = 0
    /\ c = current => socket[c] \in Wire!Live \/ wireTimer[c] \/ attempts[c] = MaxAttempts

\* The patches on their way end with the server's body, and are no newer.
FramesFit ==
  \A c \in Wire!Clients :
    frames[c] # <<>> =>
      /\ socket[c] \in {"accepted", "open"}
      /\ frames[c][Len(frames[c])] = body
      /\ \A i \in 1..Len(frames[c]) : frames[c][i] <= body

\* A body that says it is connected has a client whose socket is open.
ClaimsFit == connected => current # 0 /\ socket[current] = "open"

\* With no patch on its way the body is the server's, or will be when the question is answered.
UpToDate ==
  current # 0 /\ ~missed /\ ~overtaken /\ frames[current] = <<>> =>
    shown = body \/ (asked.by = current /\ asked.answer \in {0, body})

WireInv == WireTypes /\ SwitchesFit /\ ClientsFit /\ FramesFit /\ ClaimsFit /\ UpToDate

\* A queue that was appended to is not empty.
LEMMA SomethingWaits ==
  ASSUME NEW q \in Seq(Nat), NEW n \in Nat
  PROVE  Append(q, n) # <<>>
<1>1. Len(Append(q, n)) = Len(q) + 1 /\ Len(q) \in Nat
  OBVIOUS
<1> QED
  BY <1>1

\* A page begins on its own, with no client.
LEMMA WireInit ==
  ASSUME Wire!ConnectionAssumption, Wire!Init
  PROVE  WireInv
<1> USE DEF Wire!ConnectionAssumption, Wire!Init
<1>1. WireTypes
  <2>1. frames \in [Wire!Clients -> Seq(Nat)]
    OBVIOUS
  <2>2. asked \in [by : 0..wireMade, answer : Nat] /\ asked.answer <= body
    BY DEF Wire!NoQuestion
  <2>3. PageTypes
    BY <2>2 DEF PageTypes
  <2>5. Flags
    BY DEF Flags
  <2>4. ClientTypes
    <3>1. attempts \in [Wire!Clients -> 0..MaxAttempts]
      OBVIOUS
    <3>2. socket \in [Wire!Clients -> Wire!Live \cup {"none", "closing"}]
      OBVIOUS
    <3> QED
      BY <2>1, <3>1, <3>2 DEF ClientTypes
  <2> QED
    BY <2>3, <2>4, <2>5 DEF WireTypes
<1>2. SwitchesFit /\ ClaimsFit /\ UpToDate
  BY DEF SwitchesFit, ClaimsFit, UpToDate, Wire!NoQuestion
<1>3. ClientsFit /\ FramesFit
  BY DEF ClientsFit, FramesFit, Unmade, Wire!Clients, Wire!Live
<1> QED
  BY <1>1, <1>2, <1>3 DEF WireInv

\* The server accepts a socket.
LEMMA WireAccepts ==
  ASSUME Wire!ConnectionAssumption, WireInv, NEW c \in Wire!Clients, Wire!Accepted(c)
  PROVE  WireInv'
<1> USE DEF WireInv, Wire!Accepted, Wire!history, Wire!clientVars
<1>1. WireTypes'
  BY DEF WireTypes, Flags, PageTypes, ClientTypes, Wire!Live
<1>2. SwitchesFit' /\ FramesFit'
  BY DEF SwitchesFit, FramesFit, WireTypes, Flags, PageTypes, ClientTypes
<1>3. ClientsFit'
  BY DEF ClientsFit, WireTypes, Flags, PageTypes, ClientTypes, Wire!Live, Unmade
<1>4. ClaimsFit' /\ UpToDate'
  BY DEF ClaimsFit, UpToDate, WireTypes, Flags, PageTypes, ClientTypes, ClientsFit, Wire!Live
<1> QED
  BY <1>1, <1>2, <1>3, <1>4

\* A socket opens.
LEMMA WireOpens ==
  ASSUME Wire!ConnectionAssumption, WireInv, NEW c \in Wire!Clients, Wire!Opens(c)
  PROVE  WireInv'
<1> USE DEF WireInv, Wire!Opens, Wire!history, Wire!clientVars
<1>0. c = current /\ current # 0 /\ c <= wireMade
  BY DEF ClientsFit, WireTypes, Flags, PageTypes, ClientTypes, Wire!Live, Wire!Clients
<1>1. WireTypes'
  BY DEF WireTypes, Flags, PageTypes, ClientTypes, Wire!Live, Wire!ConnectionAssumption
<1>2. SwitchesFit'
  BY <1>0 DEF SwitchesFit
<1>3. ClientsFit'
  BY <1>0 DEF ClientsFit, WireTypes, Flags, PageTypes, ClientTypes, Wire!Live, Unmade
<1>4. FramesFit' /\ ClaimsFit' /\ UpToDate'
  BY <1>0 DEF FramesFit, ClaimsFit, UpToDate, WireTypes, Flags, PageTypes, ClientTypes
<1> QED
  BY <1>1, <1>2, <1>3, <1>4

\* The close event of any socket: what was on it is gone, and its client tries again if it may.
LEMMA WireCloses ==
  ASSUME Wire!ConnectionAssumption, WireInv, NEW c \in Wire!Clients, Wire!OnClose(c),
         socket[c] \in Wire!Live \cup {"closing"},
         UNCHANGED <<mode, switching, current, wireMade, asked, shown, body, overtaken>>,
         missed' \in BOOLEAN, missed \/ frames[c] # <<>> => missed'
  PROVE  WireInv'
<1> USE DEF WireInv, Wire!OnClose, Wire!history, Wire!clientVars
<1>0. c <= wireMade
  BY DEF ClientsFit, WireTypes, Flags, PageTypes, ClientTypes, Wire!Live, Wire!Clients, Unmade
<1>1. attempts' \in [Wire!Clients -> 0..MaxAttempts]
  <2>1. attempts \in [Wire!Clients -> 0..MaxAttempts] /\ MaxAttempts \in Nat
    BY DEF WireTypes, Flags, PageTypes, ClientTypes, Wire!ConnectionAssumption
  <2>2. attempts[c] \in 0..MaxAttempts
    BY <2>1
  <2>3. Wire!WillRetry(c) => attempts[c] + 1 \in 0..MaxAttempts
    BY <2>1, <2>2 DEF Wire!WillRetry
  <2> QED
    BY <2>1, <2>2, <2>3
<1>2. WireTypes'
  <2>a. PageTypes'
    BY <1>1 DEF WireTypes, PageTypes
  <2>c. Flags'
    BY <1>1 DEF WireTypes, Flags
  <2>b. ClientTypes'
    <3>1. Wire!WillRetry(c) \in BOOLEAN
      BY DEF Wire!WillRetry
    <3>2. wireTimer' \in [Wire!Clients -> BOOLEAN]
      BY <3>1 DEF WireTypes, ClientTypes
    <3>3. socket' \in [Wire!Clients -> Wire!Live \cup {"none", "closing"}]
      BY DEF WireTypes, ClientTypes
    <3>4. frames' \in [Wire!Clients -> Seq(Nat)]
      BY DEF WireTypes, ClientTypes
    <3>5. manual' = manual /\ manual \in [Wire!Clients -> BOOLEAN]
      BY DEF WireTypes, ClientTypes
    <3> QED
      BY <1>1, <3>2, <3>3, <3>4, <3>5 DEF ClientTypes
  <2> QED
    BY <2>a, <2>b, <2>c DEF WireTypes
<1>3. SwitchesFit' /\ ClaimsFit'
  BY DEF SwitchesFit, ClaimsFit
<1>4. c = current => wireTimer'[c] \/ attempts'[c] = MaxAttempts
  <2>1. attempts[c] \in 0..MaxAttempts /\ MaxAttempts \in Nat
    BY DEF WireTypes, Flags, PageTypes, ClientTypes, Wire!ConnectionAssumption
  <2>2. c = current => ~manual[c]
    BY <1>0 DEF ClientsFit
  <2>3. attempts[c] < MaxAttempts \/ attempts[c] = MaxAttempts
    BY <2>1
  <2>4. wireTimer'[c] = Wire!WillRetry(c)
        /\ attempts'[c] = IF Wire!WillRetry(c) THEN attempts[c] + 1 ELSE attempts[c]
    BY DEF WireTypes, Flags, PageTypes, ClientTypes
  <2> QED
    BY <2>2, <2>3, <2>4 DEF Wire!WillRetry
<1>5. ClientsFit'
  BY <1>0, <1>4 DEF ClientsFit, WireTypes, Flags, PageTypes, ClientTypes, Wire!Live, Unmade
<1>6. FramesFit' /\ UpToDate'
  BY DEF FramesFit, UpToDate, WireTypes, Flags, PageTypes, ClientTypes, Wire!Clients
<1> QED
  BY <1>2, <1>3, <1>5, <1>6

\* The wireTimer of a reconnect runs out.
LEMMA WireReconnects ==
  ASSUME Wire!ConnectionAssumption, WireInv, NEW c \in Wire!Clients, Wire!Reconnect(c)
  PROVE  WireInv'
<1> USE DEF WireInv, Wire!Reconnect, Wire!history, Wire!clientVars
<1>1. WireTypes'
  BY DEF WireTypes, Flags, PageTypes, ClientTypes, Wire!Live
<1>2. c <= wireMade /\ socket[c] = "none" /\ frames[c] = <<>> /\ (manual[c] <=> c # current)
  BY DEF ClientsFit, Unmade, FramesFit, WireTypes, Flags, PageTypes, ClientTypes, Wire!Clients
<1>3. ClientsFit'
  BY <1>2 DEF ClientsFit, WireTypes, Flags, PageTypes, ClientTypes, Wire!Live, Unmade
<1>4. SwitchesFit' /\ FramesFit' /\ ClaimsFit' /\ UpToDate'
  BY <1>2 DEF SwitchesFit, FramesFit, ClaimsFit, UpToDate, WireTypes, Flags, PageTypes, ClientTypes
<1> QED
  BY <1>1, <1>3, <1>4

\* A patch reaches the body.
LEMMA WireDelivers ==
  ASSUME Wire!ConnectionAssumption, WireInv, NEW c \in Wire!Clients, Wire!Deliver(c)
  PROVE  WireInv'
<1> USE DEF WireInv, Wire!Deliver, Wire!history, Wire!clientVars
<1>0. c = current /\ current # 0 /\ frames[c] \in Seq(Nat) /\ frames[c] # <<>>
  <2>1. socket[c] = "open" /\ frames[c] # <<>>
    OBVIOUS
  <2>2. c = current
    BY <2>1 DEF ClientsFit, Wire!Live
  <2>3. current # 0
    BY <2>2 DEF Wire!Clients
  <2>4. frames[c] \in Seq(Nat)
    BY DEF WireTypes, ClientTypes
  <2> QED
    BY <2>1, <2>2, <2>3, <2>4
<1>1. Tail(frames[c]) \in Seq(Nat) /\ frames'[c] = Tail(frames[c]) /\ shown' = frames[c][1]
  BY <1>0 DEF WireTypes, Flags, PageTypes, ClientTypes
<1>2. \A i \in 1..Len(frames[c]) : frames[c][i] \in Nat /\ frames[c][i] <= body
  BY <1>0 DEF FramesFit
<1>3. shown' \in 0..body
  BY <1>0, <1>1, <1>2 DEF WireTypes, Flags, PageTypes, ClientTypes
<1>4. WireTypes'
  BY <1>1, <1>3 DEF WireTypes, Flags, PageTypes, ClientTypes
<1>5. SwitchesFit' /\ ClaimsFit'
  BY <1>0 DEF SwitchesFit, ClaimsFit
<1>6. ClientsFit'
  BY <1>0 DEF ClientsFit, WireTypes, Flags, PageTypes, ClientTypes, Unmade, Wire!Clients
<1>7. FramesFit'
  <2> SUFFICES ASSUME NEW d \in Wire!Clients, frames'[d] # <<>>
               PROVE  /\ socket[d] \in {"accepted", "open"}
                      /\ frames'[d][Len(frames'[d])] = body
                      /\ \A i \in 1..Len(frames'[d]) : frames'[d][i] <= body
    BY DEF FramesFit
  <2>1. CASE d # c
    BY <2>1 DEF FramesFit, WireTypes, Flags, PageTypes, ClientTypes
  <2>2. CASE d = c
    <3>1. Len(Tail(frames[c])) = Len(frames[c]) - 1
          /\ \A i \in 1..Len(Tail(frames[c])) : Tail(frames[c])[i] = frames[c][i + 1]
      BY <1>0
    <3>2. Len(frames[c]) \in Nat /\ Len(Tail(frames[c])) \in Nat \ {0}
      BY <1>0, <1>1, <2>2, EmptySeq
    <3> QED
      BY <1>0, <1>1, <1>2, <2>2, <3>1, <3>2 DEF FramesFit
  <2> QED
    BY <2>1, <2>2
<1>8. UpToDate'
  <2>1. ASSUME frames'[c] = <<>> PROVE shown' = body
    <3>1. Len(frames[c]) = 1
      <4>1. Len(Tail(frames[c])) = 0 /\ Len(frames[c]) \in Nat
        BY <1>0, <1>1, <2>1, EmptySeq
      <4>2. Len(Tail(frames[c])) = Len(frames[c]) - 1
        BY <1>0
      <4> QED
        BY <4>1, <4>2
    <3> QED
      BY <1>0, <1>1, <3>1 DEF FramesFit
  <2> QED
    BY <1>0, <2>1 DEF UpToDate
<1> QED
  BY <1>4, <1>5, <1>6, <1>7, <1>8

\* A morph, an undo or a redo of the server.
LEMMA WireIsPatched ==
  ASSUME Wire!ConnectionAssumption, WireInv, Wire!Patched
  PROVE  WireInv'
<1> USE DEF WireInv, Wire!Patched, Wire!history, Wire!clientVars
<1>1. body' = body + 1 /\ body \in Nat /\ body' \in Nat \ {0}
  BY DEF WireTypes, Flags, PageTypes, ClientTypes
<1>2. frames' \in [Wire!Clients -> Seq(Nat)]
  BY <1>1 DEF WireTypes, Flags, PageTypes, ClientTypes
<1>3. WireTypes'
  BY <1>1, <1>2 DEF WireTypes, Flags, PageTypes, ClientTypes
<1>4. SwitchesFit' /\ ClaimsFit'
  BY DEF SwitchesFit, ClaimsFit
<1>5. ClientsFit'
  BY DEF ClientsFit, Unmade
<1>6. FramesFit'
  <2> SUFFICES ASSUME NEW d \in Wire!Clients, frames'[d] # <<>>
               PROVE  /\ socket[d] \in {"accepted", "open"}
                      /\ frames'[d][Len(frames'[d])] = body'
                      /\ \A i \in 1..Len(frames'[d]) : frames'[d][i] <= body'
    BY DEF FramesFit
  <2>1. socket[d] \in {"accepted", "open"}
    BY DEF FramesFit
  <2>2. frames'[d] = Append(frames[d], body') /\ frames[d] \in Seq(Nat)
    BY <2>1 DEF WireTypes, Flags, PageTypes, ClientTypes
  <2>3. \A i \in 1..Len(frames[d]) : frames[d][i] \in Nat /\ frames[d][i] <= body
    <3>1. CASE frames[d] = <<>>
      BY <3>1
    <3>2. CASE frames[d] # <<>>
      BY <2>2, <3>2 DEF FramesFit
    <3> QED
      BY <3>1, <3>2
  <2> QED
    BY <1>1, <2>1, <2>2, <2>3
<1>7. UpToDate'
  <2> SUFFICES ASSUME current # 0, ~missed', ~overtaken, frames'[current] = <<>>
               PROVE  asked.by = current /\ asked.answer = 0
    BY DEF UpToDate
  <2>1. current \in Wire!Clients
    BY DEF WireTypes, Flags, PageTypes, ClientTypes, Wire!Clients, Wire!ConnectionAssumption
  <2>2. socket[current] \notin {"accepted", "open"}
    <3>1. frames[current] \in Seq(Nat)
      BY <2>1 DEF WireTypes, Flags, PageTypes, ClientTypes
    <3>2. socket[current] \in {"accepted", "open"} => frames'[current] = Append(frames[current], body')
      BY <2>1
    <3>3. body' \in Nat
      BY <1>1
    <3> QED
      BY <3>1, <3>2, <3>3, SomethingWaits
  <2> QED
    BY <2>2
<1> QED
  BY <1>3, <1>4, <1>5, <1>6, <1>7

\* The server answers the question.
LEMMA WireIsAnswered ==
  ASSUME Wire!ConnectionAssumption, WireInv, Wire!Answer
  PROVE  WireInv'
<1> USE DEF WireInv, Wire!Answer, Wire!history, Wire!clientVars
<1>1. asked'.by = asked.by /\ asked'.answer = body /\ asked' \in [by : 0..wireMade, answer : Nat]
  BY DEF WireTypes, Flags, PageTypes, ClientTypes
<1>2. WireTypes'
  BY <1>1 DEF WireTypes, Flags, PageTypes, ClientTypes
<1>3. SwitchesFit' /\ FramesFit' /\ ClaimsFit' /\ UpToDate'
  BY <1>1 DEF SwitchesFit, FramesFit, ClaimsFit, UpToDate
<1>4. ClientsFit'
  BY DEF ClientsFit, Unmade, Wire!clientVars
<1> QED
  BY <1>2, <1>3, <1>4 DEF Wire!clientVars

\* A switch to the server whose client is held.
LEMMA WireSwitches ==
  ASSUME Wire!ConnectionAssumption, WireInv, mode = "local", Wire!Connect,
         current' = wireMade', socket' = [socket EXCEPT ![wireMade'] = "connecting"]
  PROVE  WireInv'
<1> USE DEF WireInv, Wire!Connect, Wire!history, Wire!clientVars
<1>1. wireMade \in Nat /\ MaxClients \in Nat /\ wireMade' = wireMade + 1 /\ wireMade' \in Wire!Clients
  BY DEF WireTypes, Flags, PageTypes, ClientTypes, Wire!ConnectionAssumption, Wire!Clients
<1>2. Unmade(wireMade') /\ wireMade' # 0
  BY <1>1 DEF ClientsFit
<1>3. asked' \in [by : 0..wireMade', answer : Nat] /\ asked'.answer <= body
      /\ asked'.by = wireMade' /\ asked'.answer = 0
  BY <1>1 DEF WireTypes, Flags, PageTypes, ClientTypes
<1>4. WireTypes'
  BY <1>1, <1>3 DEF WireTypes, Flags, PageTypes, ClientTypes, Wire!Live, Wire!history
<1>5. SwitchesFit' /\ ClaimsFit' /\ UpToDate'
  BY <1>1, <1>2, <1>3 DEF SwitchesFit, ClaimsFit, UpToDate
<1>6. ClientsFit'
  <2> SUFFICES ASSUME NEW c \in Wire!Clients
               PROVE  /\ c > wireMade' => Unmade(c)'
                      /\ c <= wireMade' => (manual'[c] <=> c # current')
                      /\ socket'[c] \in Wire!Live => c = current'
                      /\ wireTimer'[c] => socket'[c] = "none"
                      /\ c = current' => socket'[c] \in Wire!Live \/ wireTimer'[c] \/ attempts'[c] = MaxAttempts
    BY DEF ClientsFit
  <2>1. c \in Nat /\ current = 0
    BY DEF Wire!Clients, SwitchesFit
  <2>2. CASE c = wireMade'
    BY <1>1, <1>2, <2>1, <2>2 DEF WireTypes, ClientTypes, Wire!Live, Unmade
  <2>3. CASE c # wireMade'
    <3>1. socket'[c] = socket[c] /\ frames'[c] = frames[c] /\ wireTimer'[c] = wireTimer[c] /\ manual'[c] = manual[c]
      BY <2>3 DEF WireTypes, ClientTypes
    <3>2. c > wireMade' => c > wireMade
      BY <1>1, <2>1
    <3>3. c <= wireMade' => c <= wireMade
      BY <1>1, <2>1, <2>3
    <3>4. socket[c] \notin Wire!Live
      BY <2>1 DEF ClientsFit, Wire!Clients
    <3> QED
      BY <2>1, <2>3, <3>1, <3>2, <3>3, <3>4 DEF ClientsFit, Unmade, Wire!Clients
  <2> QED
    BY <2>2, <2>3
<1>7. FramesFit'
  BY <1>1, <1>2 DEF FramesFit, WireTypes, Flags, PageTypes, ClientTypes, Unmade
<1> QED
  BY <1>4, <1>5, <1>6, <1>7

\* The mount of an embedded page.
LEMMA WireMounts ==
  ASSUME Wire!ConnectionAssumption, WireInv, Wire!Mount
  PROVE  WireInv'
<1>0. wireMade = 0 /\ mode = "local"
  BY DEF Wire!Mount, WireInv, SwitchesFit
<1>1. CASE ~Strict
  BY <1>0, <1>1, WireSwitches DEF Wire!Mount
<1>2. CASE Strict
  <2> USE DEF WireInv, Wire!Mount, Wire!history, Wire!clientVars
  <2>1. 1 \in Wire!Clients /\ Unmade(1)
    BY <1>0, <1>2 DEF Wire!ConnectionAssumption, Wire!Clients, ClientsFit
  <2>2. wireMade' = 1 /\ current' = 0 /\ manual' = [manual EXCEPT ![1] = TRUE]
        /\ socket' = [socket EXCEPT ![1] = "closing"] /\ switching' = TRUE /\ mode' = "connected"
        /\ asked' = [by |-> 1, answer |-> 0]
        /\ UNCHANGED <<connected, attempts, wireTimer, frames, shown, body, missed, overtaken>>
    BY <1>2 DEF Wire!history
  <2>3. asked' \in [by : 0..wireMade', answer : Nat] /\ asked'.answer <= body /\ asked'.by = 1
    BY <2>2 DEF WireTypes, Flags, PageTypes, ClientTypes
  <2>4. WireTypes'
    BY <2>1, <2>2, <2>3 DEF WireTypes, Flags, PageTypes, ClientTypes, Wire!Live, Wire!ConnectionAssumption
  <2>5. SwitchesFit' /\ ClaimsFit' /\ UpToDate'
    BY <1>0, <2>2, <2>3 DEF SwitchesFit, ClaimsFit, UpToDate
  <2>6. ClientsFit'
    BY <1>0, <2>1, <2>2 DEF ClientsFit, WireTypes, Flags, PageTypes, ClientTypes, Wire!Live, Unmade, Wire!Clients, SwitchesFit
  <2>7. FramesFit'
    BY <2>1, <2>2 DEF FramesFit, WireTypes, Flags, PageTypes, ClientTypes, Unmade
  <2> QED
    BY <2>4, <2>5, <2>6, <2>7
<1> QED
  BY <1>1, <1>2

\* The switch back to the local core.
LEMMA WireGoesLocal ==
  ASSUME Wire!ConnectionAssumption, WireInv, Wire!SwitchToLocal
  PROVE  WireInv'
<1> USE DEF WireInv, Wire!SwitchToLocal, Wire!history, Wire!clientVars
<1>0. current \in Wire!Clients \cup {0}
  BY DEF WireTypes, Flags, PageTypes, ClientTypes, Wire!Clients, Wire!ConnectionAssumption
<1>1. CASE current # 0
  <2>1. /\ socket' = [socket EXCEPT ![current] = IF @ \in Wire!Live THEN "closing" ELSE @]
        /\ frames' = [frames EXCEPT ![current] = <<>>]
        /\ manual' = [manual EXCEPT ![current] = TRUE]
        /\ UNCHANGED <<attempts, wireTimer>>
    BY <1>1 DEF Wire!Disconnect
  <2>2. WireTypes'
    <3>a. PageTypes'
      BY <1>0, <1>1, <2>1 DEF WireTypes, PageTypes
    <3>c. Flags'
      BY <1>0, <1>1, <2>1 DEF WireTypes, Flags
    <3>b. ClientTypes'
      BY <1>0, <1>1, <2>1 DEF WireTypes, ClientTypes, Wire!Live
    <3> QED
      BY <3>a, <3>b, <3>c DEF WireTypes
  <2>3. SwitchesFit' /\ ClaimsFit' /\ UpToDate'
    BY <1>1 DEF SwitchesFit, ClaimsFit, UpToDate, WireTypes, Flags, PageTypes, ClientTypes
  <2>4. ClientsFit'
    BY <1>0, <1>1, <2>1 DEF ClientsFit, WireTypes, Flags, PageTypes, ClientTypes, Wire!Live, Unmade, Wire!Clients
  <2>5. FramesFit'
    BY <1>0, <1>1, <2>1 DEF FramesFit, WireTypes, Flags, PageTypes, ClientTypes, ClientsFit
  <2> QED
    BY <2>2, <2>3, <2>4, <2>5
<1>2. CASE current = 0
  <2>1. UNCHANGED <<manual, attempts, wireTimer, socket, frames>>
    BY <1>2 DEF Wire!clientVars
  <2>2. WireTypes'
    <3>a. PageTypes'
      BY <2>1 DEF WireTypes, PageTypes
    <3>c. Flags'
      BY <2>1 DEF WireTypes, Flags
    <3>b. ClientTypes'
      BY <2>1 DEF WireTypes, ClientTypes
    <3> QED
      BY <3>a, <3>b, <3>c DEF WireTypes
  <2>3. SwitchesFit' /\ ClaimsFit' /\ UpToDate'
    BY <1>2 DEF SwitchesFit, ClaimsFit, UpToDate, WireTypes, Flags, PageTypes, ClientTypes
  <2>4. ClientsFit' /\ FramesFit'
    BY <1>2, <2>1 DEF ClientsFit, FramesFit, Unmade
  <2> QED
    BY <2>2, <2>3, <2>4
<1> QED
  BY <1>1, <1>2

\* The answer to the question comes back, to the client that asked it or to nobody.
LEMMA WireGetsUI ==
  ASSUME Wire!ConnectionAssumption, WireInv, NEW readable \in BOOLEAN, Wire!GotUI(readable)
  PROVE  WireInv'
<1> DEFINE others == readable /\ current = asked.by
<1>1. /\ asked.by # 0 /\ (readable => asked.answer # 0)
      /\ switching' = FALSE /\ asked' = [by |-> 0, answer |-> 0]
      /\ shown' = IF others THEN asked.answer ELSE shown
      /\ overtaken' = (overtaken \/ (others /\ asked.answer < shown))
      /\ missed' = (missed \/ (~others /\ shown < body))
      /\ UNCHANGED <<mode, connected, current, wireMade, manual, attempts, wireTimer, socket, frames, body>>
  BY DEF Wire!GotUI, Wire!NoQuestion, Wire!clientVars
<1>2. WireTypes /\ SwitchesFit /\ ClientsFit /\ FramesFit /\ ClaimsFit /\ UpToDate
  BY DEF WireInv
<1>3. asked.answer \in Nat /\ asked.answer <= body /\ shown \in 0..body /\ body \in Nat
      /\ asked.by \in 0..wireMade /\ missed \in BOOLEAN /\ overtaken \in BOOLEAN
  BY <1>2 DEF WireTypes, Flags, PageTypes, ClientTypes
<1>4. shown' \in 0..body /\ asked' \in [by : 0..wireMade, answer : Nat] /\ asked'.answer = 0 /\ asked'.by = 0
  BY <1>1, <1>2, <1>3 DEF WireTypes, Flags, PageTypes, ClientTypes
<1>5. missed' \in BOOLEAN /\ overtaken' \in BOOLEAN
  BY <1>1, <1>3
<1>6. WireTypes'
  <2>a. PageTypes'
    BY <1>1, <1>2, <1>3, <1>4, <1>5 DEF WireTypes, PageTypes
  <2>c. Flags'
    BY <1>1, <1>2, <1>3, <1>4, <1>5 DEF WireTypes, Flags
  <2>b. ClientTypes'
    BY <1>1, <1>2, <1>3, <1>4, <1>5 DEF WireTypes, ClientTypes
  <2> QED
    BY <2>a, <2>b, <2>c DEF WireTypes
<1>7. SwitchesFit'
  BY <1>1, <1>2, <1>4 DEF SwitchesFit
<1>8. ClientsFit' /\ FramesFit' /\ ClaimsFit'
  BY <1>1, <1>2 DEF ClientsFit, FramesFit, ClaimsFit, Unmade
<1>9. UpToDate'
  <2> SUFFICES ASSUME current # 0, ~missed', ~overtaken', frames[current] = <<>>
               PROVE  shown' = body
    BY <1>1 DEF UpToDate
  <2>1. ~missed /\ ~overtaken
    BY <1>1
  <2>2. shown = body \/ (asked.by = current /\ asked.answer \in {0, body})
    BY <1>2, <2>1 DEF UpToDate
  <2>3. CASE others
    <3>1. shown' = asked.answer /\ asked.answer # 0
      BY <1>1, <2>3
    <3>2. ~(asked.answer < shown)
      BY <1>1, <2>3
    <3> QED
      BY <1>3, <2>2, <3>1, <3>2
  <2>4. CASE ~others
    <3>1. shown' = shown /\ ~(shown < body)
      BY <1>1, <2>4
    <3> QED
      BY <1>3, <3>1
  <2> QED
    BY <2>3, <2>4
<1> QED
  BY <1>6, <1>7, <1>8, <1>9 DEF WireInv

\* Every step of the page, its clients and the server keeps the invariant.
LEMMA WireKeepsUp ==
  ASSUME Wire!ConnectionAssumption, WireInv, [Wire!Next]_(Wire!vars)
  PROVE  WireInv'
<1>1. CASE Wire!Mount
  BY <1>1, WireMounts
<1>2. CASE Wire!SwitchToServer
  BY <1>2, WireSwitches DEF Wire!SwitchToServer
<1>3. CASE Wire!SwitchToLocal
  BY <1>3, WireGoesLocal
<1>4. CASE Wire!Patched
  BY <1>4, WireIsPatched
<1>5. CASE Wire!Answer
  BY <1>5, WireIsAnswered
<1>6. ASSUME NEW b \in BOOLEAN, Wire!GotUI(b) PROVE WireInv'
  BY <1>6, WireGetsUI
<1>7. ASSUME NEW c \in Wire!Clients, Wire!Accepted(c) PROVE WireInv'
  BY <1>7, WireAccepts
<1>8. ASSUME NEW c \in Wire!Clients, Wire!Opens(c) PROVE WireInv'
  BY <1>8, WireOpens
<1>9. ASSUME NEW c \in Wire!Clients, Wire!Lost(c) PROVE WireInv'
  <2>1. missed' \in BOOLEAN /\ (missed \/ frames[c] # <<>> => missed')
    BY <1>9 DEF Wire!Lost, WireInv, WireTypes, Flags, PageTypes, ClientTypes
  <2> QED
    BY <1>9, <2>1, WireCloses DEF Wire!Lost
<1>10. ASSUME NEW c \in Wire!Clients, Wire!Closed(c) PROVE WireInv'
  <2>1. frames[c] = <<>> /\ missed' = missed /\ missed \in BOOLEAN
    BY <1>10 DEF Wire!Closed, Wire!history, WireInv, WireTypes, Flags, PageTypes, ClientTypes, FramesFit
  <2> QED
    BY <1>10, <2>1, WireCloses DEF Wire!Closed, Wire!history
<1>11. ASSUME NEW c \in Wire!Clients, Wire!Reconnect(c) PROVE WireInv'
  BY <1>11, WireReconnects
<1>12. ASSUME NEW c \in Wire!Clients, Wire!Deliver(c) PROVE WireInv'
  BY <1>12, WireDelivers
<1>13. CASE UNCHANGED Wire!vars
  BY <1>13 DEF Wire!vars, Wire!clientVars, Wire!history, WireInv, WireTypes, Flags, PageTypes, ClientTypes, SwitchesFit,
     ClientsFit, FramesFit, ClaimsFit, UpToDate, Unmade
<1> QED
  BY <1>1, <1>2, <1>3, <1>4, <1>5, <1>6, <1>7, <1>8, <1>9, <1>10, <1>11, <1>12, <1>13 DEF Wire!Next

\* The invariant says what the run checks.
LEMMA WireIsTrue == ASSUME Wire!ConnectionAssumption, WireInv PROVE Wire!BodyIsTheServers
<1>1. Wire!OneSocketFeedsTheBody /\ Wire!LocalBodyIsLocal /\ Wire!NeverClaimsUp
  BY DEF WireInv, ClientsFit, SwitchesFit, ClaimsFit,
     Wire!OneSocketFeedsTheBody, Wire!LocalBodyIsLocal, Wire!NeverClaimsUp
<1>2. current # 0 => current \in Wire!Clients
  BY DEF WireInv, WireTypes, Flags, PageTypes, ClientTypes, Wire!Clients, Wire!ConnectionAssumption
<1>3. Wire!NeverSilentlyDown
  BY <1>2 DEF WireInv, ClientsFit, Wire!NeverSilentlyDown
<1>4. Wire!SettledBodyIsTheServers
  BY DEF WireInv, UpToDate, Wire!SettledBodyIsTheServers
<1>5. Wire!AttemptsBeginAnew
  BY DEF WireInv, ClientsFit, Wire!AttemptsBeginAnew
<1> QED
  BY <1>1, <1>3, <1>4, <1>5 DEF Wire!BodyIsTheServers

\* useRuntimeConnection and RuntimeClient, over any switches, losses and reconnects: one socket
\* feeds the body, the page does not claim to be connected when it is not, a client is left
\* with nothing under way only having failed as often as it may, and once all has arrived the
\* body is the server's, but for a patch nobody could hear and an answer older than a patch.
THEOREM ThePageIsTheServers ==
  ASSUME Wire!ConnectionAssumption
  PROVE  Wire!Spec => []BodyIsTheServers
<1>1. Wire!Init => WireInv
  BY WireInit
<1>2. WireInv /\ [Wire!Next]_(Wire!vars) => WireInv'
  BY WireKeepsUp
<1>3. WireInv => Wire!BodyIsTheServers
  BY WireIsTrue
<1> QED
  BY <1>1, <1>2, <1>3, PTL DEF Wire!Spec, BodyIsTheServers

-----------------------------------------------------------------------------
(* Splicing one element into a sequence and out of it *)

\* splice(index, 1) takes one element out.
LEMMA SpliceOut ==
  ASSUME NEW S, NEW list \in Seq(S), NEW i \in 1..Len(list)
  PROVE  /\ Undone!RemoveAt(list, i) \in Seq(S)
         /\ Len(Undone!RemoveAt(list, i)) = Len(list) - 1
         /\ \A j \in 1..Len(list) - 1 :
              Undone!RemoveAt(list, i)[j] = IF j < i THEN list[j] ELSE list[j + 1]
<1>1. Len(list) \in Nat /\ i \in Int /\ i - 1 \in Int /\ i + 1 \in Int /\ 1 <= i /\ i <= Len(list)
  BY LenProperties
<1>2. /\ SubSeq(list, 1, i - 1) \in Seq(S)
      /\ Len(SubSeq(list, 1, i - 1)) = i - 1
      /\ \A j \in 1..i - 1 : SubSeq(list, 1, i - 1)[j] = list[j]
  <2>1. \A j \in 1..i - 1 : list[j] \in S
    BY <1>1, ElementOfSeq
  <2> QED
    BY <1>1, <2>1, SubSeqProperties
<1>3. /\ SubSeq(list, i + 1, Len(list)) \in Seq(S)
      /\ Len(SubSeq(list, i + 1, Len(list))) = Len(list) - i
      /\ \A j \in 1..Len(list) - i : SubSeq(list, i + 1, Len(list))[j] = list[i + j]
  <2>1. \A j \in i + 1..Len(list) : list[j] \in S
    BY <1>1, ElementOfSeq
  <2> QED
    BY <1>1, <2>1, SubSeqProperties
<1> DEFINE a == SubSeq(list, 1, i - 1)  b == SubSeq(list, i + 1, Len(list))
<1>4. Undone!RemoveAt(list, i) = a \o b
  BY DEF Undone!RemoveAt
<1> HIDE DEF a, b
<1>5. /\ a \o b \in Seq(S)
      /\ Len(a \o b) = Len(a) + Len(b)
      /\ \A j \in 1..Len(a) + Len(b) : (a \o b)[j] = IF j <= Len(a) THEN a[j] ELSE b[j - Len(a)]
  BY <1>2, <1>3, ConcatProperties DEF a, b
<1>6. Len(a) = i - 1 /\ Len(b) = Len(list) - i /\ Len(a) + Len(b) = Len(list) - 1
  BY <1>1, <1>2, <1>3 DEF a, b
<1>7. \A j \in 1..Len(list) - 1 : (a \o b)[j] = IF j < i THEN list[j] ELSE list[j + 1]
  <2> SUFFICES ASSUME NEW j \in 1..Len(list) - 1
               PROVE  (a \o b)[j] = IF j < i THEN list[j] ELSE list[j + 1]
    OBVIOUS
  <2>1. CASE j < i
    BY <1>1, <1>2, <1>5, <1>6, <2>1 DEF a
  <2>2. CASE ~(j < i)
    <3>1. j - (i - 1) \in 1..Len(list) - i /\ i + (j - (i - 1)) = j + 1
      BY <1>1, <2>2
    <3>2. b[j - (i - 1)] = list[j + 1]
      BY <1>3, <3>1 DEF b
    <3> QED
      BY <1>1, <1>5, <1>6, <2>2, <3>2
  <2> QED
    BY <2>1, <2>2
<1> QED
  BY <1>4, <1>5, <1>6, <1>7

\* What it is to be list with e put in at i.
Inserted(in, S, list, i, e) ==
  /\ in \in Seq(S)
  /\ Len(in) = Len(list) + 1
  /\ \A j \in 1..Len(list) + 1 :
       in[j] = IF j < i THEN list[j] ELSE IF j = i THEN e ELSE list[j - 1]

\* splice(index, 0, e) puts one in.
LEMMA SpliceIn ==
  ASSUME NEW S, NEW list \in Seq(S), NEW e \in S, NEW i \in 1..Len(list) + 1
  PROVE  Inserted(Undone!InsertAt(list, i, e), S, list, i, e)
<1>1. Len(list) \in Nat /\ i \in Int /\ i - 1 \in Int /\ 1 <= i /\ i <= Len(list) + 1
  BY LenProperties
<1>2. /\ SubSeq(list, 1, i - 1) \in Seq(S)
      /\ Len(SubSeq(list, 1, i - 1)) = i - 1
      /\ \A j \in 1..i - 1 : SubSeq(list, 1, i - 1)[j] = list[j]
  <2>1. \A j \in 1..i - 1 : list[j] \in S
    BY <1>1, ElementOfSeq
  <2> QED
    BY <1>1, <2>1, SubSeqProperties
<1>3. /\ SubSeq(list, i, Len(list)) \in Seq(S)
      /\ Len(SubSeq(list, i, Len(list))) = Len(list) - i + 1
      /\ \A j \in 1..Len(list) - i + 1 : SubSeq(list, i, Len(list))[j] = list[i + j - 1]
  <2>1. \A j \in i..Len(list) : list[j] \in S
    BY <1>1, ElementOfSeq
  <2> QED
    BY <1>1, <2>1, SubSeqProperties
<1> DEFINE a == SubSeq(list, 1, i - 1)  b == SubSeq(list, i, Len(list))  m == <<e>>
<1>4. Undone!InsertAt(list, i, e) = (a \o m) \o b
  BY DEF Undone!InsertAt
<1>5. m \in Seq(S) /\ Len(m) = 1 /\ m[1] = e
  OBVIOUS
<1> HIDE DEF a, b, m
<1>6. /\ a \o m \in Seq(S)
      /\ Len(a \o m) = Len(a) + Len(m)
      /\ \A j \in 1..Len(a) + Len(m) : (a \o m)[j] = IF j <= Len(a) THEN a[j] ELSE m[j - Len(a)]
  BY <1>2, <1>5, ConcatProperties DEF a
<1> DEFINE am == a \o m
<1> HIDE DEF am
<1>7. /\ am \o b \in Seq(S)
      /\ Len(am \o b) = Len(am) + Len(b)
      /\ \A j \in 1..Len(am) + Len(b) :
           (am \o b)[j] = IF j <= Len(am) THEN am[j] ELSE b[j - Len(am)]
  <2>1. am \in Seq(S) /\ b \in Seq(S)
    BY <1>3, <1>6 DEF am, b
  <2> QED
    BY <2>1, ConcatProperties
<1>8. Len(a) = i - 1 /\ Len(am) = i /\ Len(b) = Len(list) - i + 1 /\ Len(am) + Len(b) = Len(list) + 1
  <2>1. Len(a) = i - 1 /\ Len(b) = Len(list) - i + 1
    BY <1>2, <1>3 DEF a, b
  <2>2. Len(am) = Len(a) + 1
    BY <1>5, <1>6 DEF am
  <2> QED
    BY <1>1, <2>1, <2>2
<1>9. \A j \in 1..Len(list) + 1 :
        (am \o b)[j] = IF j < i THEN list[j] ELSE IF j = i THEN e ELSE list[j - 1]
  <2> SUFFICES ASSUME NEW j \in 1..Len(list) + 1
               PROVE  (am \o b)[j] = IF j < i THEN list[j] ELSE IF j = i THEN e ELSE list[j - 1]
    OBVIOUS
  <2>1. CASE j < i
    <3>1. am[j] = a[j] /\ a[j] = list[j]
      BY <1>1, <1>2, <1>5, <1>6, <1>8, <2>1 DEF a, am
    <3> QED
      BY <1>1, <1>7, <1>8, <2>1, <3>1
  <2>2. CASE j = i
    <3>1. am[j] = e
      BY <1>1, <1>5, <1>6, <1>8, <2>2 DEF am
    <3> QED
      BY <1>1, <1>7, <1>8, <2>2, <3>1
  <2>3. CASE j > i
    <3>1. j - i \in 1..Len(list) - i + 1 /\ i + (j - i) - 1 = j - 1
      BY <1>1, <2>3
    <3>2. b[j - i] = list[j - 1]
      BY <1>3, <3>1 DEF b
    <3>3. j \in 1..Len(am) + Len(b) /\ ~(j <= Len(am)) /\ j - Len(am) = j - i
      BY <1>1, <1>8, <2>3
    <3>4. (am \o b)[j] = b[j - i]
      BY <1>7, <3>3
    <3> QED
      BY <1>1, <2>3, <3>2, <3>4
  <2>4. j < i \/ j = i \/ j > i
    BY <1>1
  <2> QED
    BY <2>1, <2>2, <2>3, <2>4
<1> QED
  BY <1>4, <1>7, <1>8, <1>9 DEF am, Inserted

\* The one put in stands where it was put.
LEMMA SplicedIn ==
  ASSUME NEW S, NEW list \in Seq(S), NEW e \in S, NEW i \in 1..Len(list) + 1
  PROVE  i \in 1..Len(Undone!InsertAt(list, i, e)) /\ Undone!InsertAt(list, i, e)[i] = e
<1>a. Inserted(Undone!InsertAt(list, i, e), S, list, i, e)
  BY SpliceIn
<1>1. /\ Len(Undone!InsertAt(list, i, e)) = Len(list) + 1
      /\ \A j \in 1..Len(list) + 1 :
           Undone!InsertAt(list, i, e)[j] = IF j < i THEN list[j] ELSE IF j = i THEN e ELSE list[j - 1]
  BY <1>a DEF Inserted
<1> QED
  BY <1>1

\* What was put in is taken out, and what was taken out is put back.
LEMMA SpliceInOut ==
  ASSUME NEW S, NEW list \in Seq(S), NEW e \in S, NEW i \in 1..Len(list) + 1
  PROVE  Undone!RemoveAt(Undone!InsertAt(list, i, e), i) = list
<1> DEFINE in == Undone!InsertAt(list, i, e)
<1>a. Inserted(in, S, list, i, e)
  BY SpliceIn
<1>1. /\ in \in Seq(S) /\ Len(in) = Len(list) + 1
      /\ \A j \in 1..Len(list) + 1 :
           in[j] = IF j < i THEN list[j] ELSE IF j = i THEN e ELSE list[j - 1]
  BY <1>a DEF Inserted
<1> HIDE DEF in
<1>2. Len(list) \in Nat
  BY LenProperties
<1>3. i \in 1..Len(in) /\ Len(in) - 1 = Len(list)
  BY <1>1, <1>2
<1> DEFINE out == Undone!RemoveAt(in, i)
<1>4. /\ out \in Seq(S) /\ Len(out) = Len(in) - 1
      /\ \A j \in 1..Len(in) - 1 : out[j] = IF j < i THEN in[j] ELSE in[j + 1]
  BY <1>1, <1>3, SpliceOut
<1> HIDE DEF out
<1>5. \A j \in 1..Len(out) : out[j] = list[j]
  <2> SUFFICES ASSUME NEW j \in 1..Len(out) PROVE out[j] = list[j]
    OBVIOUS
  <2>1. j \in 1..Len(list) /\ j \in Int /\ i \in Int /\ j + 1 - 1 = j /\ Len(out) = Len(list)
    BY <1>2, <1>3, <1>4
  <2>2. CASE j < i
    <3>1. out[j] = in[j]
      BY <1>3, <1>4, <2>1, <2>2
    <3> QED
      BY <1>1, <1>2, <2>1, <2>2, <3>1
  <2>3. CASE ~(j < i)
    <3>1. out[j] = in[j + 1]
      BY <1>3, <1>4, <2>1, <2>3
    <3>2. j + 1 \in 1..Len(list) + 1 /\ ~(j + 1 < i) /\ j + 1 # i
      BY <1>2, <2>1, <2>3
    <3>3. in[j + 1] = list[j + 1 - 1]
      BY <1>1, <3>2
    <3> QED
      BY <2>1, <3>1, <3>3
  <2> QED
    BY <2>2, <2>3
<1>6. out = list
  BY <1>3, <1>4, <1>5, SeqEqual
<1> QED
  BY <1>6 DEF out, in

LEMMA SpliceOutIn ==
  ASSUME NEW S, NEW list \in Seq(S), NEW i \in 1..Len(list)
  PROVE  /\ i \in 1..Len(Undone!RemoveAt(list, i)) + 1
         /\ Undone!InsertAt(Undone!RemoveAt(list, i), i, list[i]) = list
<1> DEFINE out == Undone!RemoveAt(list, i)
<1>1. /\ out \in Seq(S) /\ Len(out) = Len(list) - 1
      /\ \A j \in 1..Len(list) - 1 : out[j] = IF j < i THEN list[j] ELSE list[j + 1]
  BY SpliceOut
<1> HIDE DEF out
<1>2. Len(list) \in Nat /\ list[i] \in S
  BY LenProperties, ElementOfSeq
<1>3. i \in 1..Len(out) + 1
  BY <1>1, <1>2
<1> DEFINE in == Undone!InsertAt(out, i, list[i])
<1>4. /\ in \in Seq(S) /\ Len(in) = Len(out) + 1
      /\ \A j \in 1..Len(out) + 1 :
           in[j] = IF j < i THEN out[j] ELSE IF j = i THEN list[i] ELSE out[j - 1]
  <2> DEFINE e == list[i]
  <2>1. out \in Seq(S) /\ e \in S
    BY <1>1, <1>2
  <2> HIDE DEF in, e
  <2>2. Inserted(Undone!InsertAt(out, i, e), S, out, i, e)
    BY <1>3, <2>1, SpliceIn
  <2>3. Inserted(in, S, out, i, list[i])
    BY <2>2 DEF in, e
  <2> QED
    BY <2>3 DEF Inserted
<1> HIDE DEF in
<1>5. \A j \in 1..Len(in) : in[j] = list[j]
  <2> SUFFICES ASSUME NEW j \in 1..Len(in) PROVE in[j] = list[j]
    OBVIOUS
  <2>1. Len(in) = Len(list) /\ j \in 1..Len(out) + 1 /\ j \in Int /\ i \in Int
    BY <1>1, <1>2, <1>4
  <2>2. CASE j < i
    <3>1. in[j] = out[j] /\ j \in 1..Len(list) - 1
      BY <1>2, <1>4, <2>1, <2>2
    <3> QED
      BY <1>1, <2>2, <3>1
  <2>3. CASE j = i
    BY <1>4, <2>1, <2>3
  <2>4. CASE j > i
    <3>1. j - 1 \in 1..Len(list) - 1 /\ ~(j - 1 < i) /\ j - 1 + 1 = j
      BY <1>2, <2>1, <2>4
    <3>2. out[j - 1] = list[j]
      BY <1>1, <3>1
    <3> QED
      BY <1>4, <2>1, <2>4, <3>2
  <2> QED
    BY <2>1, <2>2, <2>3, <2>4
<1>6. in = list
  BY <1>1, <1>2, <1>4, <1>5, SeqEqual
<1> QED
  BY <1>3, <1>6 DEF out, in

-----------------------------------------------------------------------------
(* Trees *)

\* A set of ids that holds the children of each of its ids.
Closed(t, ids) == \A m \in ids : \A i \in 1..Len(t.kids[m]) : t.kids[m][i] \in ids

\* What it takes to be a tree: a root, children and looks for each id, one place for each id
\* and none for the root, no way down that goes on forever, and every id reached from the root.
Shaped(t) ==
  /\ t = [root |-> t.root, kids |-> t.kids, look |-> t.look]
  /\ t.root \in Undone!Ids(t)
  /\ t.kids \in [Undone!Ids(t) -> Seq(Undone!Ids(t))]
  /\ t.look = [m \in Undone!Ids(t) |-> t.look[m]]
PlacedOnce(t) ==
  /\ \A p, q \in Undone!Ids(t) : \A i \in 1..Len(t.kids[p]), j \in 1..Len(t.kids[q]) :
       t.kids[p][i] = t.kids[q][j] => p = q /\ i = j
  /\ \A p \in Undone!Ids(t) : \A i \in 1..Len(t.kids[p]) : t.kids[p][i] # t.root
Founded(t) ==
  \A ids \in SUBSET Undone!Ids(t) :
    ids # {} => \E x \in ids : \A i \in 1..Len(t.kids[x]) : t.kids[x][i] \notin ids
Rooted(t) == \A ids \in SUBSET Undone!Ids(t) : t.root \in ids /\ Closed(t, ids) => ids = Undone!Ids(t)
IsTree(t) == Shaped(t) /\ PlacedOnce(t) /\ Founded(t) /\ Rooted(t)

\* The ids that every closed set with n in it has.
Reach(t, n) == {x \in Undone!Ids(t) : \A ids \in SUBSET Undone!Ids(t) : n \in ids /\ Closed(t, ids) => x \in ids}

\* The children of an id, as a set.
LEMMA KidsAsSet ==
  ASSUME NEW t, IsTree(t), NEW m \in Undone!Ids(t)
  PROVE  Undone!ToSet(t.kids[m]) = {t.kids[m][i] : i \in 1..Len(t.kids[m])}
<1>1. t.kids[m] \in Seq(Undone!Ids(t))
  BY DEF IsTree, Shaped
<1>2. DOMAIN t.kids[m] = 1..Len(t.kids[m])
  BY <1>1, LenProperties
<1> QED
  BY <1>2 DEF Undone!ToSet

LEMMA KidsAreIds ==
  ASSUME NEW t, IsTree(t), NEW m \in Undone!Ids(t)
  PROVE  /\ t.kids[m] \in Seq(Undone!Ids(t))
         /\ Len(t.kids[m]) \in Nat
         /\ DOMAIN t.kids[m] = 1..Len(t.kids[m])
         /\ \A i \in 1..Len(t.kids[m]) : t.kids[m][i] \in Undone!Ids(t)
         /\ Undone!ToSet(t.kids[m]) \subseteq Undone!Ids(t)
<1>1. t.kids[m] \in Seq(Undone!Ids(t))
  BY DEF IsTree, Shaped
<1>2. /\ Len(t.kids[m]) \in Nat /\ DOMAIN t.kids[m] = 1..Len(t.kids[m])
      /\ \A i \in 1..Len(t.kids[m]) : t.kids[m][i] \in Undone!Ids(t)
  BY <1>1, LenProperties, ElementOfSeq
<1>3. Undone!ToSet(t.kids[m]) \subseteq Undone!Ids(t)
  BY <1>2 DEF Undone!ToSet
<1> QED
  BY <1>1, <1>2, <1>3

LEMMA ReachIsClosed ==
  ASSUME NEW t, IsTree(t), NEW n \in Undone!Ids(t)
  PROVE  /\ Reach(t, n) \subseteq Undone!Ids(t) /\ n \in Reach(t, n) /\ Closed(t, Reach(t, n))
         /\ \A ids \in SUBSET Undone!Ids(t) : n \in ids /\ Closed(t, ids) => Reach(t, n) \subseteq ids
<1>1. Reach(t, n) \subseteq Undone!Ids(t) /\ n \in Reach(t, n)
  BY DEF Reach
<1>2. \A ids \in SUBSET Undone!Ids(t) : n \in ids /\ Closed(t, ids) => Reach(t, n) \subseteq ids
  BY DEF Reach
<1>3. ASSUME NEW m \in Reach(t, n), NEW i \in 1..Len(t.kids[m])
      PROVE  t.kids[m][i] \in Reach(t, n)
  <2>1. t.kids[m][i] \in Undone!Ids(t)
    BY <1>1, KidsAreIds
  <2>2. ASSUME NEW ids \in SUBSET Undone!Ids(t), n \in ids, Closed(t, ids)
        PROVE  t.kids[m][i] \in ids
    <3>1. m \in ids
      BY <2>2 DEF Reach
    <3> QED
      BY <2>2, <3>1 DEF Closed
  <2> QED
    BY <2>1, <2>2 DEF Reach
<1> QED
  BY <1>1, <1>2, <1>3 DEF Closed

\* What is reached is the id itself and what its children reach.
LEMMA ReachUnfolds ==
  ASSUME NEW t, IsTree(t), NEW n \in Undone!Ids(t)
  PROVE  Reach(t, n) = {n} \cup UNION {Reach(t, c) : c \in Undone!ToSet(t.kids[n])}
<1>1. Undone!ToSet(t.kids[n]) = {t.kids[n][i] : i \in 1..Len(t.kids[n])}
  BY KidsAsSet
<1>2. Undone!ToSet(t.kids[n]) \subseteq Undone!Ids(t)
  BY KidsAreIds
<1> DEFINE below == UNION {Reach(t, c) : c \in Undone!ToSet(t.kids[n])}
<1>3. \A c \in Undone!ToSet(t.kids[n]) : Reach(t, c) \subseteq Reach(t, n)
  <2> SUFFICES ASSUME NEW c \in Undone!ToSet(t.kids[n]) PROVE Reach(t, c) \subseteq Reach(t, n)
    OBVIOUS
  <2>1. c \in Reach(t, n)
    BY <1>1, ReachIsClosed DEF Closed
  <2> QED
    BY <1>2, <2>1, ReachIsClosed
<1>4. {n} \cup below \in SUBSET Undone!Ids(t)
  BY <1>3, ReachIsClosed
<1>5. ASSUME NEW m \in {n} \cup below, NEW i \in 1..Len(t.kids[m])
      PROVE  t.kids[m][i] \in {n} \cup below
  <2>1. CASE m = n
    <3>1. t.kids[n][i] \in Undone!ToSet(t.kids[n])
      BY <1>1, <2>1
    <3>2. t.kids[n][i] \in Reach(t, t.kids[n][i])
      BY <1>2, <3>1, ReachIsClosed
    <3> QED
      BY <2>1, <3>1, <3>2
  <2>2. CASE m # n
    <3>1. PICK c \in Undone!ToSet(t.kids[n]) : m \in Reach(t, c)
      BY <2>2
    <3>2. t.kids[m][i] \in Reach(t, c)
      BY <1>2, <3>1, ReachIsClosed DEF Closed
    <3> QED
      BY <3>2
  <2> QED
    BY <2>1, <2>2
<1>6. Reach(t, n) \subseteq {n} \cup below
  <2> HIDE DEF below
  <2>1. Closed(t, {n} \cup below)
    BY <1>5 DEF Closed
  <2> QED
    BY <1>4, <2>1, ReachIsClosed
<1>7. {n} \cup below \subseteq Reach(t, n)
  BY <1>3, ReachIsClosed
<1> QED
  BY <1>6, <1>7

\* subtreeIds, recursive as it is, gives exactly these.
LEMMA BelowIsReach ==
  ASSUME NEW t, IsTree(t), NEW n \in Undone!Ids(t)
  PROVE  Undone!Below(t, n) = Reach(t, n)
<1>1. \A m \in Undone!Ids(t) : Undone!ToSet(t.kids[m]) = {t.kids[m][i] : i \in 1..Len(t.kids[m])}
  <2> SUFFICES ASSUME NEW m \in Undone!Ids(t)
               PROVE  Undone!ToSet(t.kids[m]) = {t.kids[m][i] : i \in 1..Len(t.kids[m])}
    OBVIOUS
  <2> QED
    BY KidsAsSet
<1>2. \A m \in Undone!Ids(t) : Undone!ToSet(t.kids[m]) \subseteq Undone!Ids(t)
  BY KidsAreIds
<1> DEFINE Eq(f) == f = [m \in Undone!Ids(t) |-> {m} \cup UNION {f[c] : c \in Undone!ToSet(t.kids[m])}]
           below == CHOOSE f : Eq(f)
           reach == [m \in Undone!Ids(t) |-> Reach(t, m)]
<1>3. Eq(reach)
  <2>1. ASSUME NEW m \in Undone!Ids(t)
        PROVE  Reach(t, m) = {m} \cup UNION {reach[c] : c \in Undone!ToSet(t.kids[m])}
    <3>1. \A c \in Undone!ToSet(t.kids[m]) : reach[c] = Reach(t, c)
      BY <1>2
    <3>2. UNION {reach[c] : c \in Undone!ToSet(t.kids[m])} = UNION {Reach(t, c) : c \in Undone!ToSet(t.kids[m])}
      BY <3>1
    <3> QED
      BY <3>2, ReachUnfolds
  <2> QED
    BY <2>1
<1>4. Eq(below)
  BY <1>3
<1>5. Undone!Below(t, n) = below[n]
  BY DEF Undone!Below
<1> HIDE DEF below, reach
<1> DEFINE Wrong == {m \in Undone!Ids(t) : below[m] # Reach(t, m)}
<1>6. SUFFICES ASSUME Wrong # {} PROVE FALSE
  BY <1>5
<1>7. PICK x \in Wrong : \A i \in 1..Len(t.kids[x]) : t.kids[x][i] \notin Wrong
  BY <1>6 DEF IsTree, Founded
<1>8. \A c \in Undone!ToSet(t.kids[x]) : below[c] = Reach(t, c)
  <2> SUFFICES ASSUME NEW c \in Undone!ToSet(t.kids[x]) PROVE below[c] = Reach(t, c)
    OBVIOUS
  <2>1. x \in Undone!Ids(t)
    OBVIOUS
  <2>2. PICK i \in 1..Len(t.kids[x]) : c = t.kids[x][i]
    BY <1>1, <2>1
  <2>3. c \notin Wrong
    BY <1>7, <2>2
  <2>4. c \in Undone!Ids(t)
    BY <1>2, <2>1
  <2> QED
    BY <2>3, <2>4
<1>9. below[x] = {x} \cup UNION {below[c] : c \in Undone!ToSet(t.kids[x])}
  BY <1>4
<1>10. UNION {below[c] : c \in Undone!ToSet(t.kids[x])} = UNION {Reach(t, c) : c \in Undone!ToSet(t.kids[x])}
  BY <1>8
<1>11. below[x] = Reach(t, x)
  BY <1>9, <1>10, ReachUnfolds
<1> QED
  BY <1>11

\* findParentAndIndex finds the one place an id has.
LEMMA PlaceFound ==
  ASSUME NEW t, IsTree(t), NEW p \in Undone!Ids(t), NEW i \in 1..Len(t.kids[p])
  PROVE  Undone!ParentOf(t, t.kids[p][i]) = p /\ Undone!IndexOf(t, t.kids[p][i]) = i
<1> DEFINE n == t.kids[p][i]
<1>1. \A q \in Undone!Ids(t) : \A j \in 1..Len(t.kids[q]) : t.kids[q][j] = n => q = p /\ j = i
  BY DEF IsTree, PlacedOnce
<1> HIDE DEF n
<1>2. Undone!Contains(t.kids[p], n)
  BY DEF Undone!Contains, n
<1>3. \A q \in Undone!Ids(t) : Undone!Contains(t.kids[q], n) => q = p
  BY <1>1 DEF Undone!Contains
<1>4. Undone!ParentOf(t, n) = p
  BY <1>2, <1>3 DEF Undone!ParentOf
<1>5. Undone!PositionIn(t.kids[p], n) = i
  BY <1>1 DEF Undone!PositionIn, n
<1>6. Undone!IndexOf(t, n) = i
  BY <1>4, <1>5 DEF Undone!IndexOf
<1> QED
  BY <1>4, <1>6 DEF n

\* Every id but the root has one.
LEMMA PlaceExists ==
  ASSUME NEW t, IsTree(t), NEW n \in Undone!Ids(t), n # t.root
  PROVE  /\ Undone!ParentOf(t, n) \in Undone!Ids(t)
         /\ Undone!IndexOf(t, n) \in 1..Len(t.kids[Undone!ParentOf(t, n)])
         /\ t.kids[Undone!ParentOf(t, n)][Undone!IndexOf(t, n)] = n
<1>1. \E p \in Undone!Ids(t) : \E i \in 1..Len(t.kids[p]) : t.kids[p][i] = n
  <2> SUFFICES ASSUME \A p \in Undone!Ids(t) : \A i \in 1..Len(t.kids[p]) : t.kids[p][i] # n
               PROVE  FALSE
    OBVIOUS
  <2>1. Closed(t, Undone!Ids(t) \ {n})
    <3> SUFFICES ASSUME NEW m \in Undone!Ids(t) \ {n}, NEW i \in 1..Len(t.kids[m])
                 PROVE  t.kids[m][i] \in Undone!Ids(t) \ {n}
      BY DEF Closed
    <3> QED
      BY KidsAreIds
  <2>2. t.root \in Undone!Ids(t) \ {n} /\ Undone!Ids(t) \ {n} \in SUBSET Undone!Ids(t)
    BY DEF IsTree, Shaped
  <2> QED
    BY <2>1, <2>2 DEF IsTree, Rooted
<1>2. PICK p \in Undone!Ids(t) : \E i \in 1..Len(t.kids[p]) : t.kids[p][i] = n
  BY <1>1
<1>4. PICK i \in 1..Len(t.kids[p]) : t.kids[p][i] = n
  BY <1>2
<1>3. Undone!ParentOf(t, n) = p /\ Undone!IndexOf(t, n) = i
  BY <1>4, PlaceFound
<1> QED
  BY <1>4, <1>3

\* Nothing is below itself: a parent is not reached from its child, and the root from none.
LEMMA NoWayUp ==
  ASSUME NEW t, IsTree(t), NEW n \in Undone!Ids(t), n # t.root
  PROVE  Undone!ParentOf(t, n) \notin Undone!Below(t, n) /\ t.root \notin Undone!Below(t, n)
<1> DEFINE p == Undone!ParentOf(t, n)
<1>1. /\ p \in Undone!Ids(t) /\ n \in Undone!ToSet(t.kids[p])
      /\ \A m \in Undone!Ids(t) : Undone!ToSet(t.kids[m]) = {t.kids[m][i] : i \in 1..Len(t.kids[m])}
  <2>1. \A m \in Undone!Ids(t) : Undone!ToSet(t.kids[m]) = {t.kids[m][i] : i \in 1..Len(t.kids[m])}
    BY KidsAsSet
  <2>2. p \in Undone!Ids(t) /\ \E i \in 1..Len(t.kids[p]) : t.kids[p][i] = n
    BY PlaceExists
  <2> QED
    BY <2>1, <2>2
<1> HIDE DEF p
<1>2. p \notin Reach(t, n)
  <2> SUFFICES ASSUME p \in Reach(t, n) PROVE FALSE
    OBVIOUS
  <2> DEFINE Up == {x \in Undone!Ids(t) : p \in Reach(t, x)}
  <2>1. n \in Up
    OBVIOUS
  <2>2. PICK x \in Up : \A i \in 1..Len(t.kids[x]) : t.kids[x][i] \notin Up
    BY <2>1 DEF IsTree, Founded
  <2>3. Reach(t, x) = {x} \cup UNION {Reach(t, c) : c \in Undone!ToSet(t.kids[x])}
    BY ReachUnfolds
  <2>4. \A c \in Undone!ToSet(t.kids[x]) : p \notin Reach(t, c)
    <3> SUFFICES ASSUME NEW c \in Undone!ToSet(t.kids[x]) PROVE p \notin Reach(t, c)
      OBVIOUS
    <3>1. PICK i \in 1..Len(t.kids[x]) : c = t.kids[x][i]
      BY <1>1
    <3>2. c \in Undone!Ids(t) /\ c \notin Up
      BY <2>2, <3>1, KidsAreIds
    <3> QED
      BY <3>2
  <2>5. x = p
    BY <2>3, <2>4
  <2> QED
    BY <1>1, <2>4, <2>5
<1>3. t.root \notin Reach(t, n)
  <2> SUFFICES ASSUME t.root \in Reach(t, n) PROVE FALSE
    OBVIOUS
  <2>1. Reach(t, n) = Undone!Ids(t)
    BY ReachIsClosed DEF IsTree, Rooted
  <2> QED
    BY <1>1, <1>2, <2>1
<1> QED
  BY <1>2, <1>3, BelowIsReach DEF p

LEMMA BelowFacts ==
  ASSUME NEW t, IsTree(t), NEW n \in Undone!Ids(t)
  PROVE  /\ Undone!Below(t, n) \subseteq Undone!Ids(t) /\ n \in Undone!Below(t, n) /\ Closed(t, Undone!Below(t, n))
         /\ \A ids \in SUBSET Undone!Ids(t) : n \in ids /\ Closed(t, ids) => Undone!Below(t, n) \subseteq ids
BY BelowIsReach, ReachIsClosed

\* A whole tree is the subtree of its root.
LEMMA AllBelowRoot ==
  ASSUME NEW t, IsTree(t)
  PROVE  t.root \in Undone!Ids(t) /\ Undone!Below(t, t.root) = Undone!Ids(t) /\ Undone!Subtree(t, t.root) = t
<1>1. t.root \in Undone!Ids(t)
  BY DEF IsTree, Shaped
<1>2. Undone!Below(t, t.root) = Undone!Ids(t)
  BY <1>1, BelowFacts DEF IsTree, Rooted
<1>3. t.kids = [m \in Undone!Ids(t) |-> t.kids[m]] /\ t.look = [m \in Undone!Ids(t) |-> t.look[m]]
  BY DEF IsTree, Shaped
<1>4. Undone!Subtree(t, t.root) = t
  BY <1>2, <1>3 DEF Undone!Subtree, Undone!Part, IsTree, Shaped
<1> QED
  BY <1>1, <1>2, <1>4

\* A subtree is a tree.
LEMMA SubtreeIsTree ==
  ASSUME NEW t, IsTree(t), NEW n \in Undone!Ids(t)
  PROVE  IsTree(Undone!Subtree(t, n)) /\ Undone!Ids(Undone!Subtree(t, n)) = Undone!Below(t, n) /\ Undone!Subtree(t, n).root = n
<1> DEFINE B == Undone!Below(t, n)  u == Undone!Subtree(t, n)
<1>1. B \subseteq Undone!Ids(t) /\ n \in B /\ Closed(t, B)
  BY BelowFacts
<1>2. /\ u = [root |-> n, kids |-> [m \in B |-> t.kids[m]], look |-> [m \in B |-> t.look[m]]]
  BY DEF Undone!Subtree, Undone!Part
<1> HIDE DEF B, u
<1>3. /\ u.root = n /\ Undone!Ids(u) = B /\ \A m \in B : u.kids[m] = t.kids[m]
      /\ u.kids = [m \in B |-> t.kids[m]]
      /\ u.look = [m \in B |-> t.look[m]]
  BY <1>2 DEF Undone!Ids
<1>4. Shaped(u)
  <2>1. \A m \in B : t.kids[m] \in Seq(B)
    <3> SUFFICES ASSUME NEW m \in B PROVE t.kids[m] \in Seq(B)
      OBVIOUS
    <3>1. /\ t.kids[m] \in Seq(Undone!Ids(t)) /\ Len(t.kids[m]) \in Nat
          /\ \A i \in 1..Len(t.kids[m]) : t.kids[m][i] \in B
      BY <1>1, KidsAreIds DEF Closed
    <3>2. t.kids[m] = [i \in 1..Len(t.kids[m]) |-> t.kids[m][i]]
      BY <3>1, LenProperties
    <3>3. [i \in 1..Len(t.kids[m]) |-> t.kids[m][i]] \in Seq(B)
      BY <3>1, SeqDef
    <3> QED
      BY <3>2, <3>3
  <2> QED
    BY <1>1, <1>2, <1>3, <2>1 DEF Shaped
<1>5. PlacedOnce(u)
  <2>1. \A p \in B : \A i \in 1..Len(t.kids[p]) : t.kids[p][i] # n
    <3> SUFFICES ASSUME NEW p \in B, NEW i \in 1..Len(t.kids[p]), t.kids[p][i] = n PROVE FALSE
      OBVIOUS
    <3>1. p = Undone!ParentOf(t, n) /\ n # t.root
      BY <1>1, PlaceFound DEF IsTree, PlacedOnce
    <3> QED
      BY <3>1, NoWayUp DEF B
  <2>2. \A p, q \in B : \A i \in 1..Len(t.kids[p]), j \in 1..Len(t.kids[q]) :
          t.kids[p][i] = t.kids[q][j] => p = q /\ i = j
    BY <1>1 DEF IsTree, PlacedOnce
  <2> QED
    BY <1>3, <2>1, <2>2 DEF PlacedOnce
<1>6. Founded(u)
  <2> SUFFICES ASSUME NEW ids \in SUBSET B, ids # {}
               PROVE  \E x \in ids : \A i \in 1..Len(u.kids[x]) : u.kids[x][i] \notin ids
    BY <1>3 DEF Founded
  <2>1. PICK x \in ids : \A i \in 1..Len(t.kids[x]) : t.kids[x][i] \notin ids
    BY <1>1 DEF IsTree, Founded
  <2> QED
    BY <1>3, <2>1
<1>7. Rooted(u)
  <2> SUFFICES ASSUME NEW ids \in SUBSET B, n \in ids, Closed(u, ids)
               PROVE  ids = B
    BY <1>3 DEF Rooted
  <2>1. Closed(t, ids)
    BY <1>3 DEF Closed
  <2> QED
    BY <1>1, <2>1, BelowFacts DEF B
<1> QED
  BY <1>3, <1>4, <1>5, <1>6, <1>7 DEF IsTree, B, u

\* What is left when a subtree is taken out.
Without(t, n) == Undone!Ids(t) \ Undone!Below(t, n)

LEMMA CutForm ==
  ASSUME NEW t, IsTree(t), NEW n \in Undone!Ids(t), n # t.root
  PROVE  Undone!Cut(t, n) =
           [root |-> t.root,
            kids |-> [m \in Without(t, n) |->
                        IF m = Undone!ParentOf(t, n) THEN Undone!RemoveAt(t.kids[m], Undone!IndexOf(t, n))
                        ELSE t.kids[m]],
            look |-> [m \in Without(t, n) |-> t.look[m]]]
<1> DEFINE p == Undone!ParentOf(t, n)  W == Without(t, n)
<1>1. p \in W
  BY PlaceExists, NoWayUp DEF Without
<1>2. Undone!IndexOf(t, n) = Undone!PositionIn(t.kids[p], n)
  BY DEF Undone!IndexOf
<1>3. Undone!Cut(t, n) = [[root |-> t.root, kids |-> [m \in W |-> t.kids[m]],
                    look |-> [m \in W |-> t.look[m]]]
                   EXCEPT !.kids[p] = Undone!RemoveAt(@, Undone!PositionIn(@, n))]
  BY DEF Undone!Cut, Undone!Part, Without
<1> HIDE DEF p, W
<1>4. Undone!Cut(t, n) = [root |-> t.root,
                   kids |-> [[m \in W |-> t.kids[m]] EXCEPT
                               ![p] = Undone!RemoveAt(t.kids[p], Undone!PositionIn(t.kids[p], n))],
                   look |-> [m \in W |-> t.look[m]]]
  BY <1>1, <1>3
<1>5. [[m \in W |-> t.kids[m]] EXCEPT ![p] = Undone!RemoveAt(t.kids[p], Undone!PositionIn(t.kids[p], n))]
        = [m \in W |-> IF m = p THEN Undone!RemoveAt(t.kids[m], Undone!IndexOf(t, n)) ELSE t.kids[m]]
  BY <1>1, <1>2
<1> QED
  BY <1>4, <1>5 DEF p, W

\* The fields of a cut, for the lemmas that follow.
LEMMA CutFields ==
  ASSUME NEW t, IsTree(t), NEW n \in Undone!Ids(t), n # t.root
  PROVE  /\ Undone!Cut(t, n).root = t.root
         /\ Undone!Ids(Undone!Cut(t, n)) = Without(t, n)
         /\ Undone!Cut(t, n).look = [m \in Without(t, n) |-> t.look[m]]
         /\ \A m \in Without(t, n) :
              Undone!Cut(t, n).kids[m] = IF m = Undone!ParentOf(t, n) THEN Undone!RemoveAt(t.kids[m], Undone!IndexOf(t, n))
                                  ELSE t.kids[m]
         /\ Undone!Cut(t, n).kids = [m \in Without(t, n) |-> Undone!Cut(t, n).kids[m]]
         /\ Undone!Cut(t, n) = [root |-> Undone!Cut(t, n).root, kids |-> Undone!Cut(t, n).kids, look |-> Undone!Cut(t, n).look]
<1> DEFINE u == Undone!Cut(t, n)  W == Without(t, n)
           k == [m \in W |-> IF m = Undone!ParentOf(t, n) THEN Undone!RemoveAt(t.kids[m], Undone!IndexOf(t, n))
                             ELSE t.kids[m]]
<1>1. u = [root |-> t.root, kids |-> k, look |-> [m \in W |-> t.look[m]]]
  BY CutForm
<1> HIDE DEF u, W
<1>2. /\ u.root = t.root /\ u.kids = k /\ u.look = [m \in W |-> t.look[m]]
  BY <1>1
<1> QED
  BY <1>1, <1>2 DEF Undone!Ids, u, W

\* What is left after the cut: the ids the subtree does not hold.
LEMMA CutIds ==
  ASSUME NEW t, IsTree(t), NEW n \in Undone!Ids(t), n # t.root
  PROVE  Undone!Ids(Undone!Cut(t, n)) = Without(t, n)
BY CutFields

\* A child that is left has been a child of the same parent, one place on when it came after
\* the one that was taken out.
LEMMA KidsLeft ==
  ASSUME NEW t, IsTree(t), NEW n \in Undone!Ids(t), n # t.root,
         NEW m \in Without(t, n)
  PROVE  /\ Undone!Cut(t, n).kids[m] \in Seq(Without(t, n))
         /\ \A i \in 1..Len(Undone!Cut(t, n).kids[m]) :
              \E j \in 1..Len(t.kids[m]) :
                /\ Undone!Cut(t, n).kids[m][i] = t.kids[m][j]
                /\ j = IF m = Undone!ParentOf(t, n) /\ ~(i < Undone!IndexOf(t, n)) THEN i + 1 ELSE i
         /\ \A j \in 1..Len(t.kids[m]) :
              t.kids[m][j] # n =>
                \E i \in 1..Len(Undone!Cut(t, n).kids[m]) : Undone!Cut(t, n).kids[m][i] = t.kids[m][j]
<1> DEFINE B == Undone!Below(t, n)  p == Undone!ParentOf(t, n)  x == Undone!IndexOf(t, n)  list == t.kids[m]
           u == Undone!Cut(t, n).kids[m]
<1>1. m \in Undone!Ids(t) /\ m \notin B
  BY DEF Without
<1>2. list \in Seq(Undone!Ids(t)) /\ Len(list) \in Nat
  BY <1>1, KidsAreIds
<1>3. u = IF m = p THEN Undone!RemoveAt(list, x) ELSE list
  BY CutFields
<1>4. m = p => x \in 1..Len(list) /\ list[x] = n
  BY PlaceExists
<1>5. \A j \in 1..Len(list) : list[j] = n => m = p /\ j = x
  BY <1>1, PlaceFound
<1>6. \A j \in 1..Len(list) : list[j] # n => list[j] \in Without(t, n)
  <2> SUFFICES ASSUME NEW j \in 1..Len(list), list[j] # n, list[j] \in B PROVE FALSE
    BY <1>1, KidsAreIds DEF Without
  <2>1. Closed(t, B \ {list[j]})
    <3> SUFFICES ASSUME NEW q \in B \ {list[j]}, NEW i \in 1..Len(t.kids[q])
                 PROVE  t.kids[q][i] \in B \ {list[j]}
      BY DEF Closed
    <3>1. t.kids[q][i] \in B
      BY BelowFacts DEF Closed
    <3>2. t.kids[q][i] # list[j]
      BY <1>1, BelowFacts DEF IsTree, PlacedOnce
    <3> QED
      BY <3>1, <3>2
  <2>2. n \in B \ {list[j]} /\ B \ {list[j]} \in SUBSET Undone!Ids(t)
    BY BelowFacts
  <2>3. B \subseteq B \ {list[j]}
    BY <2>1, <2>2, BelowFacts
  <2> QED
    BY <2>3
<1> HIDE DEF B, p, x, list, u
<1>7. CASE m # p
  <2>1. u = list
    BY <1>3, <1>7
  <2>2. \A j \in 1..Len(list) : list[j] \in Without(t, n)
    BY <1>5, <1>6, <1>7
  <2>3. list = [j \in 1..Len(list) |-> list[j]]
    BY <1>2, LenProperties
  <2>4. list \in Seq(Without(t, n))
    BY <1>2, <2>2, <2>3, SeqDef
  <2> QED
    BY <1>7, <2>1, <2>4 DEF u, list, p
<1>8. CASE m = p
  <2>1. /\ u \in Seq(Undone!Ids(t)) /\ Len(u) = Len(list) - 1
        /\ \A i \in 1..Len(list) - 1 : u[i] = IF i < x THEN list[i] ELSE list[i + 1]
    BY <1>2, <1>3, <1>4, <1>8, SpliceOut
  <2>2. x \in 1..Len(list)
    BY <1>4, <1>8
  <2>3. ASSUME NEW i \in 1..Len(u)
        PROVE  \E j \in 1..Len(list) : u[i] = list[j] /\ j # x /\ j = IF ~(i < x) THEN i + 1 ELSE i
    <3>1. i \in 1..Len(list) - 1
      BY <2>1
    <3>2. CASE i < x
      BY <1>2, <2>1, <3>1, <3>2
    <3>3. CASE ~(i < x)
      <4>1. i + 1 \in 1..Len(list) /\ i + 1 # x
        BY <1>2, <2>2, <3>1, <3>3
      <4>2. u[i] = list[i + 1]
        BY <2>1, <3>1, <3>3
      <4> QED
        BY <3>3, <4>1, <4>2
    <3> QED
      BY <3>2, <3>3
  <2>4. \A i \in 1..Len(u) : u[i] \in Without(t, n)
    BY <1>5, <1>6, <2>3
  <2>5. u \in Seq(Without(t, n))
    <3>1. u = [i \in 1..Len(u) |-> u[i]] /\ Len(u) \in Nat
      BY <2>1, LenProperties
    <3> QED
      BY <2>4, <3>1, SeqDef
  <2>6. ASSUME NEW j \in 1..Len(list), list[j] # n
        PROVE  \E i \in 1..Len(u) : u[i] = list[j]
    <3>1. j # x
      BY <1>4, <1>8, <2>6
    <3>2. CASE j < x
      <4>1. j \in 1..Len(list) - 1
        BY <1>2, <2>2, <3>2
      <4> QED
        BY <2>1, <3>2, <4>1
    <3>3. CASE j > x
      <4>1. j - 1 \in 1..Len(list) - 1 /\ ~(j - 1 < x) /\ j - 1 + 1 = j
        BY <1>2, <2>2, <3>3
      <4> QED
        BY <2>1, <4>1
    <3> QED
      BY <1>2, <2>2, <3>1, <3>2, <3>3
  <2> QED
    BY <1>8, <2>3, <2>5, <2>6 DEF u, list, p, x
<1> QED
  BY <1>7, <1>8

\* Taking a subtree out leaves a tree.
LEMMA CutIsTree ==
  ASSUME NEW t, IsTree(t), NEW n \in Undone!Ids(t), n # t.root
  PROVE  IsTree(Undone!Cut(t, n))
<1> DEFINE u == Undone!Cut(t, n)  W == Without(t, n)  B == Undone!Below(t, n)  x == Undone!IndexOf(t, n)
<1>1. /\ u.root = t.root /\ Undone!Ids(u) = W /\ u = [root |-> u.root, kids |-> u.kids, look |-> u.look]
      /\ u.kids = [m \in W |-> u.kids[m]]
      /\ u.look = [m \in W |-> t.look[m]]
  BY CutFields
<1>2. W \subseteq Undone!Ids(t) /\ W \cap B = {} /\ W \cup B = Undone!Ids(t) /\ t.root \in W
  BY NoWayUp, BelowFacts DEF Without, IsTree, Shaped
<1>3. \A m \in W : u.kids[m] \in Seq(W) /\ Len(u.kids[m]) \in Nat
  BY KidsLeft, LenProperties
<1>4. \A m \in W : \A i \in 1..Len(u.kids[m]) : \E j \in 1..Len(t.kids[m]) :
        /\ u.kids[m][i] = t.kids[m][j]
        /\ j = IF m = Undone!ParentOf(t, n) /\ ~(i < x) THEN i + 1 ELSE i
  BY KidsLeft
<1>5. \A m \in W : \A j \in 1..Len(t.kids[m]) :
        t.kids[m][j] # n => \E i \in 1..Len(u.kids[m]) : u.kids[m][i] = t.kids[m][j]
  <2> SUFFICES ASSUME NEW m \in W, NEW j \in 1..Len(t.kids[m]), t.kids[m][j] # n
               PROVE  \E i \in 1..Len(u.kids[m]) : u.kids[m][i] = t.kids[m][j]
    OBVIOUS
  <2> QED
    BY KidsLeft
<1>6. x \in Nat
  <2>1. Undone!ParentOf(t, n) \in Undone!Ids(t) /\ x \in 1..Len(t.kids[Undone!ParentOf(t, n)])
    BY PlaceExists
  <2> QED
    BY <2>1
<1>7. n \in B /\ Closed(t, B)
  BY BelowFacts
<1> HIDE DEF u, W, B, x
<1>8. Shaped(u)
  <2>1. u.kids \in [W -> Seq(W)]
    BY <1>1, <1>3
  <2>2. u.look = [m \in W |-> u.look[m]]
    BY <1>1
  <2> QED
    BY <1>1, <1>2, <2>1, <2>2 DEF Shaped
<1>9. PlacedOnce(u)
  <2>1. ASSUME NEW p \in W, NEW q \in W, NEW i \in 1..Len(u.kids[p]), NEW j \in 1..Len(u.kids[q]),
               u.kids[p][i] = u.kids[q][j]
        PROVE  p = q /\ i = j
    <3>1. PICK k \in 1..Len(t.kids[p]) :
            /\ u.kids[p][i] = t.kids[p][k]
            /\ k = IF p = Undone!ParentOf(t, n) /\ ~(i < x) THEN i + 1 ELSE i
      BY <1>4
    <3>2. PICK l \in 1..Len(t.kids[q]) :
            /\ u.kids[q][j] = t.kids[q][l]
            /\ l = IF q = Undone!ParentOf(t, n) /\ ~(j < x) THEN j + 1 ELSE j
      BY <1>4
    <3>3. p = q /\ k = l
      <4>1. p \in Undone!Ids(t) /\ q \in Undone!Ids(t) /\ t.kids[p][k] = t.kids[q][l]
        BY <1>2, <2>1, <3>1, <3>2
      <4> QED
        BY <4>1 DEF IsTree, PlacedOnce
    <3>4. i \in Int /\ j \in Int
      OBVIOUS
    <3>5. CASE p = Undone!ParentOf(t, n)
      BY <1>6, <3>1, <3>2, <3>3, <3>4, <3>5
    <3>6. CASE p # Undone!ParentOf(t, n)
      BY <3>1, <3>2, <3>3, <3>6
    <3> QED
      BY <3>5, <3>6
  <2>2. \A p \in W : \A i \in 1..Len(u.kids[p]) : u.kids[p][i] # t.root
    BY <1>2, <1>4 DEF IsTree, PlacedOnce
  <2> QED
    BY <1>1, <2>1, <2>2 DEF PlacedOnce
<1>10. Founded(u)
  <2> SUFFICES ASSUME NEW ids \in SUBSET W, ids # {}
               PROVE  \E m \in ids : \A i \in 1..Len(u.kids[m]) : u.kids[m][i] \notin ids
    BY <1>1 DEF Founded
  <2>1. PICK m \in ids : \A i \in 1..Len(t.kids[m]) : t.kids[m][i] \notin ids
    BY <1>2 DEF IsTree, Founded
  <2>2. \A i \in 1..Len(u.kids[m]) : u.kids[m][i] \notin ids
    BY <1>4, <2>1
  <2> QED
    BY <2>2
<1>11. Rooted(u)
  <2> SUFFICES ASSUME NEW ids \in SUBSET W, t.root \in ids, Closed(u, ids)
               PROVE  ids = W
    BY <1>1 DEF Rooted
  <2>1. Closed(t, ids \cup B)
    <3> SUFFICES ASSUME NEW m \in ids \cup B, NEW j \in 1..Len(t.kids[m])
                 PROVE  t.kids[m][j] \in ids \cup B
      BY DEF Closed
    <3>1. CASE m \in B
      BY <1>7, <3>1 DEF Closed
    <3>2. CASE t.kids[m][j] = n
      BY <1>7, <3>2
    <3>3. CASE m \in ids /\ t.kids[m][j] # n
      <4>1. PICK i \in 1..Len(u.kids[m]) : u.kids[m][i] = t.kids[m][j]
        BY <1>5, <3>3
      <4> QED
        BY <3>3, <4>1 DEF Closed
    <3> QED
      BY <3>1, <3>2, <3>3
  <2>2. ids \cup B = Undone!Ids(t)
    BY <1>2, <2>1 DEF IsTree, Rooted
  <2> QED
    BY <1>2, <2>2
<1> QED
  BY <1>8, <1>9, <1>10, <1>11 DEF IsTree, u

-----------------------------------------------------------------------------
(* Grafts *)

\* A tree c may be put under p of t: none of its ids is taken.
Graftable(t, p, i, c) ==
  IsTree(t) /\ IsTree(c) /\ p \in Undone!Ids(t) /\ i \in Nat \ {0} /\ Undone!Ids(t) \cap Undone!Ids(c) = {}

\* Where it comes to stand among the children of p.
At(t, p, i) == IF i > Len(t.kids[p]) + 1 THEN Len(t.kids[p]) + 1 ELSE i

\* What a graft is, field by field.
GraftOf(g, t, p, i, c) ==
  /\ g = [root |-> g.root, kids |-> g.kids, look |-> g.look]
  /\ g.root = t.root
  /\ Undone!Ids(g) = Undone!Ids(t) \cup Undone!Ids(c)
  /\ g.kids = [m \in Undone!Ids(t) \cup Undone!Ids(c) |-> g.kids[m]]
  /\ g.look = [m \in Undone!Ids(t) \cup Undone!Ids(c) |-> g.look[m]]
  /\ \A m \in Undone!Ids(c) : g.kids[m] = c.kids[m] /\ g.look[m] = c.look[m]
  /\ \A m \in Undone!Ids(t) : (m # p => g.kids[m] = t.kids[m]) /\ g.look[m] = t.look[m]
  /\ g.kids[p] = Undone!InsertAt(t.kids[p], At(t, p, i), c.root)
  /\ At(t, p, i) \in 1..Len(t.kids[p]) + 1

LEMMA GraftFields ==
  ASSUME NEW t, NEW p, NEW i, NEW c, Graftable(t, p, i, c)
  PROVE  GraftOf(Undone!Graft(t, p, i, c), t, p, i, c)
<1> DEFINE g == Undone!Graft(t, p, i, c)  W == Undone!Ids(t) \cup Undone!Ids(c)
           k == [m \in W |-> IF m = p THEN Undone!InsertAt(t.kids[p], At(t, p, i), c.root)
                             ELSE IF m \in Undone!Ids(c) THEN c.kids[m] ELSE t.kids[m]]
           l == [m \in W |-> IF m \in Undone!Ids(c) THEN c.look[m] ELSE t.look[m]]
<1>1. g = [root |-> t.root, kids |-> k, look |-> l]
  BY DEF Undone!Graft, At
<1>2. p \in Undone!Ids(t) /\ p \notin Undone!Ids(c) /\ Undone!Ids(t) \cap Undone!Ids(c) = {}
  BY DEF Graftable
<1>3. At(t, p, i) \in 1..Len(t.kids[p]) + 1
  <2>1. Len(t.kids[p]) \in Nat /\ i \in Nat \ {0}
    BY KidsAreIds DEF Graftable
  <2> QED
    BY <2>1 DEF At
<1> HIDE DEF g
<1>4. g.root = t.root /\ g.kids = k /\ g.look = l
  BY <1>1
<1>5. Undone!Ids(g) = W
  BY <1>4 DEF Undone!Ids
<1>6. /\ \A m \in Undone!Ids(c) : g.kids[m] = c.kids[m] /\ g.look[m] = c.look[m]
      /\ \A m \in Undone!Ids(t) : (m # p => g.kids[m] = t.kids[m]) /\ g.look[m] = t.look[m]
      /\ g.kids[p] = Undone!InsertAt(t.kids[p], At(t, p, i), c.root)
  BY <1>2, <1>4
<1>7. g = [root |-> g.root, kids |-> g.kids, look |-> g.look]
  BY <1>1, <1>4
<1>8. g.kids = [m \in W |-> g.kids[m]] /\ g.look = [m \in W |-> g.look[m]]
  BY <1>4
<1> QED
  BY <1>3, <1>4, <1>5, <1>6, <1>7, <1>8 DEF GraftOf, g

\* The children of m in h, which is t with c put under p: those it had in t, the root of c among them.
SeatsKept(h, t, p, i, c, m) ==
  /\ h.kids[m] \in Seq(Undone!Ids(t) \cup {c.root})
  /\ \A j \in 1..Len(h.kids[m]) :
       \/ m = p /\ j = At(t, p, i) /\ h.kids[m][j] = c.root
       \/ \E l \in 1..Len(t.kids[m]) :
            /\ h.kids[m][j] = t.kids[m][l]
            /\ l = IF m = p /\ j > At(t, p, i) THEN j - 1 ELSE j
  /\ \A l \in 1..Len(t.kids[m]) :
       \E j \in 1..Len(h.kids[m]) : h.kids[m][j] = t.kids[m][l]

\* The children of an id in a graft: what it had, and under p the root of what was put there.
LEMMA KidsGrafted ==
  ASSUME NEW t, NEW p, NEW i, NEW c, Graftable(t, p, i, c),
         NEW h, GraftOf(h, t, p, i, c),
         NEW m \in Undone!Ids(t)
  PROVE  SeatsKept(h, t, p, i, c, m)
<1> DEFINE g == h.kids[m]  a == At(t, p, i)  list == t.kids[m]  S == Undone!Ids(t) \cup {c.root}
<1>1. IsTree(t)
  BY DEF Graftable
<1>2. list \in Seq(Undone!Ids(t)) /\ Len(list) \in Nat
  BY <1>1, KidsAreIds
<1>3. list \in Seq(S)
  BY <1>2, SeqMonotonic
<1>4. m # p => g = list
  BY DEF GraftOf
<1>5. m = p => g = Undone!InsertAt(list, a, c.root) /\ a \in 1..Len(list) + 1
  BY DEF GraftOf
<1> HIDE DEF g, a, list, S
<1>6. CASE m # p
  <2>1. g \in Seq(S) /\ g = list
    BY <1>3, <1>4, <1>6
  <2>2. \A j \in 1..Len(list) : \E l \in 1..Len(list) : g[j] = list[l] /\ l = j
    BY <2>1
  <2>3. \A l \in 1..Len(list) : \E j \in 1..Len(list) : g[j] = list[l]
    BY <2>1
  <2> QED
    BY <1>6, <2>1, <2>2, <2>3 DEF SeatsKept, g, a, list, S
<1>7. CASE m = p
  <2>1. c.root \in S
    BY DEF S
  <2>2. a \in 1..Len(list) + 1 /\ g = Undone!InsertAt(list, a, c.root)
    BY <1>5, <1>7
  <2>3. /\ g \in Seq(S) /\ Len(g) = Len(list) + 1
        /\ \A j \in 1..Len(list) + 1 :
             g[j] = IF j < a THEN list[j] ELSE IF j = a THEN c.root ELSE list[j - 1]
    <3> DEFINE e == c.root
    <3> HIDE DEF e
    <3>1. Inserted(Undone!InsertAt(list, a, e), S, list, a, e)
      <4>1. e \in S
        BY <2>1 DEF e
      <4> QED
        BY <1>3, <2>2, <4>1, SpliceIn
    <3> QED
      BY <2>2, <3>1 DEF e, Inserted
  <2>4. ASSUME NEW j \in 1..Len(g)
        PROVE  \/ j = a /\ g[j] = c.root
               \/ \E l \in 1..Len(list) : g[j] = list[l] /\ l = IF j > a THEN j - 1 ELSE j
    <3>1. j \in 1..Len(list) + 1
      BY <2>3
    <3>2. CASE j < a
      <4>1. j \in 1..Len(list) /\ ~(j > a)
        BY <1>2, <2>2, <3>1, <3>2
      <4> QED
        BY <2>3, <3>1, <3>2, <4>1
    <3>3. CASE j = a
      BY <2>3, <3>1, <3>3
    <3>4. CASE j > a
      <4>1. j - 1 \in 1..Len(list) /\ ~(j < a) /\ j # a
        BY <1>2, <2>2, <3>1, <3>4
      <4>2. g[j] = list[j - 1]
        BY <2>3, <3>1, <4>1
      <4> QED
        BY <3>4, <4>1, <4>2
    <3> QED
      BY <2>2, <3>1, <3>2, <3>3, <3>4
  <2>5. ASSUME NEW l \in 1..Len(list)
        PROVE  \E j \in 1..Len(g) : g[j] = list[l]
    <3>1. CASE l < a
      <4>1. l \in 1..Len(list) + 1
        BY <1>2
      <4> QED
        BY <2>3, <3>1, <4>1
    <3>2. CASE ~(l < a)
      <4>1. l + 1 \in 1..Len(list) + 1 /\ ~(l + 1 < a) /\ l + 1 # a /\ l + 1 - 1 = l
        BY <1>2, <2>2, <3>2
      <4> QED
        BY <2>3, <4>1
    <3> QED
      BY <3>1, <3>2
  <2> QED
    BY <1>7, <2>3, <2>4, <2>5 DEF SeatsKept, g, a, list, S
<1> QED
  BY <1>6, <1>7

\* Putting a tree into a tree makes a tree.
LEMMA GraftIsTree ==
  ASSUME NEW t, NEW p, NEW i, NEW c, Graftable(t, p, i, c),
         NEW g, GraftOf(g, t, p, i, c)
  PROVE  IsTree(g)
<1> DEFINE T == Undone!Ids(t)  C == Undone!Ids(c)  a == At(t, p, i)
<1>1. IsTree(t) /\ IsTree(c) /\ p \in T /\ T \cap C = {} /\ t.root \in T /\ c.root \in C
  BY DEF Graftable, IsTree, Shaped
<1>2. /\ g = [root |-> g.root, kids |-> g.kids, look |-> g.look]
      /\ g.root = t.root /\ Undone!Ids(g) = T \cup C
      /\ g.kids = [m \in T \cup C |-> g.kids[m]] /\ g.look = [m \in T \cup C |-> g.look[m]]
      /\ \A m \in C : g.kids[m] = c.kids[m]
      /\ a \in 1..Len(t.kids[p]) + 1
  BY DEF GraftOf
<1>3. \A m \in T :
        /\ g.kids[m] \in Seq(T \cup {c.root})
        /\ \A j \in 1..Len(g.kids[m]) :
             \/ m = p /\ j = a /\ g.kids[m][j] = c.root
             \/ \E l \in 1..Len(t.kids[m]) :
                  g.kids[m][j] = t.kids[m][l] /\ l = IF m = p /\ j > a THEN j - 1 ELSE j
        /\ \A l \in 1..Len(t.kids[m]) : \E j \in 1..Len(g.kids[m]) : g.kids[m][j] = t.kids[m][l]
  <2> SUFFICES ASSUME NEW m \in T
               PROVE  /\ g.kids[m] \in Seq(T \cup {c.root})
                      /\ \A j \in 1..Len(g.kids[m]) :
                           \/ m = p /\ j = a /\ g.kids[m][j] = c.root
                           \/ \E l \in 1..Len(t.kids[m]) :
                                /\ g.kids[m][j] = t.kids[m][l]
                                /\ l = IF m = p /\ j > a THEN j - 1 ELSE j
                      /\ \A l \in 1..Len(t.kids[m]) :
                           \E j \in 1..Len(g.kids[m]) : g.kids[m][j] = t.kids[m][l]
    OBVIOUS
  <2>1. SeatsKept(g, t, p, i, c, m)
    BY KidsGrafted
  <2> QED
    BY <2>1 DEF SeatsKept
<1>4. \A m \in T : \A l \in 1..Len(t.kids[m]) : t.kids[m][l] \in T /\ t.kids[m][l] # t.root
  BY <1>1, KidsAreIds DEF IsTree, PlacedOnce
<1>5. \A m \in C : \A l \in 1..Len(c.kids[m]) : c.kids[m][l] \in C /\ c.kids[m][l] # c.root
  BY <1>1, KidsAreIds DEF IsTree, PlacedOnce
<1>6. a \in 1..Len(g.kids[p]) /\ g.kids[p][a] = c.root
  <2>1. t.kids[p] \in Seq(T) /\ Len(t.kids[p]) \in Nat
    BY <1>1, KidsAreIds
  <2>2. t.kids[p] \in Seq(T \cup C) /\ c.root \in T \cup C
    BY <1>1, <2>1, SeqMonotonic
  <2>3. g.kids[p] = Undone!InsertAt(t.kids[p], a, c.root)
    BY DEF GraftOf
  <2> QED
    BY <1>2, <2>2, <2>3, SplicedIn
<1>14. ASSUME NEW m \in T, NEW j \in 1..Len(g.kids[m])
       PROVE  \/ m = p /\ j = a /\ g.kids[m][j] = c.root /\ g.kids[m][j] \notin T
              \/ g.kids[m][j] # c.root /\ g.kids[m][j] \in T /\ g.kids[m][j] # t.root
  <2>1. CASE m = p /\ j = a /\ g.kids[m][j] = c.root
    BY <1>1, <2>1
  <2>2. CASE ~(m = p /\ j = a /\ g.kids[m][j] = c.root)
    <3>1. PICK l \in 1..Len(t.kids[m]) : g.kids[m][j] = t.kids[m][l]
      BY <1>3, <2>2
    <3>2. g.kids[m][j] \in T /\ g.kids[m][j] # t.root
      BY <1>4, <3>1
    <3> QED
      BY <1>1, <3>2
  <2> QED
    BY <2>1, <2>2
<1> HIDE DEF T, C, a
<1>7. Shaped(g)
  <2>1. ASSUME NEW m \in T \cup C PROVE g.kids[m] \in Seq(T \cup C)
    <3>1. CASE m \in T
      <4>1. g.kids[m] \in Seq(T \cup {c.root}) /\ T \cup {c.root} \subseteq T \cup C
        BY <1>1, <1>3, <3>1
      <4> QED
        BY <4>1, SeqMonotonic
    <3>2. CASE m \in C
      <4>1. g.kids[m] \in Seq(C)
        BY <1>1, <1>2, <3>2, KidsAreIds DEF C
      <4> QED
        BY <4>1, SeqMonotonic
    <3> QED
      BY <3>1, <3>2
  <2>2. g.kids \in [T \cup C -> Seq(T \cup C)]
    BY <1>2, <2>1
  <2> QED
    BY <1>1, <1>2, <2>2 DEF Shaped
<1>8. PlacedOnce(g)
  <2>1. ASSUME NEW q \in T \cup C, NEW r \in T \cup C,
               NEW j \in 1..Len(g.kids[q]), NEW k \in 1..Len(g.kids[r]),
               g.kids[q][j] = g.kids[r][k]
        PROVE  q = r /\ j = k
    <3>1. CASE q \in C /\ r \in C
      <4>1. /\ g.kids[q] = c.kids[q] /\ g.kids[r] = c.kids[r]
            /\ q \in Undone!Ids(c) /\ r \in Undone!Ids(c)
        BY <1>2, <3>1 DEF C
      <4> QED
        BY <1>1, <2>1, <4>1 DEF IsTree, PlacedOnce
    <3>2. \A m \in T : \A n \in 1..Len(g.kids[m]) : g.kids[m][n] \in T \cup {c.root}
      BY <1>14
    <3>3. \A m \in C : \A n \in 1..Len(g.kids[m]) : g.kids[m][n] \in C /\ g.kids[m][n] # c.root
      BY <1>2, <1>5
    <3>4. CASE q \in T /\ r \in T
      <4>1. CASE g.kids[q][j] = c.root
        <5>1. q = p /\ j = a
          BY <1>14, <3>4, <4>1
        <5>2. r = p /\ k = a
          BY <1>14, <2>1, <3>4, <4>1
        <5> QED
          BY <5>1, <5>2
      <4>2. CASE g.kids[q][j] # c.root
        <5>1. PICK l \in 1..Len(t.kids[q]) :
                g.kids[q][j] = t.kids[q][l] /\ l = IF q = p /\ j > a THEN j - 1 ELSE j
          BY <1>3, <3>4, <4>2
        <5>2. PICK n \in 1..Len(t.kids[r]) :
                g.kids[r][k] = t.kids[r][n] /\ n = IF r = p /\ k > a THEN k - 1 ELSE k
          BY <1>3, <2>1, <3>4, <4>2
        <5>3. q \in Undone!Ids(t) /\ r \in Undone!Ids(t) /\ t.kids[q][l] = t.kids[r][n]
          BY <2>1, <3>4, <5>1, <5>2 DEF T
        <5>4. q = r /\ l = n
          BY <1>1, <5>3 DEF IsTree, PlacedOnce
        <5>5. /\ q = p => j # a
              /\ r = p => k # a
          BY <1>6, <2>1, <4>2
        <5>6. j \in Int /\ k \in Int /\ a \in Int
          BY <1>2
        <5>7. CASE q = p
          BY <5>1, <5>2, <5>4, <5>5, <5>6, <5>7
        <5>8. CASE q # p
          BY <5>1, <5>2, <5>4, <5>8
        <5> QED
          BY <5>7, <5>8
      <4> QED
        BY <4>1, <4>2
    <3>5. CASE q \in T /\ r \in C
      BY <1>1, <2>1, <3>2, <3>3, <3>5
    <3>6. CASE q \in C /\ r \in T
      BY <1>1, <2>1, <3>2, <3>3, <3>6
    <3> QED
      BY <3>1, <3>4, <3>5, <3>6
  <2>2. ASSUME NEW q \in T \cup C, NEW j \in 1..Len(g.kids[q]) PROVE g.kids[q][j] # t.root
    <3>1. CASE q \in T
      BY <1>1, <1>14, <3>1
    <3>2. CASE q \in C
      BY <1>1, <1>2, <1>5, <3>2
    <3> QED
      BY <3>1, <3>2
  <2>a. Undone!Ids(g) = T \cup C /\ g.root = t.root
    BY <1>2
  <2>3. \A q \in Undone!Ids(g) : \A j \in 1..Len(g.kids[q]) : g.kids[q][j] # g.root
    BY <2>2, <2>a
  <2>4. \A q, r \in Undone!Ids(g) : \A j \in 1..Len(g.kids[q]), k \in 1..Len(g.kids[r]) :
          g.kids[q][j] = g.kids[r][k] => q = r /\ j = k
    BY <1>2, <2>1
  <2> QED
    BY <2>3, <2>4 DEF PlacedOnce
<1>9. Founded(g)
  <2> SUFFICES ASSUME NEW ids \in SUBSET (T \cup C), ids # {}
               PROVE  \E x \in ids : \A j \in 1..Len(g.kids[x]) : g.kids[x][j] \notin ids
    BY <1>2 DEF Founded
  <2>1. CASE ids \cap C # {}
    <3>1. PICK x \in ids \cap C : \A j \in 1..Len(c.kids[x]) : c.kids[x][j] \notin ids \cap C
      BY <1>1, <2>1 DEF IsTree, Founded, C
    <3>2. \A j \in 1..Len(g.kids[x]) : g.kids[x][j] \notin ids
      BY <1>2, <1>5, <3>1
    <3> QED
      BY <3>2
  <2>2. CASE ids \cap C = {}
    <3>1. ids \in SUBSET Undone!Ids(t)
      BY <2>2 DEF T
    <3>2. PICK x \in ids : \A j \in 1..Len(t.kids[x]) : t.kids[x][j] \notin ids
      BY <1>1, <3>1 DEF IsTree, Founded
    <3>3. ASSUME NEW j \in 1..Len(g.kids[x]), g.kids[x][j] \in ids PROVE FALSE
      <4>1. x \in T /\ g.kids[x][j] # c.root
        BY <1>1, <2>2, <3>1, <3>3 DEF T
      <4>2. PICK l \in 1..Len(t.kids[x]) : g.kids[x][j] = t.kids[x][l]
        BY <1>3, <4>1
      <4> QED
        BY <3>2, <3>3, <4>2
    <3> QED
      BY <3>3
  <2> QED
    BY <2>1, <2>2
<1>10. Rooted(g)
  <2> SUFFICES ASSUME NEW ids \in SUBSET (T \cup C), t.root \in ids, Closed(g, ids)
               PROVE  ids = T \cup C
    BY <1>2 DEF Rooted
  <2>1. Closed(t, ids \cap T)
    <3> SUFFICES ASSUME NEW m \in ids \cap T, NEW l \in 1..Len(t.kids[m])
                 PROVE  t.kids[m][l] \in ids \cap T
      BY DEF Closed
    <3>1. PICK j \in 1..Len(g.kids[m]) : g.kids[m][j] = t.kids[m][l]
      BY <1>3
    <3> QED
      BY <1>4, <3>1 DEF Closed
  <2>2. ids \cap T = T
    BY <1>1, <2>1 DEF IsTree, Rooted, T
  <2>3. c.root \in ids
    <3>1. p \in ids
      BY <1>1, <2>2
    <3> QED
      BY <1>6, <3>1 DEF Closed
  <2>4. Closed(c, ids \cap C)
    <3> SUFFICES ASSUME NEW m \in ids \cap C, NEW l \in 1..Len(c.kids[m])
                 PROVE  c.kids[m][l] \in ids \cap C
      BY DEF Closed
    <3> QED
      BY <1>2, <1>5 DEF Closed
  <2>5. ids \cap C = C
    BY <1>1, <2>3, <2>4 DEF IsTree, Rooted, C
  <2> QED
    BY <2>2, <2>5
<1> QED
  BY <1>7, <1>8, <1>9, <1>10 DEF IsTree

\* What was put in stands where it was put, and all of it is below its root.
LEMMA GraftedStands ==
  ASSUME NEW t, NEW p, NEW i, NEW c, Graftable(t, p, i, c),
         NEW g, GraftOf(g, t, p, i, c)
  PROVE  /\ c.root \in Undone!Ids(g) /\ c.root # g.root
         /\ Undone!ParentOf(g, c.root) = p /\ Undone!IndexOf(g, c.root) = At(t, p, i)
         /\ Undone!Below(g, c.root) = Undone!Ids(c)
         /\ Without(g, c.root) = Undone!Ids(t)
<1> DEFINE T == Undone!Ids(t)  C == Undone!Ids(c)  a == At(t, p, i)
<1>1. IsTree(t) /\ IsTree(c) /\ p \in T /\ T \cap C = {} /\ t.root \in T /\ c.root \in C
  BY DEF Graftable, IsTree, Shaped
<1>2. /\ g.root = t.root /\ Undone!Ids(g) = T \cup C
      /\ \A m \in C : g.kids[m] = c.kids[m]
      /\ a \in 1..Len(t.kids[p]) + 1
      /\ g.kids[p] = Undone!InsertAt(t.kids[p], a, c.root)
  BY DEF GraftOf
<1>3. IsTree(g)
  BY GraftIsTree
<1>4. a \in 1..Len(g.kids[p]) /\ g.kids[p][a] = c.root
  <2>1. t.kids[p] \in Seq(T) /\ Len(t.kids[p]) \in Nat
    BY <1>1, KidsAreIds
  <2> DEFINE S == T \cup C
  <2>2. t.kids[p] \in Seq(S) /\ c.root \in S
    BY <1>1, <2>1, SeqMonotonic
  <2>3. g.kids[p] = Undone!InsertAt(t.kids[p], a, c.root) /\ a \in 1..Len(t.kids[p]) + 1
    BY <1>2
  <2> HIDE DEF T, C, a, S
  <2>4. \A e \in S : /\ a \in 1..Len(Undone!InsertAt(t.kids[p], a, e))
                     /\ Undone!InsertAt(t.kids[p], a, e)[a] = e
    BY <2>2, <2>3, SplicedIn
  <2> QED
    BY <2>2, <2>3, <2>4
<1>5. Undone!ParentOf(g, c.root) = p /\ Undone!IndexOf(g, c.root) = a
  <2>1. p \in Undone!Ids(g)
    BY <1>1, <1>2
  <2> QED
    BY <1>3, <1>4, <2>1, PlaceFound
<1>6. Undone!Below(g, c.root) = C
  <2>1. c.root \in Undone!Ids(g)
    BY <1>1, <1>2
  <2>2. \A m \in C : \A l \in 1..Len(c.kids[m]) : c.kids[m][l] \in C
    BY <1>1, KidsAreIds
  <2>3. Closed(g, C)
    BY <1>2, <2>2 DEF Closed
  <2>4. Undone!Below(g, c.root) \subseteq C
    BY <1>1, <1>2, <1>3, <2>1, <2>3, BelowFacts
  <2>5. Closed(c, Undone!Below(g, c.root))
    <3>1. Closed(g, Undone!Below(g, c.root))
      BY <1>3, <2>1, BelowFacts
    <3> QED
      BY <1>2, <2>4, <3>1 DEF Closed
  <2>6. c.root \in Undone!Below(g, c.root)
    BY <1>3, <2>1, BelowFacts
  <2> QED
    BY <1>1, <2>4, <2>5, <2>6 DEF IsTree, Rooted
<1> QED
  BY <1>1, <1>2, <1>5, <1>6 DEF Without

\* Taking it out again gives back the tree it was put into, and what was put there.
LEMMA CutUndoesGraft ==
  ASSUME NEW t, NEW p, NEW i, NEW c, Graftable(t, p, i, c)
  PROVE  /\ Undone!Cut(Undone!Graft(t, p, i, c), c.root) = t
         /\ Undone!Subtree(Undone!Graft(t, p, i, c), c.root) = c
<1> DEFINE g == Undone!Graft(t, p, i, c)
<1>1. GraftOf(g, t, p, i, c)
  BY GraftFields
<1> HIDE DEF g
<1>2. /\ c.root \in Undone!Ids(g) /\ c.root # g.root
      /\ Undone!ParentOf(g, c.root) = p /\ Undone!IndexOf(g, c.root) = At(t, p, i)
      /\ Undone!Below(g, c.root) = Undone!Ids(c)
      /\ Without(g, c.root) = Undone!Ids(t)
  BY <1>1, GraftedStands
<1>3. IsTree(g) /\ IsTree(t) /\ IsTree(c) /\ p \in Undone!Ids(t)
  BY <1>1, GraftIsTree DEF Graftable
<1>4. /\ g.root = t.root /\ g.kids[p] = Undone!InsertAt(t.kids[p], At(t, p, i), c.root)
      /\ At(t, p, i) \in 1..Len(t.kids[p]) + 1
      /\ \A m \in Undone!Ids(t) : (m # p => g.kids[m] = t.kids[m]) /\ g.look[m] = t.look[m]
      /\ \A m \in Undone!Ids(c) : g.kids[m] = c.kids[m] /\ g.look[m] = c.look[m]
  BY <1>1 DEF GraftOf
<1>5. Undone!Cut(g, c.root)
        = [root |-> g.root,
           kids |-> [m \in Undone!Ids(t) |-> IF m = p THEN Undone!RemoveAt(g.kids[m], At(t, p, i)) ELSE g.kids[m]],
           look |-> [m \in Undone!Ids(t) |-> g.look[m]]]
  BY <1>2, <1>3, CutForm
<1>6. Undone!RemoveAt(g.kids[p], At(t, p, i)) = t.kids[p]
  <2> DEFINE S == Undone!Ids(t) \cup {c.root}
  <2>1. t.kids[p] \in Seq(Undone!Ids(t))
    BY <1>3, KidsAreIds
  <2>2. t.kids[p] \in Seq(S) /\ c.root \in S
    BY <2>1, SeqMonotonic
  <2> DEFINE list == t.kids[p]  a == At(t, p, i)  e == c.root
  <2>3. list \in Seq(S) /\ e \in S /\ a \in 1..Len(list) + 1
    BY <1>4, <2>2
  <2> HIDE DEF S, list, a, e
  <2>4. Undone!RemoveAt(Undone!InsertAt(list, a, e), a) = list
    BY <2>3, SpliceInOut
  <2> QED
    BY <1>4, <2>4 DEF list, a, e
<1>7. [m \in Undone!Ids(t) |-> IF m = p THEN Undone!RemoveAt(g.kids[m], At(t, p, i)) ELSE g.kids[m]]
        = [m \in Undone!Ids(t) |-> t.kids[m]]
  BY <1>4, <1>6
<1>8. [m \in Undone!Ids(t) |-> g.look[m]] = [m \in Undone!Ids(t) |-> t.look[m]]
  BY <1>4
<1>9. /\ t = [root |-> t.root, kids |-> t.kids, look |-> t.look]
      /\ t.kids = [m \in Undone!Ids(t) |-> t.kids[m]] /\ t.look = [m \in Undone!Ids(t) |-> t.look[m]]
  BY <1>3 DEF IsTree, Shaped
<1>10. Undone!Cut(g, c.root) = t
  BY <1>4, <1>5, <1>7, <1>8, <1>9
<1>11. Undone!Subtree(g, c.root)
         = [root |-> c.root, kids |-> [m \in Undone!Ids(c) |-> g.kids[m]],
            look |-> [m \in Undone!Ids(c) |-> g.look[m]]]
  BY <1>2 DEF Undone!Subtree, Undone!Part
<1>12. /\ [m \in Undone!Ids(c) |-> g.kids[m]] = [m \in Undone!Ids(c) |-> c.kids[m]]
       /\ [m \in Undone!Ids(c) |-> g.look[m]] = [m \in Undone!Ids(c) |-> c.look[m]]
  BY <1>4
<1>13. /\ c = [root |-> c.root, kids |-> c.kids, look |-> c.look]
       /\ c.kids = [m \in Undone!Ids(c) |-> c.kids[m]] /\ c.look = [m \in Undone!Ids(c) |-> c.look[m]]
  BY <1>3 DEF IsTree, Shaped
<1>14. Undone!Subtree(g, c.root) = c
  BY <1>11, <1>12, <1>13
<1> QED
  BY <1>10, <1>14 DEF g

\* Putting a subtree back where it was gives back the tree it was taken from.
LEMMA GraftUndoesCut ==
  ASSUME NEW t, IsTree(t), NEW n \in Undone!Ids(t), n # t.root
  PROVE  /\ Graftable(Undone!Cut(t, n), Undone!ParentOf(t, n), Undone!IndexOf(t, n), Undone!Subtree(t, n))
         /\ Undone!Graft(Undone!Cut(t, n), Undone!ParentOf(t, n), Undone!IndexOf(t, n), Undone!Subtree(t, n)) = t
         /\ At(Undone!Cut(t, n), Undone!ParentOf(t, n), Undone!IndexOf(t, n)) = Undone!IndexOf(t, n)
<1> DEFINE u == Undone!Cut(t, n)  bare == Undone!Subtree(t, n)  p == Undone!ParentOf(t, n)  x == Undone!IndexOf(t, n)
           B == Undone!Below(t, n)  W == Without(t, n)
<1>1. IsTree(u) /\ IsTree(bare)
  BY CutIsTree, SubtreeIsTree
<1>2. Undone!Ids(bare) = B /\ bare.root = n /\ Undone!Ids(u) = W /\ u.root = t.root
  BY SubtreeIsTree, CutFields
<1>3. /\ p \in Undone!Ids(t) /\ x \in 1..Len(t.kids[p]) /\ t.kids[p][x] = n /\ p \in W
      /\ W \cap B = {} /\ W \cup B = Undone!Ids(t)
  BY PlaceExists, NoWayUp, BelowFacts DEF Without
<1>4. t.kids[p] \in Seq(Undone!Ids(t)) /\ Len(t.kids[p]) \in Nat
  BY <1>3, KidsAreIds
<1>5. x \in Nat \ {0}
  BY <1>3, <1>4
<1>6. Graftable(u, p, x, bare)
  BY <1>1, <1>2, <1>3, <1>5 DEF Graftable
<1> DEFINE g == Undone!Graft(u, p, x, bare)
<1>7. GraftOf(g, u, p, x, bare)
  BY <1>6, GraftFields
<1>8. u.kids[p] = Undone!RemoveAt(t.kids[p], x)
  BY <1>3, CutFields
<1>9. \A m \in W : (m # p => u.kids[m] = t.kids[m]) /\ u.look[m] = t.look[m]
  <2>1. \A m \in W : u.kids[m] = IF m = p THEN Undone!RemoveAt(t.kids[m], x) ELSE t.kids[m]
    BY CutFields
  <2>2. u.look = [m \in W |-> t.look[m]]
    BY CutFields
  <2> QED
    BY <2>1, <2>2
<1>10. \A m \in B : bare.kids[m] = t.kids[m] /\ bare.look[m] = t.look[m]
  BY DEF Undone!Subtree, Undone!Part
<1> HIDE DEF u, bare, p, x, B, W, g
<1>11. At(u, p, x) = x /\ Undone!InsertAt(u.kids[p], x, n) = t.kids[p]
  <2>1. x \in 1..Len(Undone!RemoveAt(t.kids[p], x)) + 1
        /\ Undone!InsertAt(Undone!RemoveAt(t.kids[p], x), x, n) = t.kids[p]
    BY <1>3, <1>4, SpliceOutIn
  <2>2. Len(u.kids[p]) \in Nat
    BY <1>1, <1>2, <1>3, KidsAreIds
  <2> QED
    BY <1>8, <2>1, <2>2 DEF At
<1>12. /\ g = [root |-> g.root, kids |-> g.kids, look |-> g.look]
       /\ g.root = t.root
       /\ g.kids = [m \in Undone!Ids(t) |-> g.kids[m]]
       /\ g.look = [m \in Undone!Ids(t) |-> g.look[m]]
       /\ \A m \in B : g.kids[m] = bare.kids[m] /\ g.look[m] = bare.look[m]
       /\ \A m \in W : (m # p => g.kids[m] = u.kids[m]) /\ g.look[m] = u.look[m]
       /\ g.kids[p] = Undone!InsertAt(u.kids[p], At(u, p, x), n)
  BY <1>2, <1>3, <1>7 DEF GraftOf
<1>13. ASSUME NEW m \in Undone!Ids(t) PROVE g.kids[m] = t.kids[m] /\ g.look[m] = t.look[m]
  <2>1. g.kids[p] = t.kids[p]
    BY <1>11, <1>12
  <2>2. CASE m \in B
    BY <1>10, <1>12, <2>2
  <2>3. CASE m \in W
    BY <1>9, <1>12, <2>1, <2>3
  <2> QED
    BY <1>3, <2>2, <2>3
<1>14. /\ t = [root |-> t.root, kids |-> t.kids, look |-> t.look]
       /\ t.kids = [m \in Undone!Ids(t) |-> t.kids[m]] /\ t.look = [m \in Undone!Ids(t) |-> t.look[m]]
  BY DEF IsTree, Shaped
<1>15. g.kids = t.kids /\ g.look = t.look
  BY <1>12, <1>13, <1>14
<1>16. g = t
  BY <1>12, <1>14, <1>15
<1> QED
  BY <1>6, <1>11, <1>16 DEF g, u, bare, p, x

\* What stands in the place of a subtree is found there, and taking it out again leaves what
\* taking the subtree out left.
LEMMA SwapStands ==
  ASSUME NEW t, IsTree(t), NEW n \in Undone!Ids(t), n # t.root,
         NEW c, IsTree(c), Undone!Ids(c) \cap Without(t, n) = {},
         NEW g, g = Undone!Graft(Undone!Cut(t, n), Undone!ParentOf(t, n), Undone!IndexOf(t, n), c)
  PROVE  /\ IsTree(g)
         /\ c.root \in Undone!Ids(g) /\ c.root # g.root
         /\ Undone!ParentOf(g, c.root) = Undone!ParentOf(t, n) /\ Undone!IndexOf(g, c.root) = Undone!IndexOf(t, n)
         /\ Without(g, c.root) = Without(t, n)
         /\ Undone!Cut(g, c.root) = Undone!Cut(t, n)
<1> DEFINE u == Undone!Cut(t, n)  p == Undone!ParentOf(t, n)  x == Undone!IndexOf(t, n)
<1>1. /\ Graftable(u, p, x, Undone!Subtree(t, n)) /\ At(u, p, x) = x
      /\ Undone!Ids(u) = Without(t, n)
  BY GraftUndoesCut, CutFields
<1> HIDE DEF u, p, x
<1>2. Graftable(u, p, x, c)
  BY <1>1 DEF Graftable
<1>3. g = Undone!Graft(u, p, x, c)
  BY DEF u, p, x
<1>4. GraftOf(g, u, p, x, c)
  BY <1>2, <1>3, GraftFields
<1>5. IsTree(g)
  BY <1>2, <1>4, GraftIsTree
<1>6. /\ c.root \in Undone!Ids(g) /\ c.root # g.root
      /\ Undone!ParentOf(g, c.root) = p /\ Undone!IndexOf(g, c.root) = x
      /\ Without(g, c.root) = Without(t, n)
  BY <1>1, <1>2, <1>4, GraftedStands
<1>7. Undone!Cut(g, c.root) = u
  BY <1>2, <1>3, CutUndoesGraft
<1> QED
  BY <1>5, <1>6, <1>7 DEF u, p, x

\* A tree whose looks change keeps its shape.
LEMMA LooksApart ==
  ASSUME NEW t, IsTree(t), NEW n \in Undone!Ids(t), NEW v,
         NEW g, g = [root |-> t.root, kids |-> t.kids, look |-> [t.look EXCEPT ![n] = v]]
  PROVE  /\ IsTree(g) /\ Undone!Ids(g) = Undone!Ids(t) /\ g.root = t.root /\ Undone!Below(g, n) = Undone!Below(t, n)
         /\ n # t.root => /\ Undone!Cut(g, n) = Undone!Cut(t, n)
                          /\ Undone!ParentOf(g, n) = Undone!ParentOf(t, n) /\ Undone!IndexOf(g, n) = Undone!IndexOf(t, n)
<1>1. g.root = t.root /\ g.kids = t.kids /\ g.look = [t.look EXCEPT ![n] = v]
  OBVIOUS
<1>2. Undone!Ids(g) = Undone!Ids(t)
  BY <1>1 DEF Undone!Ids
<1>3. IsTree(g)
  <2>1. g.look = [m \in Undone!Ids(t) |-> g.look[m]]
    <3>1. t.look = [m \in Undone!Ids(t) |-> t.look[m]]
      BY DEF IsTree, Shaped
    <3> QED
      BY <1>1, <3>1
  <2>2. Shaped(g)
    BY <1>1, <1>2, <2>1 DEF IsTree, Shaped
  <2>3. PlacedOnce(g)
    BY <1>1, <1>2 DEF IsTree, PlacedOnce
  <2>4. Founded(g)
    BY <1>1, <1>2 DEF IsTree, Founded
  <2>5. Rooted(g)
    BY <1>1, <1>2 DEF IsTree, Rooted, Closed
  <2> QED
    BY <2>2, <2>3, <2>4, <2>5 DEF IsTree
<1>4. Undone!Below(g, n) = Undone!Below(t, n)
  <2>1. Reach(g, n) = Reach(t, n)
    BY <1>1, <1>2 DEF Reach, Closed
  <2> QED
    BY <1>2, <1>3, <2>1, BelowIsReach
<1>5. ASSUME n # t.root
      PROVE  /\ Undone!Cut(g, n) = Undone!Cut(t, n)
             /\ Undone!ParentOf(g, n) = Undone!ParentOf(t, n) /\ Undone!IndexOf(g, n) = Undone!IndexOf(t, n)
  <2>1. Undone!ParentOf(g, n) = Undone!ParentOf(t, n)
    BY <1>1, <1>2 DEF Undone!ParentOf
  <2>2. Undone!IndexOf(g, n) = Undone!IndexOf(t, n)
    BY <1>1, <2>1 DEF Undone!IndexOf
  <2>3. Without(g, n) = Without(t, n) /\ n \notin Without(t, n)
    BY <1>2, <1>4, BelowFacts DEF Without
  <2>4. \A m \in Without(t, n) : g.look[m] = t.look[m]
    <3>1. t.look = [m \in Undone!Ids(t) |-> t.look[m]]
      BY DEF IsTree, Shaped
    <3> QED
      BY <1>1, <2>3, <3>1 DEF Without
  <2>5. Undone!Cut(g, n) =
          [root |-> g.root,
           kids |-> [m \in Without(g, n) |->
                       IF m = Undone!ParentOf(g, n) THEN Undone!RemoveAt(g.kids[m], Undone!IndexOf(g, n)) ELSE g.kids[m]],
           look |-> [m \in Without(g, n) |-> g.look[m]]]
    <3>1. n \in Undone!Ids(g) /\ n # g.root
      BY <1>1, <1>2, <1>5
    <3> QED
      BY ONLY <1>3, <3>1, CutForm
  <2>6. Undone!Cut(t, n) =
          [root |-> t.root,
           kids |-> [m \in Without(t, n) |->
                       IF m = Undone!ParentOf(t, n) THEN Undone!RemoveAt(t.kids[m], Undone!IndexOf(t, n)) ELSE t.kids[m]],
           look |-> [m \in Without(t, n) |-> t.look[m]]]
    BY <1>5, CutForm
  <2>7. [m \in Without(g, n) |-> g.look[m]] = [m \in Without(t, n) |-> t.look[m]]
    BY <2>3, <2>4
  <2>8. [m \in Without(g, n) |->
           IF m = Undone!ParentOf(g, n) THEN Undone!RemoveAt(g.kids[m], Undone!IndexOf(g, n)) ELSE g.kids[m]]
          = [m \in Without(t, n) |->
               IF m = Undone!ParentOf(t, n) THEN Undone!RemoveAt(t.kids[m], Undone!IndexOf(t, n)) ELSE t.kids[m]]
    BY <1>1, <2>1, <2>2, <2>3
  <2> QED
    BY <1>1, <2>1, <2>2, <2>5, <2>6, <2>7, <2>8
<1> QED
  BY <1>1, <1>2, <1>3, <1>4, <1>5

-----------------------------------------------------------------------------
(* Operations *)

\* What an operation may bring: a tree, and a place counted from one.
IsAdd(op) == \E p, c : \E i \in Nat \ {0} : IsTree(c) /\ op = Undone!AddOp(p, i, c)
IsRemove(op) == \E n : op = Undone!RemoveOp(n)
IsReplace(op) == \E n, c : IsTree(c) /\ op = Undone!ReplaceOp(n, c)
IsMove(op) == \E n, p : \E i \in Nat \ {0} : op = Undone!MoveOp(n, p, i)
IsRewrite(op) == \E n, content : op = Undone!RewriteOp(n, content)
IsSignal(op) == \E n : \E name \in Undone!SignalOps : op = Undone!SignalOp(name, n)
IsOp(op) ==
  IsAdd(op) \/ IsRemove(op) \/ IsReplace(op) \/ IsMove(op) \/ IsRewrite(op) \/ IsSignal(op)

\* Each operation, read out of the case distinctions.
LEMMA OfAdd ==
  ASSUME NEW t, NEW p, NEW i, NEW c
  PROVE  /\ Undone!Possible(t, Undone!AddOp(p, i, c)) <=> p \in Undone!Ids(t) /\ Undone!Ids(c) \cap Undone!Ids(t) = {}
         /\ Undone!Result(t, Undone!AddOp(p, i, c)) = Undone!Graft(t, p, i, c)
         /\ Undone!Inverse1(t, Undone!AddOp(p, i, c)) = Undone!RemoveOp(c.root)
BY DEF Undone!Possible, Undone!Result, Undone!Inverse1, Undone!AddOp

LEMMA OfRemove ==
  ASSUME NEW t, NEW n
  PROVE  /\ Undone!Possible(t, Undone!RemoveOp(n)) <=> n \in Undone!Ids(t) \ {t.root}
         /\ Undone!Result(t, Undone!RemoveOp(n)) = Undone!Cut(t, n)
         /\ Undone!Inverse1(t, Undone!RemoveOp(n)) = Undone!AddOp(Undone!ParentOf(t, n), Undone!IndexOf(t, n), Undone!Subtree(t, n))
BY DEF Undone!Possible, Undone!Result, Undone!Inverse1, Undone!RemoveOp

LEMMA OfReplace ==
  ASSUME NEW t, NEW n, NEW c
  PROVE  /\ Undone!Possible(t, Undone!ReplaceOp(n, c)) <=>
              n \in Undone!Ids(t) /\ (n # t.root => Undone!Ids(c) \cap Without(t, n) = {})
         /\ Undone!Result(t, Undone!ReplaceOp(n, c)) =
              IF n = t.root THEN c ELSE Undone!Graft(Undone!Cut(t, n), Undone!ParentOf(t, n), Undone!IndexOf(t, n), c)
         /\ Undone!Inverse1(t, Undone!ReplaceOp(n, c)) = Undone!ReplaceOp(c.root, Undone!Subtree(t, n))
BY DEF Undone!Possible, Undone!Result, Undone!Inverse1, Undone!ReplaceOp, Without

LEMMA OfMove ==
  ASSUME NEW t, NEW n, NEW p, NEW i
  PROVE  /\ Undone!Possible(t, Undone!MoveOp(n, p, i)) <=> n \in Undone!Ids(t) \ {t.root} /\ p \in Without(t, n)
         /\ Undone!Result(t, Undone!MoveOp(n, p, i)) = Undone!Graft(Undone!Cut(t, n), p, i, Undone!Subtree(t, n))
         /\ Undone!Inverse1(t, Undone!MoveOp(n, p, i)) = Undone!MoveOp(n, Undone!ParentOf(t, n), Undone!IndexOf(t, n))
BY DEF Undone!Possible, Undone!Result, Undone!Inverse1, Undone!MoveOp, Without

LEMMA OfRewrite ==
  ASSUME NEW t, NEW n, NEW content
  PROVE  /\ Undone!Possible(t, Undone!RewriteOp(n, content)) <=> n \in Undone!Ids(t)
         /\ Undone!Result(t, Undone!RewriteOp(n, content)) = [t EXCEPT !.look[n].content = content]
         /\ Undone!Inverse1(t, Undone!RewriteOp(n, content)) = Undone!ReplaceOp(n, Undone!Subtree(t, n))
BY DEF Undone!Possible, Undone!Result, Undone!Inverse1, Undone!RewriteOp

LEMMA OfSignal ==
  ASSUME NEW t, NEW n, NEW name \in Undone!SignalOps
  PROVE  /\ Undone!Possible(t, Undone!SignalOp(name, n)) <=> n \in Undone!Ids(t)
         /\ Undone!Result(t, Undone!SignalOp(name, n)) = [t EXCEPT !.look[n].signals = Undone!Signalled(@, name)]
         /\ Undone!Inverse1(t, Undone!SignalOp(name, n)) = Undone!ReplaceOp(n, Undone!Subtree(t, n))
<1>1. name \notin {"add", "remove", "replace", "move", "rewrite"}
  BY DEF Undone!SignalOps
<1>2. Undone!SignalOp(name, n).op = name /\ Undone!SignalOp(name, n).target = n
  BY DEF Undone!SignalOp
<1>3. Undone!Possible(t, Undone!SignalOp(name, n)) <=> n \in Undone!Ids(t)
  BY <1>1, <1>2 DEF Undone!Possible
<1>4. Undone!Result(t, Undone!SignalOp(name, n)) = [t EXCEPT !.look[n].signals = Undone!Signalled(@, name)]
  BY <1>1, <1>2 DEF Undone!Result
<1>5. Undone!Inverse1(t, Undone!SignalOp(name, n)) = Undone!ReplaceOp(n, Undone!Subtree(t, n))
  BY <1>1, <1>2 DEF Undone!Inverse1
<1> QED
  BY <1>3, <1>4, <1>5

\* What it is for an operation to be undone: its inverse is an operation, is possible on what
\* it made, and makes of that what there was.
Undoes(t, op) ==
  /\ IsTree(Undone!Result(t, op))
  /\ IsOp(Undone!Inverse1(t, op))
  /\ Undone!Possible(Undone!Result(t, op), Undone!Inverse1(t, op))
  /\ Undone!Result(Undone!Result(t, op), Undone!Inverse1(t, op)) = t

LEMMA AddUndone ==
  ASSUME NEW t, IsTree(t), NEW p, NEW c, IsTree(c), NEW i \in Nat \ {0}, Undone!Possible(t, Undone!AddOp(p, i, c))
  PROVE  Undoes(t, Undone!AddOp(p, i, c))
<1> DEFINE g == Undone!Graft(t, p, i, c)
<1>1. Graftable(t, p, i, c)
  BY OfAdd DEF Graftable
<1>2. GraftOf(g, t, p, i, c)
  BY <1>1, GraftFields
<1>3. IsTree(g) /\ c.root \in Undone!Ids(g) /\ c.root # g.root /\ Undone!Cut(g, c.root) = t
  BY <1>1, <1>2, GraftIsTree, GraftedStands, CutUndoesGraft
<1>4. Undone!Possible(g, Undone!RemoveOp(c.root)) /\ Undone!Result(g, Undone!RemoveOp(c.root)) = t
  BY <1>3, OfRemove
<1>5. IsOp(Undone!RemoveOp(c.root))
  BY DEF IsOp, IsRemove
<1>6. Undone!Result(t, Undone!AddOp(p, i, c)) = g /\ Undone!Inverse1(t, Undone!AddOp(p, i, c)) = Undone!RemoveOp(c.root)
  BY OfAdd
<1> QED
  BY <1>3, <1>4, <1>5, <1>6 DEF Undoes

LEMMA RemoveUndone ==
  ASSUME NEW t, IsTree(t), NEW n, Undone!Possible(t, Undone!RemoveOp(n))
  PROVE  Undoes(t, Undone!RemoveOp(n))
<1> DEFINE u == Undone!Cut(t, n)  p == Undone!ParentOf(t, n)  x == Undone!IndexOf(t, n)  c == Undone!Subtree(t, n)
<1>1. n \in Undone!Ids(t) /\ n # t.root
  BY OfRemove
<1>2. IsTree(u) /\ Graftable(u, p, x, c) /\ Undone!Graft(u, p, x, c) = t
  BY <1>1, CutIsTree, GraftUndoesCut
<1> HIDE DEF u, p, x, c
<1>3. Undone!Possible(u, Undone!AddOp(p, x, c)) /\ Undone!Result(u, Undone!AddOp(p, x, c)) = t
  BY <1>2, OfAdd DEF Graftable
<1>4. IsOp(Undone!AddOp(p, x, c))
  BY <1>2 DEF IsOp, IsAdd, Graftable
<1>5. Undone!Result(t, Undone!RemoveOp(n)) = u /\ Undone!Inverse1(t, Undone!RemoveOp(n)) = Undone!AddOp(p, x, c)
  BY OfRemove DEF u, p, x, c
<1> QED
  BY <1>2, <1>3, <1>4, <1>5 DEF Undoes

LEMMA ReplaceUndone ==
  ASSUME NEW t, IsTree(t), NEW n, NEW c, IsTree(c), Undone!Possible(t, Undone!ReplaceOp(n, c))
  PROVE  Undoes(t, Undone!ReplaceOp(n, c))
<1> DEFINE bare == Undone!Subtree(t, n)  g == Undone!Result(t, Undone!ReplaceOp(n, c))
<1>1. n \in Undone!Ids(t) /\ (n # t.root => Undone!Ids(c) \cap Without(t, n) = {})
  BY OfReplace
<1>2. IsTree(bare) /\ Undone!Ids(bare) = Undone!Below(t, n)
  BY <1>1, SubtreeIsTree
<1>3. Undone!Inverse1(t, Undone!ReplaceOp(n, c)) = Undone!ReplaceOp(c.root, bare) /\ IsOp(Undone!ReplaceOp(c.root, bare))
  BY <1>2, OfReplace DEF IsOp, IsReplace
<1>4. CASE n = t.root
  <2>1. g = c /\ bare = t
    BY <1>4, OfReplace, AllBelowRoot
  <2>2. c.root \in Undone!Ids(c)
    BY DEF IsTree, Shaped
  <2>3. Undone!Possible(g, Undone!ReplaceOp(c.root, bare)) /\ Undone!Result(g, Undone!ReplaceOp(c.root, bare)) = t
    BY <2>1, <2>2, OfReplace
  <2> QED
    BY <1>3, <2>1, <2>3 DEF Undoes
<1>5. CASE n # t.root
  <2>1. g = Undone!Graft(Undone!Cut(t, n), Undone!ParentOf(t, n), Undone!IndexOf(t, n), c)
    BY <1>5, OfReplace
  <2> HIDE DEF g, bare
  <2>2. /\ IsTree(g)
        /\ c.root \in Undone!Ids(g) /\ c.root # g.root
        /\ Undone!ParentOf(g, c.root) = Undone!ParentOf(t, n) /\ Undone!IndexOf(g, c.root) = Undone!IndexOf(t, n)
        /\ Without(g, c.root) = Without(t, n)
        /\ Undone!Cut(g, c.root) = Undone!Cut(t, n)
    BY <1>1, <1>5, <2>1, SwapStands
  <2>3. Undone!Ids(bare) \cap Without(g, c.root) = {}
    BY <1>2, <2>2 DEF Without
  <2>4. Undone!Possible(g, Undone!ReplaceOp(c.root, bare))
    BY <2>2, <2>3, OfReplace
  <2>5. Undone!Result(g, Undone!ReplaceOp(c.root, bare)) = Undone!Graft(Undone!Cut(t, n), Undone!ParentOf(t, n), Undone!IndexOf(t, n), bare)
    BY <2>2, OfReplace
  <2>6. Undone!Result(g, Undone!ReplaceOp(c.root, bare)) = t
    BY <1>1, <1>5, <2>5, GraftUndoesCut DEF bare
  <2> QED
    BY <1>3, <2>2, <2>4, <2>6 DEF Undoes, g
<1> QED
  BY <1>4, <1>5

LEMMA MoveUndone ==
  ASSUME NEW t, IsTree(t), NEW n, NEW p, NEW i \in Nat \ {0}, Undone!Possible(t, Undone!MoveOp(n, p, i))
  PROVE  Undoes(t, Undone!MoveOp(n, p, i))
<1> DEFINE u == Undone!Cut(t, n)  q == Undone!ParentOf(t, n)  x == Undone!IndexOf(t, n)  bare == Undone!Subtree(t, n)
           g == Undone!Graft(u, p, i, bare)
<1>1. n \in Undone!Ids(t) /\ n # t.root /\ p \in Without(t, n)
  BY OfMove
<1>2. IsTree(u) /\ Graftable(u, q, x, bare) /\ Undone!Graft(u, q, x, bare) = t /\ Undone!Ids(u) = Without(t, n)
  BY <1>1, CutIsTree, GraftUndoesCut, CutFields
<1>3. bare.root = n
  BY <1>1, SubtreeIsTree
<1> HIDE DEF u, q, x, bare
<1>4. Graftable(u, p, i, bare)
  BY <1>1, <1>2 DEF Graftable
<1>5. GraftOf(g, u, p, i, bare)
  BY <1>4, GraftFields
<1>6. Undone!Cut(g, n) = u /\ Undone!Subtree(g, n) = bare
  BY <1>3, <1>4, CutUndoesGraft
<1> HIDE DEF g
<1>7. IsTree(g) /\ n \in Undone!Ids(g) /\ n # g.root /\ Without(g, n) = Undone!Ids(u)
  BY <1>3, <1>4, <1>5, GraftIsTree, GraftedStands
<1>8. q \in Undone!Ids(u)
  BY <1>2 DEF Graftable
<1>9. Undone!Possible(g, Undone!MoveOp(n, q, x)) /\ Undone!Result(g, Undone!MoveOp(n, q, x)) = t
  BY <1>2, <1>6, <1>7, <1>8, OfMove
<1>10. IsOp(Undone!MoveOp(n, q, x))
  BY <1>2 DEF IsOp, IsMove, Graftable
<1>11. Undone!Result(t, Undone!MoveOp(n, p, i)) = g /\ Undone!Inverse1(t, Undone!MoveOp(n, p, i)) = Undone!MoveOp(n, q, x)
  BY OfMove DEF g, u, q, x, bare
<1> QED
  BY <1>7, <1>9, <1>10, <1>11 DEF Undoes

\* An operation that changes a look is undone by putting the whole node back.
LEMMA LookUndone ==
  ASSUME NEW t, IsTree(t), NEW n \in Undone!Ids(t), NEW v,
         NEW g, g = [root |-> t.root, kids |-> t.kids, look |-> [t.look EXCEPT ![n] = v]]
  PROVE  /\ IsTree(g) /\ IsOp(Undone!ReplaceOp(n, Undone!Subtree(t, n)))
         /\ Undone!Possible(g, Undone!ReplaceOp(n, Undone!Subtree(t, n)))
         /\ Undone!Result(g, Undone!ReplaceOp(n, Undone!Subtree(t, n))) = t
<1> DEFINE bare == Undone!Subtree(t, n)
<1>1. IsTree(bare) /\ Undone!Ids(bare) = Undone!Below(t, n)
  BY SubtreeIsTree
<1>2. /\ IsTree(g) /\ Undone!Ids(g) = Undone!Ids(t) /\ g.root = t.root /\ Undone!Below(g, n) = Undone!Below(t, n)
      /\ n # t.root => /\ Undone!Cut(g, n) = Undone!Cut(t, n)
                       /\ Undone!ParentOf(g, n) = Undone!ParentOf(t, n) /\ Undone!IndexOf(g, n) = Undone!IndexOf(t, n)
  BY LooksApart
<1>3. IsOp(Undone!ReplaceOp(n, bare))
  BY <1>1 DEF IsOp, IsReplace
<1>4. Undone!Possible(g, Undone!ReplaceOp(n, bare))
  <2>1. Undone!Ids(bare) \cap Without(g, n) = {} /\ n \in Undone!Ids(g)
    BY <1>1, <1>2 DEF Without
  <2> HIDE DEF bare
  <2> QED
    BY <2>1, OfReplace
<1>5. CASE n = t.root
  <2>1. bare = t
    BY <1>5, AllBelowRoot
  <2>2. Undone!Result(g, Undone!ReplaceOp(n, bare)) = t
    BY <1>2, <1>5, <2>1, OfReplace
  <2> QED
    BY <1>2, <1>3, <1>4, <2>2
<1>6. CASE n # t.root
  <2>1. Undone!Graft(Undone!Cut(t, n), Undone!ParentOf(t, n), Undone!IndexOf(t, n), bare) = t
    BY <1>6, GraftUndoesCut
  <2>2. Undone!Result(g, Undone!ReplaceOp(n, bare)) = t
    BY <1>2, <1>6, <2>1, OfReplace
  <2> QED
    BY <1>2, <1>3, <1>4, <2>2
<1> QED
  BY <1>5, <1>6

LEMMA RewriteUndone ==
  ASSUME NEW t, IsTree(t), NEW n, NEW content, Undone!Possible(t, Undone!RewriteOp(n, content))
  PROVE  Undoes(t, Undone!RewriteOp(n, content))
<1> DEFINE g == [t EXCEPT !.look[n].content = content]  v == [t.look[n] EXCEPT !.content = content]
<1>1. n \in Undone!Ids(t)
  BY OfRewrite
<1>2. t = [root |-> t.root, kids |-> t.kids, look |-> t.look]
  BY DEF IsTree, Shaped
<1>3. g = [root |-> t.root, kids |-> t.kids, look |-> [t.look EXCEPT ![n] = v]]
  BY <1>2
<1> HIDE DEF g, v
<1>4. /\ IsTree(g) /\ IsOp(Undone!ReplaceOp(n, Undone!Subtree(t, n)))
      /\ Undone!Possible(g, Undone!ReplaceOp(n, Undone!Subtree(t, n)))
      /\ Undone!Result(g, Undone!ReplaceOp(n, Undone!Subtree(t, n))) = t
  BY <1>1, <1>3, LookUndone
<1>5. /\ Undone!Result(t, Undone!RewriteOp(n, content)) = g
      /\ Undone!Inverse1(t, Undone!RewriteOp(n, content)) = Undone!ReplaceOp(n, Undone!Subtree(t, n))
  BY OfRewrite DEF g
<1> QED
  BY <1>4, <1>5 DEF Undoes

LEMMA SignalUndone ==
  ASSUME NEW t, IsTree(t), NEW n, NEW name \in Undone!SignalOps, Undone!Possible(t, Undone!SignalOp(name, n))
  PROVE  Undoes(t, Undone!SignalOp(name, n))
<1> DEFINE g == [t EXCEPT !.look[n].signals = Undone!Signalled(@, name)]
           v == [t.look[n] EXCEPT !.signals = Undone!Signalled(@, name)]
<1>1. n \in Undone!Ids(t)
  BY OfSignal
<1>2. t = [root |-> t.root, kids |-> t.kids, look |-> t.look]
  BY DEF IsTree, Shaped
<1>3. g = [root |-> t.root, kids |-> t.kids, look |-> [t.look EXCEPT ![n] = v]]
  BY <1>2
<1> HIDE DEF g, v
<1>4. /\ IsTree(g) /\ IsOp(Undone!ReplaceOp(n, Undone!Subtree(t, n)))
      /\ Undone!Possible(g, Undone!ReplaceOp(n, Undone!Subtree(t, n)))
      /\ Undone!Result(g, Undone!ReplaceOp(n, Undone!Subtree(t, n))) = t
  BY <1>1, <1>3, LookUndone
<1>5. /\ Undone!Result(t, Undone!SignalOp(name, n)) = g
      /\ Undone!Inverse1(t, Undone!SignalOp(name, n)) = Undone!ReplaceOp(n, Undone!Subtree(t, n))
  BY OfSignal DEF g
<1> QED
  BY <1>4, <1>5 DEF Undoes

\* Every operation is undone by its inverse.
LEMMA OpUndone ==
  ASSUME NEW t, IsTree(t), NEW op, IsOp(op), Undone!Possible(t, op)
  PROVE  Undoes(t, op)
<1>1. CASE IsAdd(op)
  BY <1>1, AddUndone DEF IsAdd
<1>2. CASE IsRemove(op)
  BY <1>2, RemoveUndone DEF IsRemove
<1>3. CASE IsReplace(op)
  BY <1>3, ReplaceUndone DEF IsReplace
<1>4. CASE IsMove(op)
  BY <1>4, MoveUndone DEF IsMove
<1>5. CASE IsRewrite(op)
  BY <1>5, RewriteUndone DEF IsRewrite
<1>6. CASE IsSignal(op)
  BY <1>6, SignalUndone DEF IsSignal
<1> QED
  BY <1>1, <1>2, <1>3, <1>4, <1>5, <1>6 DEF IsOp

-----------------------------------------------------------------------------
(* Patches *)

\* A set of numbers has a least.
LEMMA LeastNumber ==
  ASSUME NEW T \in SUBSET Nat, T # {}
  PROVE  \E i \in T : \A j \in T : i <= j
<1> DEFINE Less == {p \in Nat \X Nat : p[1] < p[2]}
<1>1. IsWellFoundedOn(Less, Nat)
  BY NatLessThanWellFounded DEF OpToRel
<1>2. \A j, k \in Nat : j < k => <<j, k>> \in Less
  OBVIOUS
<1> HIDE DEF Less
<1>3. PICK i \in T : \A j \in T : <<j, i>> \notin Less
  BY <1>1, WFMin
<1>4. \A j \in T : ~(j < i)
  BY <1>2, <1>3
<1> QED
  BY <1>4

\* Induction, with the set of the numbers it has come to.
LEMMA CountingUp ==
  ASSUME NEW N \in Nat, NEW T, 0 \in T, \A n \in 1..N : n - 1 \in T => n \in T
  PROVE  \A n \in 0..N : n \in T
<1> DEFINE Missed == {n \in 0..N : n \notin T}
<1>1. SUFFICES ASSUME Missed # {} PROVE FALSE
  OBVIOUS
<1>2. Missed \in SUBSET Nat
  OBVIOUS
<1>3. PICK n \in Missed : \A m \in Missed : n <= m
  BY <1>1, <1>2, LeastNumber
<1>4. n \in 1..N /\ n - 1 \in 0..N /\ ~(n <= n - 1)
  BY <1>3
<1>5. n - 1 \in T
  BY <1>3, <1>4
<1> QED
  BY <1>3, <1>4, <1>5

IsList(x) == \E S : x \in Seq(S)
IsPatch(patch) == IsList(patch) /\ \A i \in 1..Len(patch) : IsOp(patch[i])

LEMMA ListLen ==
  ASSUME NEW x, IsList(x)
  PROVE  Len(x) \in Nat /\ DOMAIN x = 1..Len(x)
BY LenProperties DEF IsList

\* The way of a patch from one tree to another.
Start(t) == [ok |-> TRUE, tree |-> t, inverse |-> <<>>]
Upto(f, t, patch, k) ==
  f = [n \in 0..k |-> IF n = 0 THEN Start(t) ELSE Undone!Step(f[n - 1], patch[n])]

LEMMA UptoExists ==
  ASSUME NEW t, NEW patch, NEW k \in Nat
  PROVE  \E f : Upto(f, t, patch, k)
<1> DEFINE Unreached == {n \in Nat : ~\E f : Upto(f, t, patch, n)}
<1>1. SUFFICES ASSUME Unreached # {} PROVE FALSE
  OBVIOUS
<1>2. PICK n \in Unreached : \A m \in Unreached : n <= m
  <2>1. Unreached \in SUBSET Nat
    OBVIOUS
  <2> QED
    BY <1>1, <2>1, LeastNumber
<1>3. Upto([m \in 0..0 |-> Start(t)], t, patch, 0)
  BY DEF Upto
<1>4. n \in Nat \ {0}
  BY <1>2, <1>3
<1>5. PICK f : Upto(f, t, patch, n - 1)
  <2>1. n - 1 \in Nat /\ ~(n <= n - 1)
    BY <1>4
  <2> QED
    BY <1>2, <2>1
<1> DEFINE g == [m \in 0..n |-> IF m = n THEN Undone!Step(f[n - 1], patch[n]) ELSE f[m]]
<1>6. \A m \in 0..n : g[m] = IF m = 0 THEN Start(t) ELSE Undone!Step(g[m - 1], patch[m])
  <2> SUFFICES ASSUME NEW m \in 0..n
               PROVE  g[m] = IF m = 0 THEN Start(t) ELSE Undone!Step(g[m - 1], patch[m])
    OBVIOUS
  <2>1. \A l \in 0..n - 1 : f[l] = IF l = 0 THEN Start(t) ELSE Undone!Step(f[l - 1], patch[l])
    BY <1>5 DEF Upto
  <2>2. CASE m = n
    <3>1. g[m] = Undone!Step(f[n - 1], patch[n]) /\ n - 1 \in 0..n /\ n - 1 # n
      BY <1>4, <2>2
    <3>2. g[n - 1] = f[n - 1]
      BY <3>1
    <3> QED
      BY <1>4, <2>2, <3>1, <3>2
  <2>3. CASE m # n
    <3>1. m \in 0..n - 1 /\ g[m] = f[m]
      BY <1>4, <2>3
    <3>2. CASE m = 0
      BY <2>1, <3>1, <3>2
    <3>3. CASE m # 0
      <4>1. m - 1 \in 0..n /\ m - 1 # n
        BY <1>4, <3>1, <3>3
      <4>2. g[m - 1] = f[m - 1]
        BY <4>1
      <4> QED
        BY <2>1, <3>1, <3>3, <4>2
    <3> QED
      BY <3>2, <3>3
  <2> QED
    BY <2>2, <2>3
<1>7. Upto(g, t, patch, n)
  <2> HIDE DEF g
  <2>1. g = [m \in 0..n |-> g[m]]
    BY DEF g
  <2> QED
    BY <1>6, <2>1 DEF Upto
<1> QED
  BY <1>2, <1>7

\* applyPatch goes that way, and then looks whether the tree is within the limits.
LEMMA ApplyGoes ==
  ASSUME NEW t, NEW patch, IsList(patch)
  PROVE  \E f : Upto(f, t, patch, Len(patch)) /\ Undone!ApplyPatch(t, patch) = Undone!WithinLimits(f[Len(patch)])
<1> DEFINE Eq(f) == f = [n \in 0..Len(patch) |->
                           IF n = 0 THEN [ok |-> TRUE, tree |-> t, inverse |-> <<>>]
                           ELSE Undone!Step(f[n - 1], patch[n])]
           sofar == CHOOSE f : Eq(f)
<1>1. \E f : Eq(f)
  <2>1. Len(patch) \in Nat
    BY ListLen
  <2>2. PICK f : Upto(f, t, patch, Len(patch))
    BY <2>1, UptoExists
  <2>3. Eq(f)
    BY <2>2 DEF Upto, Start
  <2> HIDE DEF Eq
  <2> QED
    BY <2>3
<1>2. Eq(sofar)
  BY <1>1
<1>3. Undone!ApplyPatch(t, patch) = Undone!WithinLimits(sofar[Len(patch)])
  BY DEF Undone!ApplyPatch
<1>4. Upto(sofar, t, patch, Len(patch))
  BY <1>2 DEF Upto, Start
<1> HIDE DEF sofar
<1> QED
  BY <1>3, <1>4

\* How far a patch has come.
IsSofar(x) ==
  x = [ok |-> x.ok, tree |-> x.tree, inverse |-> x.inverse] /\ x.ok \in BOOLEAN

LEMMA StepTaken ==
  ASSUME NEW x, IsSofar(x), NEW op
  PROVE  /\ IsSofar(Undone!Step(x, op))
         /\ Undone!Step(x, op).ok <=> x.ok /\ Undone!Possible(x.tree, op)
         /\ Undone!Step(x, op).ok => /\ Undone!Step(x, op).tree = Undone!Result(x.tree, op)
                              /\ Undone!Step(x, op).inverse = <<Undone!Inverse1(x.tree, op)>> \o x.inverse
<1>1. CASE x.ok /\ Undone!Possible(x.tree, op)
  BY <1>1 DEF Undone!Step, IsSofar
<1>2. CASE ~(x.ok /\ Undone!Possible(x.tree, op))
  <2>1. Undone!Step(x, op) = [x EXCEPT !.ok = FALSE]
    BY <1>2 DEF Undone!Step
  <2>2. Undone!Step(x, op) = [ok |-> FALSE, tree |-> x.tree, inverse |-> x.inverse]
    BY <2>1 DEF IsSofar
  <2> QED
    BY <1>2, <2>2 DEF IsSofar
<1> QED
  BY <1>1, <1>2

\* What the tree's module counts is what is counted here.
LEMMA TreesAreCounted ==
  ASSUME NEW S
  PROVE  Undone!Cardinality(S) = Cardinality(S)
  BY DEF Undone!Cardinality, Cardinality

LEMMA Limited ==
  ASSUME NEW x, IsSofar(x)
  PROVE  /\ IsSofar(Undone!WithinLimits(x))
         /\ Undone!WithinLimits(x).ok <=> x.ok /\ Cardinality(Undone!Ids(x.tree)) <= MaxNodes
         /\ Undone!WithinLimits(x).tree = x.tree /\ Undone!WithinLimits(x).inverse = x.inverse
<1> DEFINE fits == Cardinality(Undone!Ids(x.tree)) <= MaxNodes
<1>1. Undone!WithinLimits(x) = [ok |-> x.ok /\ fits, tree |-> x.tree, inverse |-> x.inverse]
  <2>1. Undone!Cardinality(Undone!Ids(x.tree)) = Cardinality(Undone!Ids(x.tree))
    BY TreesAreCounted
  <2> QED
    BY <2>1 DEF Undone!WithinLimits, IsSofar
<1> HIDE DEF fits
<1>2. CASE x.ok /\ fits
  <2>1. Undone!WithinLimits(x) = [ok |-> TRUE, tree |-> x.tree, inverse |-> x.inverse]
    <3>1. (x.ok /\ fits) = TRUE
      BY <1>2
    <3> QED
      BY <1>1, <3>1
  <2> QED
    BY <1>2, <2>1 DEF IsSofar, fits
<1>3. CASE ~(x.ok /\ fits)
  <2>1. Undone!WithinLimits(x) = [ok |-> FALSE, tree |-> x.tree, inverse |-> x.inverse]
    <3>1. (x.ok /\ fits) = FALSE
      BY <1>3
    <3> QED
      BY <1>1, <3>1
  <2> QED
    BY <1>3, <2>1 DEF IsSofar, fits
<1> QED
  BY <1>2, <1>3

LEMMA Consed ==
  ASSUME NEW list, IsList(list), NEW x
  PROVE  /\ IsList(<<x>> \o list) /\ Len(<<x>> \o list) = Len(list) + 1
         /\ (<<x>> \o list)[1] = x
         /\ \A k \in 1..Len(list) : (<<x>> \o list)[k + 1] = list[k]
<1>1. PICK S : list \in Seq(S)
  BY DEF IsList
<1> DEFINE S1 == S \cup {x}  m == <<x>>
<1>2. list \in Seq(S1) /\ Len(list) \in Nat
  BY <1>1, SeqMonotonic, LenProperties
<1>3. m \in Seq(S1) /\ Len(m) = 1 /\ m[1] = x
  OBVIOUS
<1> HIDE DEF S1, m
<1>4. /\ m \o list \in Seq(S1) /\ Len(m \o list) = Len(m) + Len(list)
      /\ \A i \in 1..Len(m) + Len(list) :
           (m \o list)[i] = IF i <= Len(m) THEN m[i] ELSE list[i - Len(m)]
  BY <1>2, <1>3, ConcatProperties
<1>5. (m \o list)[1] = x
  BY <1>2, <1>3, <1>4
<1>6. ASSUME NEW k \in 1..Len(list) PROVE (m \o list)[k + 1] = list[k]
  <2>1. k + 1 \in 1..Len(m) + Len(list) /\ ~(k + 1 <= Len(m)) /\ k + 1 - Len(m) = k
    BY <1>2, <1>3
  <2> QED
    BY <1>4, <2>1
<1>7. Len(m \o list) = Len(list) + 1
  BY <1>2, <1>3, <1>4
<1>8. IsList(m \o list)
  BY <1>4 DEF IsList
<1> QED
  BY <1>5, <1>6, <1>7, <1>8 DEF m

\* A patch leads from one tree to another: each operation is possible where it comes.
Leads(u, patch, t) ==
  \E way : /\ way[0] = u /\ way[Len(patch)] = t
          /\ \A k \in 1..Len(patch) :
               Undone!Possible(way[k - 1], patch[k]) /\ way[k] = Undone!Result(way[k - 1], patch[k])

LEMMA LeadsBack ==
  ASSUME NEW u, NEW patch, IsList(patch), NEW t, Leads(u, patch, t),
         NEW g, NEW op, Undone!Possible(g, op), Undone!Result(g, op) = u
  PROVE  Leads(g, <<op>> \o patch, t)
<1> DEFINE longer == <<op>> \o patch
<1>1. PICK way : /\ way[0] = u /\ way[Len(patch)] = t
                 /\ \A k \in 1..Len(patch) :
                      Undone!Possible(way[k - 1], patch[k]) /\ way[k] = Undone!Result(way[k - 1], patch[k])
  BY DEF Leads
<1>2. /\ Len(patch) \in Nat /\ Len(longer) = Len(patch) + 1 /\ longer[1] = op
      /\ \A k \in 1..Len(patch) : longer[k + 1] = patch[k]
  BY Consed, ListLen
<1> HIDE DEF longer
<1> DEFINE further == [k \in 0..Len(patch) + 1 |-> IF k = 0 THEN g ELSE way[k - 1]]
<1>3. further[0] = g /\ further[Len(longer)] = t
  BY <1>1, <1>2
<1>4. ASSUME NEW k \in 1..Len(longer)
      PROVE  Undone!Possible(further[k - 1], longer[k]) /\ further[k] = Undone!Result(further[k - 1], longer[k])
  <2>1. CASE k = 1
    <3>1. further[0] = g /\ further[1] = u /\ k - 1 = 0
      BY <1>1, <1>2, <2>1
    <3> QED
      BY <1>2, <2>1, <3>1
  <2>2. CASE k # 1
    <3>1. k - 1 \in 1..Len(patch) /\ k - 1 + 1 = k
      BY <1>2, <2>2
    <3>2. further[k] = way[k - 1] /\ further[k - 1] = way[k - 1 - 1]
      BY <1>2, <2>2
    <3>3. longer[k] = patch[k - 1]
      BY <1>2, <3>1
    <3> QED
      BY <1>1, <3>1, <3>2, <3>3
  <2> QED
    BY <2>1, <2>2
<1> HIDE DEF further
<1> QED
  BY <1>3, <1>4 DEF Leads, longer

\* A patch that leads somewhere applies there.
LEMMA LeadsApplies ==
  ASSUME NEW u, NEW patch, IsList(patch), NEW t, Leads(u, patch, t),
         Cardinality(Undone!Ids(t)) <= MaxNodes
  PROVE  Undone!ApplyPatch(u, patch).ok /\ Undone!ApplyPatch(u, patch).tree = t
<1>1. PICK way : /\ way[0] = u /\ way[Len(patch)] = t
                 /\ \A k \in 1..Len(patch) :
                      Undone!Possible(way[k - 1], patch[k]) /\ way[k] = Undone!Result(way[k - 1], patch[k])
  BY DEF Leads
<1>2. PICK f : Upto(f, u, patch, Len(patch)) /\ Undone!ApplyPatch(u, patch) = Undone!WithinLimits(f[Len(patch)])
  BY ApplyGoes
<1>3. Len(patch) \in Nat
  BY ListLen
<1>4. \A n \in 0..Len(patch) : f[n] = IF n = 0 THEN Start(u) ELSE Undone!Step(f[n - 1], patch[n])
  BY <1>2 DEF Upto
<1> DEFINE There == {n \in 0..Len(patch) : IsSofar(f[n]) /\ f[n].ok /\ f[n].tree = way[n]}
<1>5. 0 \in There
  <2>1. f[0] = Start(u)
    BY <1>3, <1>4
  <2>2. IsSofar(Start(u)) /\ Start(u).ok /\ Start(u).tree = u
    BY DEF Start, IsSofar
  <2> QED
    BY <1>1, <1>3, <2>1, <2>2
<1>6. ASSUME NEW n \in 1..Len(patch), n - 1 \in There PROVE n \in There
  <2>1. f[n] = Undone!Step(f[n - 1], patch[n])
    BY <1>4
  <2>2. IsSofar(f[n - 1]) /\ f[n - 1].ok /\ f[n - 1].tree = way[n - 1]
    BY <1>6
  <2>3. Undone!Possible(way[n - 1], patch[n]) /\ way[n] = Undone!Result(way[n - 1], patch[n])
    BY <1>1
  <2> DEFINE x == f[n - 1]  op == patch[n]
  <2>4. IsSofar(x) /\ x.ok /\ x.tree = way[n - 1] /\ Undone!Possible(x.tree, op)
    BY <2>2, <2>3
  <2> HIDE DEF x, op
  <2>5. IsSofar(Undone!Step(x, op)) /\ Undone!Step(x, op).ok /\ Undone!Step(x, op).tree = Undone!Result(x.tree, op)
    BY <2>4, StepTaken
  <2>6. IsSofar(f[n]) /\ f[n].ok /\ f[n].tree = way[n]
    BY <2>1, <2>3, <2>4, <2>5 DEF x, op
  <2> QED
    BY <2>6
<1>7. \A n \in 0..Len(patch) : n \in There
  <2> HIDE DEF There
  <2> QED
    BY <1>3, <1>5, <1>6, CountingUp
<1>8. Len(patch) \in There
  BY <1>3, <1>7
<1> QED
  BY <1>1, <1>2, <1>8, Limited

\* However far a patch has come, what it has piled up leads back.
WellSofar(x, t) ==
  /\ IsSofar(x)
  /\ x.ok => IsTree(x.tree) /\ IsPatch(x.inverse) /\ Leads(x.tree, x.inverse, t)

LEMMA StepBack ==
  ASSUME NEW x, NEW t, WellSofar(x, t), NEW op, IsOp(op)
  PROVE  WellSofar(Undone!Step(x, op), t)
<1>1. IsSofar(x) /\ IsSofar(Undone!Step(x, op))
  BY StepTaken DEF WellSofar
<1>2. SUFFICES ASSUME Undone!Step(x, op).ok
               PROVE  /\ IsTree(Undone!Step(x, op).tree) /\ IsPatch(Undone!Step(x, op).inverse)
                      /\ Leads(Undone!Step(x, op).tree, Undone!Step(x, op).inverse, t)
  BY <1>1 DEF WellSofar
<1> DEFINE back == Undone!Inverse1(x.tree, op)  g == Undone!Result(x.tree, op)
<1>3. /\ x.ok /\ Undone!Possible(x.tree, op)
      /\ Undone!Step(x, op).tree = g /\ Undone!Step(x, op).inverse = <<back>> \o x.inverse
  BY <1>1, <1>2, StepTaken
<1>4. IsTree(x.tree) /\ IsPatch(x.inverse) /\ Leads(x.tree, x.inverse, t)
  BY <1>3 DEF WellSofar
<1>5. IsTree(g) /\ IsOp(back) /\ Undone!Possible(g, back) /\ Undone!Result(g, back) = x.tree
  BY <1>3, <1>4, OpUndone DEF Undoes
<1> HIDE DEF back, g
<1>6. IsList(x.inverse) /\ \A i \in 1..Len(x.inverse) : IsOp(x.inverse[i])
  BY <1>4 DEF IsPatch
<1>7. IsPatch(<<back>> \o x.inverse)
  <2> DEFINE longer == <<back>> \o x.inverse
  <2>1. /\ IsList(longer) /\ Len(longer) = Len(x.inverse) + 1 /\ longer[1] = back
        /\ \A k \in 1..Len(x.inverse) : longer[k + 1] = x.inverse[k]
    BY <1>6, Consed
  <2>2. Len(x.inverse) \in Nat
    BY <1>6, ListLen
  <2> HIDE DEF longer
  <2>3. ASSUME NEW i \in 1..Len(longer) PROVE IsOp(longer[i])
    <3>1. CASE i = 1
      BY <1>5, <2>1, <3>1
    <3>2. CASE i # 1
      <4>1. i - 1 \in 1..Len(x.inverse) /\ i - 1 + 1 = i
        BY <2>1, <2>2, <3>2
      <4>2. longer[i] = x.inverse[i - 1]
        BY <2>1, <4>1
      <4> QED
        BY <1>6, <4>1, <4>2
    <3> QED
      BY <3>1, <3>2
  <2>4. IsPatch(longer)
    BY <2>1, <2>3 DEF IsPatch
  <2> QED
    BY <2>4 DEF longer
<1>8. Leads(g, <<back>> \o x.inverse, t)
  BY <1>4, <1>5, <1>6, LeadsBack
<1> QED
  BY <1>3, <1>5, <1>7, <1>8

\* A body within the limits.
Standing(t) == IsTree(t) /\ Cardinality(Undone!Ids(t)) <= MaxNodes

\* What applyPatch made and what it recorded: a body within the limits, and a patch that brings
\* back the one it was applied to.
PatchUndone(t, done) ==
  /\ Standing(done.tree)
  /\ IsPatch(done.inverse)
  /\ Undone!ApplyPatch(done.tree, done.inverse).ok
  /\ Undone!ApplyPatch(done.tree, done.inverse).tree = t

\* The inverse of a patch, applied to what the patch made, gives back the tree the patch was
\* applied to, whatever the patch and whatever the tree (apply.ts:110-111).
THEOREM InverseRestores ==
  ASSUME NEW t, Standing(t), NEW patch, IsPatch(patch), Undone!ApplyPatch(t, patch).ok
  PROVE  PatchUndone(t, Undone!ApplyPatch(t, patch))
<1>1. IsList(patch) /\ Len(patch) \in Nat /\ \A i \in 1..Len(patch) : IsOp(patch[i])
  BY ListLen DEF IsPatch
<1>2. PICK f : Upto(f, t, patch, Len(patch)) /\ Undone!ApplyPatch(t, patch) = Undone!WithinLimits(f[Len(patch)])
  BY <1>1, ApplyGoes
<1>3. \A n \in 0..Len(patch) : f[n] = IF n = 0 THEN Start(t) ELSE Undone!Step(f[n - 1], patch[n])
  BY <1>2 DEF Upto
<1> DEFINE There == {n \in 0..Len(patch) : WellSofar(f[n], t)}
<1>4. 0 \in There
  <2>1. f[0] = Start(t)
    BY <1>1, <1>3
  <2>2. IsSofar(Start(t)) /\ Start(t).ok /\ Start(t).tree = t /\ Start(t).inverse = <<>>
    BY DEF Start, IsSofar
  <2>3. Len(<<>>) = 0 /\ <<>> \in Seq({})
    BY EmptySeq
  <2>4. IsPatch(<<>>)
    BY <2>3 DEF IsPatch, IsList
  <2>5. Leads(t, <<>>, t)
    <3> DEFINE way == [k \in 0..0 |-> t]
    <3>1. way[0] = t /\ way[Len(<<>>)] = t /\ 1..Len(<<>>) = {}
      BY <2>3
    <3> HIDE DEF way
    <3> QED
      BY <3>1 DEF Leads
  <2>6. WellSofar(f[0], t)
    BY <2>1, <2>2, <2>4, <2>5 DEF WellSofar, Standing
  <2> QED
    BY <1>1, <2>6
<1>5. ASSUME NEW n \in 1..Len(patch), n - 1 \in There PROVE n \in There
  <2>1. f[n] = Undone!Step(f[n - 1], patch[n]) /\ IsOp(patch[n])
    BY <1>1, <1>3
  <2>2. WellSofar(f[n], t)
    BY <1>5, <2>1, StepBack
  <2> QED
    BY <2>2
<1>6. \A n \in 0..Len(patch) : n \in There
  <2> HIDE DEF There
  <2> QED
    BY <1>1, <1>4, <1>5, CountingUp
<1> DEFINE end == f[Len(patch)]
<1>7. WellSofar(end, t)
  BY <1>1, <1>6
<1> HIDE DEF end
<1>8. /\ end.ok /\ Cardinality(Undone!Ids(end.tree)) <= MaxNodes
      /\ Undone!ApplyPatch(t, patch).tree = end.tree /\ Undone!ApplyPatch(t, patch).inverse = end.inverse
  BY <1>2, <1>7, Limited DEF WellSofar, end
<1>9. IsTree(end.tree) /\ IsPatch(end.inverse) /\ Leads(end.tree, end.inverse, t)
  BY <1>7, <1>8 DEF WellSofar
<1>10. Undone!ApplyPatch(end.tree, end.inverse).ok /\ Undone!ApplyPatch(end.tree, end.inverse).tree = t
  BY <1>9, LeadsApplies DEF IsPatch, Standing
<1> QED
  BY <1>8, <1>9, <1>10 DEF PatchUndone, Standing

-----------------------------------------------------------------------------
(* Stacks *)

LEMMA Appended ==
  ASSUME NEW x, IsList(x), NEW e
  PROVE  /\ IsList(Append(x, e)) /\ Len(Append(x, e)) = Len(x) + 1
         /\ \A k \in 1..Len(x) : Append(x, e)[k] = x[k]
         /\ Append(x, e)[Len(x) + 1] = e
<1>1. PICK S : x \in Seq(S)
  BY DEF IsList
<1> DEFINE S1 == S \cup {e}
<1>2. x \in Seq(S1) /\ e \in S1
  BY <1>1, SeqMonotonic
<1> HIDE DEF S1
<1>3. /\ Append(x, e) \in Seq(S1) /\ Len(Append(x, e)) = Len(x) + 1
      /\ \A k \in 1..Len(x) : Append(x, e)[k] = x[k]
      /\ Append(x, e)[Len(x) + 1] = e
  BY <1>2, AppendProperties
<1> QED
  BY <1>3 DEF IsList

LEMMA Shortened ==
  ASSUME NEW x, IsList(x), NEW n \in 0..Len(x)
  PROVE  /\ IsList(SubSeq(x, 1, n)) /\ Len(SubSeq(x, 1, n)) = n
         /\ \A k \in 1..n : SubSeq(x, 1, n)[k] = x[k]
<1>1. PICK S : x \in Seq(S)
  BY DEF IsList
<1>2. Len(x) \in Nat /\ n \in Int /\ 0 <= n /\ n <= Len(x)
  BY <1>1, LenProperties
<1>3. \A k \in 1..n : x[k] \in S
  BY <1>1, <1>2, ElementOfSeq
<1>4. /\ SubSeq(x, 1, n) \in Seq(S)
      /\ Len(SubSeq(x, 1, n)) = IF 1 <= n THEN n - 1 + 1 ELSE 0
      /\ \A k \in 1..n - 1 + 1 : SubSeq(x, 1, n)[k] = x[1 + k - 1]
  BY <1>2, <1>3, SubSeqProperties
<1>5. Len(SubSeq(x, 1, n)) = n
  BY <1>2, <1>4
<1>6. \A k \in 1..n : SubSeq(x, 1, n)[k] = x[k]
  <2> SUFFICES ASSUME NEW k \in 1..n PROVE SubSeq(x, 1, n)[k] = x[k]
    OBVIOUS
  <2>1. k \in 1..n - 1 + 1 /\ 1 + k - 1 = k
    BY <1>2
  <2> QED
    BY <1>4, <2>1
<1> QED
  BY <1>4, <1>5, <1>6 DEF IsList

LEMMA Behead ==
  ASSUME NEW x, IsList(x), Len(x) # 0
  PROVE  /\ IsList(Tail(x)) /\ Len(Tail(x)) = Len(x) - 1
         /\ \A k \in 1..Len(x) - 1 : Tail(x)[k] = x[k + 1]
<1>1. PICK S : x \in Seq(S)
  BY DEF IsList
<1>2. x # <<>>
  BY EmptySeq
<1>3. /\ Tail(x) \in Seq(S) /\ Len(Tail(x)) = Len(x) - 1
      /\ \A k \in 1..Len(Tail(x)) : Tail(x)[k] = x[k + 1]
  BY <1>1, <1>2, HeadTailProperties
<1> QED
  BY <1>3 DEF IsList

LEMMA SameList ==
  ASSUME NEW x, IsList(x), NEW y, IsList(y), Len(x) = Len(y), \A k \in 1..Len(x) : x[k] = y[k]
  PROVE  x = y
<1>1. PICK S : x \in Seq(S)
  BY DEF IsList
<1>2. PICK T : y \in Seq(T)
  BY DEF IsList
<1> DEFINE U == S \cup T
<1>3. x \in Seq(U) /\ y \in Seq(U)
  BY <1>1, <1>2, SeqMonotonic
<1> HIDE DEF U
<1> QED
  BY <1>3, SeqEqual

\* How many of the oldest a stack forgets when one more is pushed.
Forgotten(x, limit) == IF Len(x) = limit THEN 1 ELSE 0

LEMMA Pushed ==
  ASSUME NEW limit \in Nat \ {0}, NEW x, IsList(x), Len(x) <= limit, NEW e
  PROVE  /\ IsList(Undone!Push(x, e, limit))
         /\ Forgotten(x, limit) \in {0, 1} /\ Forgotten(x, limit) <= Len(x)
         /\ Len(Undone!Push(x, e, limit)) = Len(x) + 1 - Forgotten(x, limit)
         /\ Len(Undone!Push(x, e, limit)) <= limit
         /\ Len(Undone!Push(x, e, limit)) \in Nat \ {0}
         /\ \A k \in 1..Len(x) - Forgotten(x, limit) :
              Undone!Push(x, e, limit)[k] = x[k + Forgotten(x, limit)]
         /\ Undone!Push(x, e, limit)[Len(x) + 1 - Forgotten(x, limit)] = e
<1>1. Len(x) \in Nat
  BY ListLen
<1>2. CASE Len(x) = limit
  <2>1. Undone!Push(x, e, limit) = Append(Tail(x), e) /\ Forgotten(x, limit) = 1
    BY <1>2 DEF Undone!Push, Forgotten
  <2> DEFINE t == Tail(x)
  <2>2. /\ IsList(t) /\ Len(t) = Len(x) - 1
        /\ \A k \in 1..Len(x) - 1 : t[k] = x[k + 1]
    BY <1>2, Behead
  <2> HIDE DEF t
  <2>3. /\ IsList(Append(t, e)) /\ Len(Append(t, e)) = Len(t) + 1
        /\ \A k \in 1..Len(t) : Append(t, e)[k] = t[k]
        /\ Append(t, e)[Len(t) + 1] = e
    BY <2>2, Appended
  <2> QED
    BY <1>1, <1>2, <2>1, <2>2, <2>3 DEF t
<1>3. CASE Len(x) # limit
  <2>1. Undone!Push(x, e, limit) = Append(x, e) /\ Forgotten(x, limit) = 0
    BY <1>3 DEF Undone!Push, Forgotten
  <2>3. /\ IsList(Append(x, e)) /\ Len(Append(x, e)) = Len(x) + 1
        /\ \A k \in 1..Len(x) : Append(x, e)[k] = x[k]
        /\ Append(x, e)[Len(x) + 1] = e
    BY Appended
  <2> QED
    BY <1>1, <1>3, <2>1, <2>3
<1> QED
  BY <1>2, <1>3

\* What a morph was goes beside what undoes it.
LEMMA BesideIsPush ==
  ASSUME NEW limit \in Nat \ {0}, NEW history, IsList(history), NEW metas, IsList(metas),
         Len(metas) = Len(history), Len(history) <= limit, NEW x, NEW e
  PROVE  Undone!MetaBeside(Undone!Push(history, x, limit), Append(metas, e)) = Undone!Push(metas, e, limit)
<1> DEFINE h == Undone!Push(history, x, limit)  m == Append(metas, e)
<1>1. Len(history) \in Nat
  BY ListLen
<1>2. /\ IsList(m) /\ Len(m) = Len(metas) + 1
      /\ \A k \in 1..Len(metas) : m[k] = metas[k]
      /\ m[Len(metas) + 1] = e
  BY Appended
<1>3. Len(h) = Len(history) + 1 - Forgotten(history, limit)
  BY Pushed
<1> HIDE DEF h
<1>4. CASE Len(history) # limit
  <2>1. Len(h) = Len(history) + 1
    BY <1>1, <1>3, <1>4 DEF Forgotten
  <2>2. Undone!Push(metas, e, limit) = m
    BY <1>4 DEF Undone!Push
  <2>3. Undone!MetaBeside(h, m) = m
    BY <1>1, <1>2, <2>1 DEF Undone!MetaBeside
  <2> QED
    BY <2>2, <2>3 DEF h
<1>5. CASE Len(history) = limit
  <2>1. Len(h) = Len(history)
    BY <1>1, <1>3, <1>5 DEF Forgotten
  <2> DEFINE t == Tail(metas)
  <2>2. /\ IsList(t) /\ Len(t) = Len(metas) - 1
        /\ \A k \in 1..Len(metas) - 1 : t[k] = metas[k + 1]
    BY <1>5, Behead
  <2>3. Undone!Push(metas, e, limit) = Append(t, e)
    BY <1>5 DEF Undone!Push
  <2> HIDE DEF t
  <2>4. /\ IsList(Append(t, e)) /\ Len(Append(t, e)) = Len(t) + 1
        /\ \A k \in 1..Len(t) : Append(t, e)[k] = t[k]
        /\ Append(t, e)[Len(t) + 1] = e
    BY <2>2, Appended
  <2> HIDE DEF m
  <2> DEFINE n == SubSeq(m, 2, Len(m))
  <2>5. Undone!MetaBeside(h, m) = n
    <3>1. Len(m) > Len(h) /\ Len(m) - Len(h) + 1 = 2
      BY <1>1, <1>2, <2>1
    <3> QED
      BY <3>1 DEF Undone!MetaBeside, Undone!Newest
  <2>6. /\ IsList(n) /\ Len(n) = Len(m) - 1 /\ \A k \in 1..Len(m) - 1 : n[k] = m[k + 1]
    <3>1. PICK S : m \in Seq(S)
      BY <1>2 DEF IsList
    <3>2. Len(m) \in Nat /\ Len(m) >= 2 /\ 2 \in Int
      BY <1>1, <1>2, <1>5
    <3>3. \A k \in 2..Len(m) : m[k] \in S
      BY <3>1, <3>2, ElementOfSeq
    <3>4. /\ n \in Seq(S) /\ Len(n) = IF 2 <= Len(m) THEN Len(m) - 2 + 1 ELSE 0
          /\ \A k \in 1..Len(m) - 2 + 1 : n[k] = m[2 + k - 1]
      BY <3>2, <3>3, SubSeqProperties
    <3> HIDE DEF n
    <3>5. Len(n) = Len(m) - 1
      BY <3>2, <3>4
    <3>6. \A k \in 1..Len(m) - 1 : n[k] = m[k + 1]
      <4> SUFFICES ASSUME NEW k \in 1..Len(m) - 1 PROVE n[k] = m[k + 1]
        OBVIOUS
      <4>1. k \in 1..Len(m) - 2 + 1 /\ 2 + k - 1 = k + 1
        BY <3>2
      <4> QED
        BY <3>4, <4>1
    <3> QED
      BY <3>4, <3>5, <3>6 DEF IsList
  <2> HIDE DEF n
  <2>7. \A k \in 1..Len(n) : n[k] = Append(t, e)[k]
    <3> SUFFICES ASSUME NEW k \in 1..Len(n) PROVE n[k] = Append(t, e)[k]
      OBVIOUS
    <3>1. n[k] = m[k + 1] /\ k \in 1..Len(metas)
      BY <1>1, <1>2, <2>6
    <3>2. CASE k = Len(metas)
      BY <1>1, <1>2, <2>2, <2>4, <3>1, <3>2
    <3>3. CASE k # Len(metas)
      <4>1. k \in 1..Len(metas) - 1 /\ k + 1 \in 1..Len(metas)
        BY <1>1, <3>1, <3>3
      <4> QED
        BY <1>2, <2>2, <2>4, <3>1, <4>1
    <3> QED
      BY <3>2, <3>3
  <2>8. Len(n) = Len(Append(t, e))
    BY <1>1, <1>2, <2>2, <2>4, <2>6
  <2>9. n = Append(t, e)
    BY <2>4, <2>6, <2>7, <2>8, SameList
  <2> QED
    BY <2>3, <2>5, <2>9 DEF h, m
<1> QED
  BY <1>4, <1>5

LEMMA Limits == Undone!LimitsAssumption /\ Undone!NoneAssumption
BY PartsAssumption

-----------------------------------------------------------------------------
(* Links *)

\* What a step was, and the bodies before and after it: a dismissal took its card away and brought
\* nothing; a morph shows what it brought.
Says(meta, before, after) ==
  IF meta.intent = "dismiss"
  THEN /\ meta.components = {meta.variant}
       /\ meta.refund \in Undone!Asks \cup {None}
       /\ meta.variant \notin Undone!Ids(after)
       /\ Undone!Ids(after) \subseteq Undone!Ids(before)
  ELSE /\ Undone!LessonOf(meta) \in Undone!Asks
       /\ meta.refund = None
       /\ meta.components \subseteq Undone!Ids(after)
       /\ Undone!Ids(after) \subseteq Undone!Ids(before) \cup meta.components

UndoLink(patch, meta, before, after) ==
  /\ Standing(before)
  /\ IsPatch(patch)
  /\ Undone!BringsBack(Undone!ApplyPatch(after, patch), before)
  /\ Says(meta, before, after)

RedoLink(entry, before, after) ==
  /\ Standing(after)
  /\ IsPatch(entry.patch)
  /\ Undone!BringsBack(Undone!ApplyPatch(before, entry.patch), after)
  /\ Says(entry.meta, before, after)
  /\ entry.relearn = Undone!Relearnt(entry.meta)
  /\ \/ entry.unlearn = None
     \/ entry.unlearn = Undone!LessonOf(entry.meta) /\ entry.meta.intent # "dismiss"

\* The body after the i-th entry of a stack: the one the next was pushed over.
After(stack, now, i) == IF i = Len(stack) THEN now ELSE stack[i + 1]

Undoable(history, meta, past, now) ==
  /\ IsList(history) /\ IsList(meta) /\ IsList(past)
  /\ Len(meta) = Len(history) /\ Len(past) = Len(history) /\ Len(history) <= HistoryLimit
  /\ \A i \in 1..Len(history) : UndoLink(history[i], meta[i], past[i], After(past, now, i))

Redoable(redo, ahead, now) ==
  /\ IsList(redo) /\ IsList(ahead)
  /\ Len(ahead) = Len(redo) /\ Len(redo) <= RedoLimit
  /\ \A i \in 1..Len(redo) : RedoLink(redo[i], After(ahead, now, i), ahead[i])

LEMMA NoStack ==
  ASSUME NEW now
  PROVE  Undoable(<<>>, <<>>, <<>>, now) /\ Redoable(<<>>, <<>>, now)
<1>1. Len(<<>>) = 0 /\ <<>> \in Seq({}) /\ 1..0 = {}
  BY EmptySeq
<1>2. IsList(<<>>)
  BY <1>1 DEF IsList
<1>3. 0 <= HistoryLimit /\ 0 <= RedoLimit
  BY Limits DEF Undone!LimitsAssumption
<1> QED
  BY <1>1, <1>2, <1>3 DEF Undoable, Redoable

\* A step forward, pushed.
LEMMA UndoPushed ==
  ASSUME NEW history, NEW meta, NEW past, NEW now, Undoable(history, meta, past, now),
         NEW patch, NEW was, NEW next, UndoLink(patch, was, now, next)
  PROVE  Undoable(Undone!Push(history, patch, HistoryLimit),
                  Undone!MetaBeside(Undone!Push(history, patch, HistoryLimit), Append(meta, was)),
                  Undone!Push(past, now, HistoryLimit), next)
<1> DEFINE h == Undone!Push(history, patch, HistoryLimit)
           m == Undone!MetaBeside(h, Append(meta, was))
           p == Undone!Push(past, now, HistoryLimit)
           d == Forgotten(history, HistoryLimit)
           n == Len(history)
<1>1. HistoryLimit \in Nat \ {0}
  BY Limits DEF Undone!LimitsAssumption
<1>2. /\ IsList(history) /\ IsList(meta) /\ IsList(past) /\ n \in Nat
      /\ Len(meta) = n /\ Len(past) = n /\ n <= HistoryLimit
      /\ \A i \in 1..n : UndoLink(history[i], meta[i], past[i], After(past, now, i))
  BY ListLen DEF Undoable
<1>3. m = Undone!Push(meta, was, HistoryLimit)
  BY <1>1, <1>2, BesideIsPush
<1>4. Forgotten(meta, HistoryLimit) = d /\ Forgotten(past, HistoryLimit) = d
  BY <1>2 DEF Forgotten
<1>5. /\ IsList(h) /\ d \in {0, 1} /\ d <= n /\ Len(h) = n + 1 - d /\ Len(h) <= HistoryLimit
      /\ \A k \in 1..n - d : h[k] = history[k + d]
      /\ h[n + 1 - d] = patch
  BY <1>1, <1>2, Pushed
<1>6. /\ IsList(m) /\ Len(m) = n + 1 - d
      /\ \A k \in 1..n - d : m[k] = meta[k + d]
      /\ m[n + 1 - d] = was
  BY <1>1, <1>2, <1>3, <1>4, Pushed
<1>7. /\ IsList(p) /\ Len(p) = n + 1 - d
      /\ \A k \in 1..n - d : p[k] = past[k + d]
      /\ p[n + 1 - d] = now
  BY <1>1, <1>2, <1>4, Pushed
<1> HIDE DEF h, m, p, d, n
<1>8. ASSUME NEW i \in 1..Len(h) PROVE UndoLink(h[i], m[i], p[i], After(p, next, i))
  <2>1. CASE i = n + 1 - d
    <3>1. After(p, next, i) = next
      BY <1>7, <2>1 DEF After
    <3> QED
      BY <1>5, <1>6, <1>7, <2>1, <3>1
  <2>2. CASE i # n + 1 - d
    <3>1. i \in 1..n - d /\ i + d \in 1..n
      BY <1>2, <1>5, <2>2
    <3>2. After(p, next, i) = After(past, now, i + d)
      <4>1. After(p, next, i) = p[i + 1]
        BY <1>7, <2>2 DEF After
      <4>2. CASE i = n - d
        <5>1. i + 1 = n + 1 - d /\ i + d = n
          BY <1>2, <1>5, <4>2
        <5> QED
          BY <1>2, <1>7, <4>1, <5>1 DEF After
      <4>3. CASE i # n - d
        <5>1. i + 1 \in 1..n - d /\ i + d # n /\ i + 1 + d = i + d + 1
          BY <1>2, <1>5, <3>1, <4>3
        <5>2. p[i + 1] = past[i + 1 + d]
          BY <1>7, <5>1
        <5> QED
          BY <1>2, <4>1, <5>1, <5>2 DEF After
      <4> QED
        BY <4>2, <4>3
    <3>3. UndoLink(history[i + d], meta[i + d], past[i + d], After(past, now, i + d))
      BY <1>2, <3>1
    <3>4. h[i] = history[i + d] /\ m[i] = meta[i + d] /\ p[i] = past[i + d]
      BY <1>5, <1>6, <1>7, <3>1
    <3> QED
      BY <3>2, <3>3, <3>4
  <2> QED
    BY <2>1, <2>2
<1>9. Undoable(h, m, p, next)
  BY <1>5, <1>6, <1>7, <1>8 DEF Undoable
<1> QED
  BY <1>9 DEF h, m, p

LEMMA RedoPushed ==
  ASSUME NEW redo, NEW ahead, NEW now, Redoable(redo, ahead, now),
         NEW entry, NEW next, RedoLink(entry, next, now)
  PROVE  Redoable(Undone!Push(redo, entry, RedoLimit), Undone!Push(ahead, now, RedoLimit), next)
<1> DEFINE r == Undone!Push(redo, entry, RedoLimit)
           p == Undone!Push(ahead, now, RedoLimit)
           d == Forgotten(redo, RedoLimit)
           n == Len(redo)
<1>1. RedoLimit \in Nat \ {0}
  BY Limits DEF Undone!LimitsAssumption
<1>2. /\ IsList(redo) /\ IsList(ahead) /\ n \in Nat
      /\ Len(ahead) = n /\ n <= RedoLimit
      /\ \A i \in 1..n : RedoLink(redo[i], After(ahead, now, i), ahead[i])
  BY ListLen DEF Redoable
<1>4. Forgotten(ahead, RedoLimit) = d
  BY <1>2 DEF Forgotten
<1>5. /\ IsList(r) /\ d \in {0, 1} /\ d <= n /\ Len(r) = n + 1 - d /\ Len(r) <= RedoLimit
      /\ \A k \in 1..n - d : r[k] = redo[k + d]
      /\ r[n + 1 - d] = entry
  BY <1>1, <1>2, Pushed
<1>7. /\ IsList(p) /\ Len(p) = n + 1 - d
      /\ \A k \in 1..n - d : p[k] = ahead[k + d]
      /\ p[n + 1 - d] = now
  BY <1>1, <1>2, <1>4, Pushed
<1> HIDE DEF r, p, d, n
<1>8. ASSUME NEW i \in 1..Len(r) PROVE RedoLink(r[i], After(p, next, i), p[i])
  <2>1. CASE i = n + 1 - d
    <3>1. After(p, next, i) = next
      BY <1>7, <2>1 DEF After
    <3> QED
      BY <1>5, <1>7, <2>1, <3>1
  <2>2. CASE i # n + 1 - d
    <3>1. i \in 1..n - d /\ i + d \in 1..n
      BY <1>2, <1>5, <2>2
    <3>2. After(p, next, i) = After(ahead, now, i + d)
      <4>1. After(p, next, i) = p[i + 1]
        BY <1>7, <2>2 DEF After
      <4>2. CASE i = n - d
        <5>1. i + 1 = n + 1 - d /\ i + d = n
          BY <1>2, <1>5, <4>2
        <5> QED
          BY <1>2, <1>7, <4>1, <5>1 DEF After
      <4>3. CASE i # n - d
        <5>1. i + 1 \in 1..n - d /\ i + d # n /\ i + 1 + d = i + d + 1
          BY <1>2, <1>5, <3>1, <4>3
        <5>2. p[i + 1] = ahead[i + 1 + d]
          BY <1>7, <5>1
        <5> QED
          BY <1>2, <4>1, <5>1, <5>2 DEF After
      <4> QED
        BY <4>2, <4>3
    <3>3. RedoLink(redo[i + d], After(ahead, now, i + d), ahead[i + d])
      BY <1>2, <3>1
    <3>4. r[i] = redo[i + d] /\ p[i] = ahead[i + d]
      BY <1>5, <1>7, <3>1
    <3> QED
      BY <3>2, <3>3, <3>4
  <2> QED
    BY <2>1, <2>2
<1>9. Redoable(r, p, next)
  BY <1>5, <1>7, <1>8 DEF Redoable
<1> QED
  BY <1>9 DEF r, p

\* A list without its last.
LEMMA Fronted ==
  ASSUME NEW x, IsList(x), Len(x) # 0
  PROVE  /\ IsList(Undone!Front(x)) /\ Len(Undone!Front(x)) = Len(x) - 1
         /\ \A k \in 1..Len(x) - 1 : Undone!Front(x)[k] = x[k]
         /\ Undone!Last(x) = x[Len(x)] /\ Len(x) \in 1..Len(x) /\ Len(x) - 1 \in 0..Len(x)
         /\ Undone!Front(x) = SubSeq(x, 1, Len(x) - 1)
<1>1. Len(x) \in Nat
  BY ListLen
<1>2. Undone!Front(x) = SubSeq(x, 1, Len(x) - 1) /\ Undone!Last(x) = x[Len(x)]
  BY DEF Undone!Front, Undone!Last
<1>3. Len(x) - 1 \in 0..Len(x) /\ Len(x) \in 1..Len(x)
  BY <1>1
<1> DEFINE n == Len(x) - 1
<1>4. n \in 0..Len(x)
  BY <1>3
<1> HIDE DEF n
<1>5. /\ IsList(SubSeq(x, 1, n)) /\ Len(SubSeq(x, 1, n)) = n
      /\ \A k \in 1..n : SubSeq(x, 1, n)[k] = x[k]
  BY <1>4, Shortened
<1> QED
  BY <1>2, <1>3, <1>5 DEF n

LEMMA UndoPopped ==
  ASSUME NEW history, NEW meta, NEW past, NEW now, Undoable(history, meta, past, now),
         Len(history) # 0
  PROVE  /\ UndoLink(Undone!Last(history), Undone!Last(meta), Undone!Last(past), now)
         /\ Undoable(Undone!Front(history), Undone!Front(meta), Undone!Front(past), Undone!Last(past))
<1> DEFINE n == Len(history)
<1>2. /\ IsList(history) /\ IsList(meta) /\ IsList(past) /\ n \in Nat
      /\ Len(meta) = n /\ Len(past) = n /\ n <= HistoryLimit
      /\ \A i \in 1..n : UndoLink(history[i], meta[i], past[i], After(past, now, i))
  BY ListLen DEF Undoable
<1> DEFINE h == Undone!Front(history)  m == Undone!Front(meta)  p == Undone!Front(past)
<1>3. /\ IsList(h) /\ Len(h) = n - 1 /\ \A k \in 1..n - 1 : h[k] = history[k]
      /\ Undone!Last(history) = history[n] /\ n \in 1..n
  BY <1>2, Fronted
<1>4. /\ IsList(m) /\ Len(m) = n - 1 /\ \A k \in 1..n - 1 : m[k] = meta[k]
      /\ Undone!Last(meta) = meta[n]
  BY <1>2, Fronted
<1>5. /\ IsList(p) /\ Len(p) = n - 1 /\ \A k \in 1..n - 1 : p[k] = past[k]
      /\ Undone!Last(past) = past[n]
  BY <1>2, Fronted
<1>6. HistoryLimit \in Nat
  BY Limits DEF Undone!LimitsAssumption
<1>9. n # 0
  OBVIOUS
<1> HIDE DEF h, m, p, n
<1>7. UndoLink(Undone!Last(history), Undone!Last(meta), Undone!Last(past), now)
  <2>1. After(past, now, n) = now
    BY <1>2 DEF After
  <2> QED
    BY <1>2, <1>3, <1>4, <1>5, <2>1
<1>8. ASSUME NEW i \in 1..Len(h)
      PROVE  UndoLink(h[i], m[i], p[i], After(p, Undone!Last(past), i))
  <2>1. i \in 1..n - 1 /\ i \in 1..n /\ i # n
    BY <1>2, <1>3
  <2>2. After(past, now, i) = past[i + 1]
    BY <1>2, <2>1 DEF After
  <2>3. After(p, Undone!Last(past), i) = past[i + 1]
    <3>1. CASE i = n - 1
      <4>1. i + 1 = n
        BY <1>2, <3>1
      <4> QED
        BY <1>5, <3>1, <4>1 DEF After
    <3>2. CASE i # n - 1
      <4>1. i + 1 \in 1..n - 1
        BY <1>2, <2>1, <3>2
      <4> QED
        BY <1>5, <3>2, <4>1 DEF After
    <3> QED
      BY <3>1, <3>2
  <2>4. UndoLink(history[i], meta[i], past[i], After(past, now, i))
    BY <1>2, <2>1
  <2>5. h[i] = history[i] /\ m[i] = meta[i] /\ p[i] = past[i]
    BY <1>3, <1>4, <1>5, <2>1
  <2> QED
    BY <2>2, <2>3, <2>4, <2>5
<1>10. n - 1 <= HistoryLimit
  BY <1>2, <1>6
<1>11. Undoable(h, m, p, Undone!Last(past))
  BY <1>3, <1>4, <1>5, <1>8, <1>10 DEF Undoable
<1> QED
  BY <1>7, <1>11 DEF h, m, p

LEMMA RedoPopped ==
  ASSUME NEW redo, NEW ahead, NEW now, Redoable(redo, ahead, now), Len(redo) # 0
  PROVE  /\ RedoLink(redo[Len(redo)], now, ahead[Len(redo)])
         /\ Redoable(SubSeq(redo, 1, Len(redo) - 1), SubSeq(ahead, 1, Len(redo) - 1),
                     ahead[Len(redo)])
<1> DEFINE n == Len(redo)
<1>2. /\ IsList(redo) /\ IsList(ahead) /\ n \in Nat
      /\ Len(ahead) = n /\ n <= RedoLimit
      /\ \A i \in 1..n : RedoLink(redo[i], After(ahead, now, i), ahead[i])
  BY ListLen DEF Redoable
<1> DEFINE r == SubSeq(redo, 1, n - 1)  p == SubSeq(ahead, 1, n - 1)
<1>9. n # 0
  OBVIOUS
<1>3. /\ IsList(r) /\ Len(r) = n - 1 /\ \A k \in 1..n - 1 : r[k] = redo[k] /\ n \in 1..n
  <2>1. /\ IsList(Undone!Front(redo)) /\ Len(Undone!Front(redo)) = Len(redo) - 1
        /\ \A k \in 1..Len(redo) - 1 : Undone!Front(redo)[k] = redo[k]
        /\ Len(redo) \in 1..Len(redo) /\ Undone!Front(redo) = SubSeq(redo, 1, Len(redo) - 1)
    BY <1>2, Fronted
  <2>2. r = Undone!Front(redo)
    BY <2>1
  <2> HIDE DEF r
  <2> QED
    BY <2>1, <2>2
<1>5. /\ IsList(p) /\ Len(p) = n - 1 /\ \A k \in 1..n - 1 : p[k] = ahead[k]
  <2>1. /\ IsList(Undone!Front(ahead)) /\ Len(Undone!Front(ahead)) = Len(ahead) - 1
        /\ \A k \in 1..Len(ahead) - 1 : Undone!Front(ahead)[k] = ahead[k]
        /\ Undone!Front(ahead) = SubSeq(ahead, 1, Len(ahead) - 1)
    BY <1>2, <1>9, Fronted
  <2>2. p = Undone!Front(ahead)
    BY <1>2, <2>1
  <2> HIDE DEF p
  <2> QED
    BY <1>2, <2>1, <2>2
<1>6. RedoLimit \in Nat
  BY Limits DEF Undone!LimitsAssumption
<1> HIDE DEF r, p, n
<1>7. RedoLink(redo[n], now, ahead[n])
  <2>1. After(ahead, now, n) = now /\ n \in 1..n
    BY <1>2, <1>9 DEF After
  <2> QED
    BY <1>2, <2>1
<1>8. ASSUME NEW i \in 1..Len(r)
      PROVE  RedoLink(r[i], After(p, ahead[n], i), p[i])
  <2>1. i \in 1..n - 1 /\ i \in 1..n /\ i # n
    BY <1>2, <1>3
  <2>2. After(ahead, now, i) = ahead[i + 1]
    BY <1>2, <2>1 DEF After
  <2>3. After(p, ahead[n], i) = ahead[i + 1]
    <3>1. CASE i = n - 1
      <4>1. i + 1 = n
        BY <1>2, <3>1
      <4> QED
        BY <1>5, <3>1, <4>1 DEF After
    <3>2. CASE i # n - 1
      <4>1. i + 1 \in 1..n - 1
        BY <1>2, <2>1, <3>2
      <4> QED
        BY <1>5, <3>2, <4>1 DEF After
    <3> QED
      BY <3>1, <3>2
  <2>4. RedoLink(redo[i], After(ahead, now, i), ahead[i])
    BY <1>2, <2>1
  <2>5. r[i] = redo[i] /\ p[i] = ahead[i]
    BY <1>3, <1>5, <2>1
  <2> QED
    BY <2>2, <2>3, <2>4, <2>5
<1>10. n - 1 <= RedoLimit
  BY <1>2, <1>6
<1>11. Redoable(r, p, ahead[n])
  BY <1>3, <1>5, <1>8, <1>10 DEF Redoable
<1> QED
  BY <1>7, <1>11 DEF r, p, n

-----------------------------------------------------------------------------
(* Lessons *)

LEMMA AsksAreOffers ==
  \A l \in Undone!Asks : l \in Undone!Lessons /\ l # None /\ l \notin {"dismiss"} \X Undone!Cards
<1>1. None \notin Undone!Lessons
  BY Limits DEF Undone!NoneAssumption
<1>2. \A l \in Undone!Asks : l \in Undone!Lessons
  BY DEF Undone!Lessons
<1>3. \A l \in Undone!Asks : l[1] \in {"augment", "surface_incident", "restore_normal"}
  BY DEF Undone!Asks
<1>4. \A l \in {"dismiss"} \X Undone!Cards : l[1] = "dismiss"
  OBVIOUS
<1> QED
  BY <1>1, <1>2, <1>3, <1>4

\* Nothing is taught that was not offered.
Taught(weights) ==
  /\ weights \in [Undone!Lessons -> Nat]
  /\ \A l \in {"dismiss"} \X Undone!Cards : weights[l] = 0

\* What one more step of this lesson comes to.
One(l, lesson) == IF l = lesson THEN 1 ELSE 0

LEMMA TaughtMore ==
  ASSUME NEW weights, Taught(weights), NEW lesson \in Undone!Asks \cup {None}
  PROVE  /\ Taught(Undone!Reinforced(weights, lesson, 1))
         /\ \A l \in Undone!Lessons : Undone!Reinforced(weights, lesson, 1)[l] = weights[l] + One(l, lesson)
<1>1. weights \in [Undone!Lessons -> Nat] /\ \A l \in {"dismiss"} \X Undone!Cards : weights[l] = 0
  BY DEF Taught
<1>2. CASE lesson = None
  <2>1. Undone!Reinforced(weights, lesson, 1) = weights
    BY <1>2 DEF Undone!Reinforced
  <2>2. \A l \in Undone!Lessons : One(l, lesson) = 0 /\ weights[l] \in Nat
    BY <1>1, <1>2, Limits DEF One, Undone!NoneAssumption
  <2>3. \A l \in Undone!Lessons : weights[l] = weights[l] + One(l, lesson)
    BY <2>2
  <2> QED
    BY <2>1, <2>3
<1>3. CASE lesson \in Undone!Asks
  <2>1. lesson \in Undone!Lessons /\ lesson # None /\ lesson \notin {"dismiss"} \X Undone!Cards
    BY <1>3, AsksAreOffers
  <2>2. ~(weights[lesson] + 1 < 0) /\ weights[lesson] + 1 \in Nat
    BY <1>1, <2>1
  <2>3. Undone!Reinforced(weights, lesson, 1) = [weights EXCEPT ![lesson] = weights[lesson] + 1]
    BY <2>1, <2>2 DEF Undone!Reinforced
  <2> DEFINE w == Undone!Reinforced(weights, lesson, 1)
  <2>4. w \in [Undone!Lessons -> Nat]
    BY <1>1, <2>2, <2>3
  <2>5. \A l \in Undone!Lessons : w[l] = IF l = lesson THEN weights[l] + 1 ELSE weights[l]
    BY <1>1, <2>3
  <2> HIDE DEF w
  <2>6. \A l \in Undone!Lessons : w[l] = weights[l] + One(l, lesson)
    BY <1>1, <2>5 DEF One
  <2>7. \A l \in {"dismiss"} \X Undone!Cards : l \in Undone!Lessons /\ l # lesson
    BY <2>1 DEF Undone!Lessons
  <2>8. \A l \in {"dismiss"} \X Undone!Cards : w[l] = 0
    BY <1>1, <2>5, <2>7
  <2>9. Taught(w)
    BY <2>4, <2>8 DEF Taught
  <2> QED
    BY <2>6, <2>9 DEF w
<1> QED
  BY <1>2, <1>3

LEMMA TaughtLess ==
  ASSUME NEW weights, Taught(weights), NEW lesson \in Undone!Asks \cup {None},
         lesson # None => weights[lesson] >= 1
  PROVE  /\ Taught(Undone!Reinforced(weights, lesson, -1))
         /\ \A l \in Undone!Lessons : Undone!Reinforced(weights, lesson, -1)[l] = weights[l] - One(l, lesson)
<1>1. weights \in [Undone!Lessons -> Nat] /\ \A l \in {"dismiss"} \X Undone!Cards : weights[l] = 0
  BY DEF Taught
<1>2. CASE lesson = None
  <2>1. Undone!Reinforced(weights, lesson, -1) = weights
    BY <1>2 DEF Undone!Reinforced
  <2>2. \A l \in Undone!Lessons : One(l, lesson) = 0 /\ weights[l] \in Nat
    BY <1>1, <1>2, Limits DEF One, Undone!NoneAssumption
  <2>3. \A l \in Undone!Lessons : weights[l] = weights[l] - One(l, lesson)
    BY <2>2
  <2> QED
    BY <2>1, <2>3
<1>3. CASE lesson \in Undone!Asks
  <2>1. lesson \in Undone!Lessons /\ lesson # None /\ lesson \notin {"dismiss"} \X Undone!Cards
    BY <1>3, AsksAreOffers
  <2>2. ~(weights[lesson] + (-1) < 0) /\ weights[lesson] + (-1) = weights[lesson] - 1
        /\ weights[lesson] - 1 \in Nat
    BY <1>1, <2>1
  <2>3. Undone!Reinforced(weights, lesson, -1) = [weights EXCEPT ![lesson] = weights[lesson] - 1]
    <3>1. Undone!Reinforced(weights, lesson, -1) =
            [weights EXCEPT ![lesson] = IF weights[lesson] + (-1) < 0 THEN 0
                                        ELSE weights[lesson] + (-1)]
      BY <2>1 DEF Undone!Reinforced
    <3> QED
      BY <2>2, <3>1
  <2> DEFINE w == Undone!Reinforced(weights, lesson, -1)
  <2>4. w \in [Undone!Lessons -> Nat]
    BY <1>1, <2>2, <2>3
  <2>5. \A l \in Undone!Lessons : w[l] = IF l = lesson THEN weights[l] - 1 ELSE weights[l]
    BY <1>1, <2>3
  <2> HIDE DEF w
  <2>6. \A l \in Undone!Lessons : w[l] = weights[l] - One(l, lesson)
    BY <1>1, <2>5 DEF One
  <2>7. \A l \in {"dismiss"} \X Undone!Cards : l \in Undone!Lessons /\ l # lesson
    BY <2>1 DEF Undone!Lessons
  <2>8. \A l \in {"dismiss"} \X Undone!Cards : w[l] = 0
    BY <1>1, <2>5, <2>7
  <2>9. Taught(w)
    BY <2>4, <2>8 DEF Taught
  <2> QED
    BY <2>6, <2>9 DEF w
<1> QED
  BY <1>2, <1>3

\* What may still be handed back of a lesson.
Refunds(meta, l) == {i \in 1..Len(meta) : meta[i].refund = l}
Repeats(redo, l) == {i \in 1..Len(redo) : redo[i].unlearn = l}
Covered(weights, meta, redo) ==
  \A l \in Undone!Lessons : weights[l] >= Cardinality(Refunds(meta, l)) + Cardinality(Repeats(redo, l))

LEMMA CountsAreFinite ==
  ASSUME NEW meta, IsList(meta), NEW l
  PROVE  /\ IsFiniteSet(Refunds(meta, l)) /\ Cardinality(Refunds(meta, l)) \in Nat
         /\ Refunds(meta, l) \subseteq Nat
         /\ IsFiniteSet(Repeats(meta, l)) /\ Cardinality(Repeats(meta, l)) \in Nat
         /\ Repeats(meta, l) \subseteq Nat
<1>1. Len(meta) \in Nat
  BY ListLen
<1>2. IsFiniteSet(1..Len(meta))
  BY <1>1, FS_Interval
<1>3. Refunds(meta, l) \in SUBSET (1..Len(meta)) /\ Repeats(meta, l) \in SUBSET (1..Len(meta))
  BY DEF Refunds, Repeats
<1>4. IsFiniteSet(Refunds(meta, l)) /\ IsFiniteSet(Repeats(meta, l))
  BY <1>2, <1>3, FS_Subset
<1>5. Cardinality(Refunds(meta, l)) \in Nat /\ Cardinality(Repeats(meta, l)) \in Nat
  BY <1>4, FS_CardinalityType
<1> QED
  BY <1>1, <1>3, <1>4, <1>5

\* Moved down by d, and one more at the end.
LEMMA CountPushed ==
  ASSUME NEW A \in SUBSET Nat, IsFiniteSet(A), NEW B \in SUBSET Nat, NEW d \in Nat, NEW last,
         \A k \in B : k # last => k + d \in A
  PROVE  /\ IsFiniteSet(B) /\ Cardinality(A) \in Nat /\ Cardinality(B) \in Nat
         /\ Cardinality(B) <= Cardinality(A) + 1
         /\ last \notin B => Cardinality(B) <= Cardinality(A)
<1> DEFINE C == B \ {last}
           f == [k \in C |-> k + d]
<1>1. f \in Injection(C, A)
  <2>1. f \in [C -> A]
    OBVIOUS
  <2>2. \A j, k \in C : f[j] = f[k] => j = k
    OBVIOUS
  <2> HIDE DEF f, C
  <2> QED
    BY <2>1, <2>2 DEF Injection, IsInjective
<1> HIDE DEF f
<1>2. IsFiniteSet(C) /\ Cardinality(C) <= Cardinality(A)
  BY <1>1, FS_Injection
<1>3. B = IF last \in B THEN C \cup {last} ELSE C
  OBVIOUS
<1>4. last \notin C
  OBVIOUS
<1> HIDE DEF C
<1>5. Cardinality(A) \in Nat /\ Cardinality(C) \in Nat
  BY <1>2, FS_CardinalityType
<1>6. IsFiniteSet(C \cup {last}) /\ Cardinality(C \cup {last}) = Cardinality(C) + 1
  BY <1>2, <1>4, FS_AddElement
<1> QED
  BY <1>2, <1>3, <1>5, <1>6

LEMMA RefundsPushed ==
  ASSUME NEW limit \in Nat \ {0}, NEW meta, IsList(meta), Len(meta) <= limit, NEW was, NEW l
  PROVE  Cardinality(Refunds(Undone!Push(meta, was, limit), l))
           <= Cardinality(Refunds(meta, l)) + One(l, was.refund)
<1> DEFINE m == Undone!Push(meta, was, limit)  d == Forgotten(meta, limit)  n == Len(meta)
<1>1. /\ IsList(m) /\ d \in {0, 1} /\ d <= n /\ Len(m) = n + 1 - d /\ n \in Nat
      /\ \A k \in 1..n - d : m[k] = meta[k + d]
      /\ m[n + 1 - d] = was
  BY Pushed, ListLen
<1> HIDE DEF m, d
<1>2. \A k \in Refunds(m, l) : k # n + 1 - d => k + d \in Refunds(meta, l)
  <2> SUFFICES ASSUME NEW k \in Refunds(m, l), k # n + 1 - d PROVE k + d \in Refunds(meta, l)
    OBVIOUS
  <2>1. k \in 1..Len(m) /\ m[k].refund = l
    BY DEF Refunds
  <2>2. k \in 1..n - d /\ k + d \in 1..n
    BY <1>1, <2>1
  <2>3. m[k] = meta[k + d]
    BY <1>1, <2>2
  <2> QED
    BY <2>1, <2>2, <2>3 DEF Refunds
<1>3. /\ IsFiniteSet(Refunds(meta, l)) /\ Refunds(meta, l) \subseteq Nat
      /\ Refunds(m, l) \subseteq Nat
  BY <1>1, CountsAreFinite
<1> DEFINE A == Refunds(meta, l)  B == Refunds(m, l)
<1>5. n + 1 - d \in B => l = was.refund
  BY <1>1 DEF Refunds
<1> HIDE DEF A, B
<1>4. /\ Cardinality(A) \in Nat /\ Cardinality(B) \in Nat
      /\ Cardinality(B) <= Cardinality(A) + 1
      /\ n + 1 - d \notin B => Cardinality(B) <= Cardinality(A)
  <2>1. A \in SUBSET Nat /\ B \in SUBSET Nat /\ IsFiniteSet(A) /\ d \in Nat
        /\ \A k \in B : k # n + 1 - d => k + d \in A
    BY <1>1, <1>2, <1>3 DEF A, B
  <2> QED
    BY <2>1, CountPushed
<1>6. Cardinality(B) <= Cardinality(A) + One(l, was.refund)
  BY <1>4, <1>5 DEF One
<1> QED
  BY <1>6 DEF A, B, m

LEMMA RepeatsPushed ==
  ASSUME NEW limit \in Nat \ {0}, NEW redo, IsList(redo), Len(redo) <= limit, NEW entry, NEW l
  PROVE  Cardinality(Repeats(Undone!Push(redo, entry, limit), l))
           <= Cardinality(Repeats(redo, l)) + One(l, entry.unlearn)
<1> DEFINE m == Undone!Push(redo, entry, limit)  d == Forgotten(redo, limit)  n == Len(redo)
<1>1. /\ IsList(m) /\ d \in {0, 1} /\ d <= n /\ Len(m) = n + 1 - d /\ n \in Nat
      /\ \A k \in 1..n - d : m[k] = redo[k + d]
      /\ m[n + 1 - d] = entry
  BY Pushed, ListLen
<1> HIDE DEF m, d
<1>2. \A k \in Repeats(m, l) : k # n + 1 - d => k + d \in Repeats(redo, l)
  <2> SUFFICES ASSUME NEW k \in Repeats(m, l), k # n + 1 - d PROVE k + d \in Repeats(redo, l)
    OBVIOUS
  <2>1. k \in 1..Len(m) /\ m[k].unlearn = l
    BY DEF Repeats
  <2>2. k \in 1..n - d /\ k + d \in 1..n
    BY <1>1, <2>1
  <2>3. m[k] = redo[k + d]
    BY <1>1, <2>2
  <2> QED
    BY <2>1, <2>2, <2>3 DEF Repeats
<1>3. /\ IsFiniteSet(Repeats(redo, l)) /\ Repeats(redo, l) \subseteq Nat
      /\ Repeats(m, l) \subseteq Nat
  BY <1>1, CountsAreFinite
<1> DEFINE A == Repeats(redo, l)  B == Repeats(m, l)
<1>5. n + 1 - d \in B => l = entry.unlearn
  BY <1>1 DEF Repeats
<1> HIDE DEF A, B
<1>4. /\ Cardinality(A) \in Nat /\ Cardinality(B) \in Nat
      /\ Cardinality(B) <= Cardinality(A) + 1
      /\ n + 1 - d \notin B => Cardinality(B) <= Cardinality(A)
  <2>1. A \in SUBSET Nat /\ B \in SUBSET Nat /\ IsFiniteSet(A) /\ d \in Nat
        /\ \A k \in B : k # n + 1 - d => k + d \in A
    BY <1>1, <1>2, <1>3 DEF A, B
  <2> QED
    BY <2>1, CountPushed
<1>6. Cardinality(B) <= Cardinality(A) + One(l, entry.unlearn)
  BY <1>4, <1>5 DEF One
<1> QED
  BY <1>6 DEF A, B, m

LEMMA CountsPopped ==
  ASSUME NEW x, IsList(x), Len(x) # 0, NEW y, y = SubSeq(x, 1, Len(x) - 1), NEW l
  PROVE  /\ Cardinality(Refunds(y, l)) = Cardinality(Refunds(x, l)) - One(l, x[Len(x)].refund)
         /\ Cardinality(Repeats(y, l)) = Cardinality(Repeats(x, l)) - One(l, x[Len(x)].unlearn)
<1> DEFINE n == Len(x)
<1>1. /\ IsList(y) /\ Len(y) = n - 1 /\ \A k \in 1..n - 1 : y[k] = x[k]
      /\ n \in Nat /\ n \in 1..n
  BY Fronted, ListLen
<1>2. n - 1 \in Nat
  BY <1>1
<1> HIDE DEF n
<1>3. Refunds(y, l) = Refunds(x, l) \ {n}
  BY <1>1, <1>2 DEF Refunds, n
<1>4. Repeats(y, l) = Repeats(x, l) \ {n}
  BY <1>1, <1>2 DEF Repeats, n
<1>5. (n \in Refunds(x, l) <=> l = x[n].refund) /\ (n \in Repeats(x, l) <=> l = x[n].unlearn)
  BY <1>1 DEF Refunds, Repeats, n
<1>6. /\ IsFiniteSet(Refunds(x, l)) /\ Cardinality(Refunds(x, l)) \in Nat
      /\ IsFiniteSet(Repeats(x, l)) /\ Cardinality(Repeats(x, l)) \in Nat
  BY CountsAreFinite
<1>7. Cardinality(Refunds(y, l)) = Cardinality(Refunds(x, l)) - One(l, x[n].refund)
  <2>1. Cardinality(Refunds(x, l) \ {n}) =
          IF n \in Refunds(x, l) THEN Cardinality(Refunds(x, l)) - 1 ELSE Cardinality(Refunds(x, l))
    BY <1>6, FS_RemoveElement
  <2>2. CASE l = x[n].refund
    <3>1. n \in Refunds(x, l) /\ One(l, x[n].refund) = 1
      BY <1>5, <2>2 DEF One
    <3> QED
      BY <1>3, <2>1, <3>1
  <2>3. CASE l # x[n].refund
    <3>1. n \notin Refunds(x, l) /\ One(l, x[n].refund) = 0
      BY <1>5, <2>3 DEF One
    <3> QED
      <4>1. Cardinality(Refunds(y, l)) = Cardinality(Refunds(x, l))
        BY <1>3, <2>1, <3>1
      <4>2. Cardinality(Refunds(x, l)) \in Nat
        BY <1>6
      <4> QED
        BY <3>1, <4>1, <4>2
  <2> QED
    BY <2>2, <2>3
<1>8. Cardinality(Repeats(y, l)) = Cardinality(Repeats(x, l)) - One(l, x[n].unlearn)
  <2>1. Cardinality(Repeats(x, l) \ {n}) =
          IF n \in Repeats(x, l) THEN Cardinality(Repeats(x, l)) - 1 ELSE Cardinality(Repeats(x, l))
    BY <1>6, FS_RemoveElement
  <2>2. CASE l = x[n].unlearn
    <3>1. n \in Repeats(x, l) /\ One(l, x[n].unlearn) = 1
      BY <1>5, <2>2 DEF One
    <3> QED
      BY <1>4, <2>1, <3>1
  <2>3. CASE l # x[n].unlearn
    <3>1. n \notin Repeats(x, l) /\ One(l, x[n].unlearn) = 0
      BY <1>5, <2>3 DEF One
    <3> QED
      <4>1. Cardinality(Repeats(y, l)) = Cardinality(Repeats(x, l))
        BY <1>4, <2>1, <3>1
      <4>2. Cardinality(Repeats(x, l)) \in Nat
        BY <1>6
      <4> QED
        BY <3>1, <4>1, <4>2
  <2> QED
    BY <2>2, <2>3
<1> QED
  BY <1>7, <1>8 DEF n

LEMMA NothingDue ==
  \A l : Cardinality(Refunds(<<>>, l)) = 0 /\ Cardinality(Repeats(<<>>, l)) = 0
<1> SUFFICES ASSUME NEW l
             PROVE  Cardinality(Refunds(<<>>, l)) = 0 /\ Cardinality(Repeats(<<>>, l)) = 0
  OBVIOUS
<1>1. Len(<<>>) = 0 /\ 1..0 = {}
  BY EmptySeq
<1>2. Refunds(<<>>, l) = {} /\ Repeats(<<>>, l) = {}
  BY <1>1 DEF Refunds, Repeats
<1> QED
  BY <1>2, FS_EmptySet

-----------------------------------------------------------------------------
(* Plans *)

LEMMA LeafIsTree ==
  ASSUME NEW n, NEW x
  PROVE  IsTree(Undone!Leaf(n, x)) /\ Undone!Ids(Undone!Leaf(n, x)) = {n} /\ Undone!Leaf(n, x).root = n
<1> DEFINE t == Undone!Leaf(n, x)
<1>1. /\ t = [root |-> t.root, kids |-> t.kids, look |-> t.look]
      /\ t.root = n /\ Undone!Ids(t) = {n} /\ t.kids = [m \in {n} |-> <<>>]
      /\ t.look = [m \in {n} |-> [content |-> x, signals |-> {}]]
  BY DEF Undone!Leaf, Undone!Ids
<1> HIDE DEF t
<1>2. Len(<<>>) = 0 /\ <<>> \in Seq({n}) /\ 1..0 = {}
  BY EmptySeq
<1>3. \A m \in Undone!Ids(t) : 1..Len(t.kids[m]) = {}
  BY <1>1, <1>2
<1>4. Shaped(t)
  BY <1>1, <1>2 DEF Shaped
<1>5. PlacedOnce(t)
  BY <1>3 DEF PlacedOnce
<1>6. Founded(t)
  BY <1>3 DEF Founded
<1>7. Rooted(t)
  BY <1>1 DEF Rooted
<1> QED
  BY <1>1, <1>4, <1>5, <1>6, <1>7 DEF IsTree, t

\* The operations planMorph uses: a leaf comes in, a component goes, or something is signalled.
LeafIn(op) == \E n, x, p : \E i \in Nat \ {0} : op = Undone!AddOp(p, i, Undone!Leaf(n, x))
LeafOver(op) == \E n, x : op = Undone!ReplaceOp(n, Undone!Leaf(n, x))
PlainOp(op) == LeafIn(op) \/ LeafOver(op) \/ IsRemove(op) \/ IsSignal(op)
Brings(op) == IF op.op \in {"add", "replace"} THEN {op.component.root} ELSE {}

LEMMA PlainIsOp ==
  ASSUME NEW op, PlainOp(op)
  PROVE  IsOp(op)
BY LeafIsTree DEF PlainOp, LeafIn, LeafOver, IsOp, IsAdd, IsReplace

\* What one such operation leaves of the ids.
Keeps(t, op) ==
  /\ IsTree(Undone!Result(t, op))
  /\ Undone!Ids(Undone!Result(t, op)) \subseteq Undone!Ids(t) \cup Brings(op)
  /\ Brings(op) \subseteq Undone!Ids(Undone!Result(t, op))
  /\ op.op \notin {"remove", "replace"} => Undone!Ids(t) \subseteq Undone!Ids(Undone!Result(t, op))

LEMMA PlainKeeps ==
  ASSUME NEW t, IsTree(t), NEW op, PlainOp(op), Undone!Possible(t, op)
  PROVE  Keeps(t, op)
<1>1. IsTree(Undone!Result(t, op))
  BY PlainIsOp, OpUndone DEF Undoes
<1>2. CASE LeafIn(op)
  <2>1. PICK n, x, p : \E i \in Nat \ {0} : op = Undone!AddOp(p, i, Undone!Leaf(n, x))
    BY <1>2 DEF LeafIn
  <2>2. PICK i \in Nat \ {0} : op = Undone!AddOp(p, i, Undone!Leaf(n, x))
    BY <2>1
  <2> DEFINE c == Undone!Leaf(n, x)
  <2>3. IsTree(c) /\ Undone!Ids(c) = {n} /\ c.root = n
    BY LeafIsTree
  <2> HIDE DEF c
  <2>4. op = Undone!AddOp(p, i, c)
    BY <2>2 DEF c
  <2>5. Undone!Result(t, op) = Undone!Graft(t, p, i, c) /\ p \in Undone!Ids(t) /\ Undone!Ids(c) \cap Undone!Ids(t) = {}
    BY <2>4, OfAdd
  <2>6. Graftable(t, p, i, c)
    BY <2>3, <2>5 DEF Graftable
  <2>7. Undone!Ids(Undone!Result(t, op)) = Undone!Ids(t) \cup {n}
    <3>1. GraftOf(Undone!Graft(t, p, i, c), t, p, i, c)
      BY <2>6, GraftFields
    <3> QED
      BY <2>3, <2>5, <3>1 DEF GraftOf
  <2>8. Brings(op) = {n} /\ op.op = "add"
    BY <2>3, <2>4 DEF Brings, Undone!AddOp
  <2> QED
    BY <1>1, <2>7, <2>8 DEF Keeps
<1>3. CASE LeafOver(op)
  <2>1. PICK n, x : op = Undone!ReplaceOp(n, Undone!Leaf(n, x))
    BY <1>3 DEF LeafOver
  <2> DEFINE c == Undone!Leaf(n, x)
  <2>3. IsTree(c) /\ Undone!Ids(c) = {n} /\ c.root = n
    BY LeafIsTree
  <2> HIDE DEF c
  <2>4. op = Undone!ReplaceOp(n, c)
    BY <2>1 DEF c
  <2>8. Brings(op) = {n} /\ op.op = "replace"
    BY <2>3, <2>4 DEF Brings, Undone!ReplaceOp
  <2>5. n \in Undone!Ids(t) /\ (n # t.root => Undone!Ids(c) \cap Without(t, n) = {})
    BY <2>4, OfReplace
  <2>6. CASE n = t.root
    <3>1. Undone!Result(t, op) = c
      BY <2>4, <2>6, OfReplace
    <3> QED
      BY <1>1, <2>3, <2>8, <3>1 DEF Keeps
  <2>7. CASE n # t.root
    <3> DEFINE u == Undone!Cut(t, n)  p == Undone!ParentOf(t, n)  i == Undone!IndexOf(t, n)
    <3>1. Undone!Result(t, op) = Undone!Graft(u, p, i, c)
      BY <2>4, <2>7, OfReplace
    <3>2. Graftable(u, p, i, Undone!Subtree(t, n)) /\ IsTree(u) /\ Undone!Ids(u) = Without(t, n)
      BY <2>5, <2>7, GraftUndoesCut, CutIsTree, CutFields
    <3> HIDE DEF u, p, i
    <3>3. Graftable(u, p, i, c)
      BY <2>3, <2>5, <2>7, <3>2 DEF Graftable
    <3>4. Undone!Ids(Undone!Result(t, op)) = Without(t, n) \cup {n}
      <4>1. GraftOf(Undone!Graft(u, p, i, c), u, p, i, c)
        BY <3>3, GraftFields
      <4> QED
        BY <2>3, <3>1, <3>2, <4>1 DEF GraftOf
    <3> QED
      BY <1>1, <2>8, <3>4 DEF Keeps, Without
  <2> QED
    BY <2>6, <2>7
<1>4. CASE IsRemove(op)
  <2>1. PICK n : op = Undone!RemoveOp(n)
    BY <1>4 DEF IsRemove
  <2>2. n \in Undone!Ids(t) /\ n # t.root /\ Undone!Result(t, op) = Undone!Cut(t, n)
    BY <2>1, OfRemove
  <2>3. Undone!Ids(Undone!Result(t, op)) = Without(t, n)
    BY <2>2, CutIds
  <2>4. op.op = "remove"
    BY <2>1 DEF Undone!RemoveOp
  <2>5. Brings(op) = {}
    BY <2>4 DEF Brings
  <2> QED
    BY <1>1, <2>3, <2>4, <2>5 DEF Keeps, Without
<1>5. CASE IsSignal(op)
  <2>1. PICK n : \E name \in Undone!SignalOps : op = Undone!SignalOp(name, n)
    BY <1>5 DEF IsSignal
  <2>2. PICK name \in Undone!SignalOps : op = Undone!SignalOp(name, n)
    BY <2>1
  <2>3. Undone!Result(t, op) = [t EXCEPT !.look[n].signals = Undone!Signalled(@, name)]
    BY <2>2, OfSignal
  <2>4. t = [root |-> t.root, kids |-> t.kids, look |-> t.look]
    BY DEF IsTree, Shaped
  <2>5. Undone!Result(t, op).kids = t.kids
    BY <2>3, <2>4
  <2>6. op.op \notin {"add", "replace"}
    BY <2>2 DEF Undone!SignalOp, Undone!SignalOps
  <2>7. Brings(op) = {}
    BY <2>6 DEF Brings
  <2> QED
    BY <1>1, <2>5, <2>7 DEF Keeps, Undone!Ids
<1> QED
  BY <1>2, <1>3, <1>4, <1>5 DEF PlainOp

\* Only the first operation of a plan takes anything away.
PlainPatch(patch) ==
  /\ IsList(patch)
  /\ \A k \in 1..Len(patch) :
       PlainOp(patch[k]) /\ (patch[k].op \in {"remove", "replace"} => k = 1)

LEMMA PlainIsPatch ==
  ASSUME NEW patch, PlainPatch(patch)
  PROVE  IsPatch(patch)
BY PlainIsOp DEF PlainPatch, IsPatch

\* What a patch brings in by its k-th operation.
BroughtBy(patch, k) ==
  {patch[i].component.root : i \in {j \in 1..k : patch[j].op \in {"add", "replace"}}}

LEMMA BroughtMore ==
  ASSUME NEW patch, NEW k \in Nat \ {0}
  PROVE  BroughtBy(patch, k) = BroughtBy(patch, k - 1) \cup Brings(patch[k])
<1>1. 1..k = 1..k - 1 \cup {k}
  OBVIOUS
<1> DEFINE Bring(j) == patch[j].op \in {"add", "replace"}
           J == {j \in 1..k : Bring(j)}  I == {j \in 1..k - 1 : Bring(j)}
<1>2. BroughtBy(patch, k) = {patch[i].component.root : i \in J}
      /\ BroughtBy(patch, k - 1) = {patch[i].component.root : i \in I}
  BY DEF BroughtBy
<1>3. CASE patch[k].op \in {"add", "replace"}
  <2>1. J = I \cup {k} /\ Brings(patch[k]) = {patch[k].component.root}
    BY <1>1, <1>3 DEF Brings
  <2> HIDE DEF I, J
  <2> QED
    BY <1>2, <2>1
<1>4. CASE patch[k].op \notin {"add", "replace"}
  <2>1. J = I /\ Brings(patch[k]) = {}
    BY <1>1, <1>4 DEF Brings
  <2> HIDE DEF I, J
  <2> QED
    BY <1>2, <2>1
<1> QED
  BY <1>3, <1>4

LEMMA PlainRun ==
  ASSUME NEW t, Standing(t), NEW patch, PlainPatch(patch), Undone!ApplyPatch(t, patch).ok
  PROVE  /\ Undone!Introduced(patch) \subseteq Undone!Ids(Undone!ApplyPatch(t, patch).tree)
         /\ Undone!Ids(Undone!ApplyPatch(t, patch).tree) \subseteq Undone!Ids(t) \cup Undone!Introduced(patch)
<1>1. /\ IsList(patch) /\ Len(patch) \in Nat
      /\ \A k \in 1..Len(patch) :
           PlainOp(patch[k]) /\ (patch[k].op \in {"remove", "replace"} => k = 1)
  BY ListLen DEF PlainPatch
<1>2. PICK f : Upto(f, t, patch, Len(patch)) /\ Undone!ApplyPatch(t, patch) = Undone!WithinLimits(f[Len(patch)])
  BY <1>1, ApplyGoes
<1>3. \A n \in 0..Len(patch) : f[n] = IF n = 0 THEN Start(t) ELSE Undone!Step(f[n - 1], patch[n])
  BY <1>2 DEF Upto
<1> DEFINE Fine(n) == /\ IsSofar(f[n])
                      /\ f[n].ok => /\ IsTree(f[n].tree)
                                    /\ BroughtBy(patch, n) \subseteq Undone!Ids(f[n].tree)
                                    /\ Undone!Ids(f[n].tree) \subseteq Undone!Ids(t) \cup BroughtBy(patch, n)
           There == {n \in 0..Len(patch) : Fine(n)}
<1>4. 0 \in There
  <2>1. f[0] = Start(t)
    BY <1>1, <1>3
  <2>2. IsSofar(Start(t)) /\ Start(t).ok /\ Start(t).tree = t
    BY DEF Start, IsSofar
  <2>3. BroughtBy(patch, 0) = {}
    BY DEF BroughtBy
  <2>4. IsTree(t)
    BY DEF Standing
  <2>5. Fine(0)
    BY <2>1, <2>2, <2>3, <2>4
  <2> QED
    BY <1>1, <2>5
<1>5. ASSUME NEW n \in 1..Len(patch), n - 1 \in There PROVE n \in There
  <2> DEFINE was == f[n - 1]  op == patch[n]
  <2>1. f[n] = Undone!Step(was, op) /\ PlainOp(op) /\ (op.op \in {"remove", "replace"} => n = 1)
    BY <1>1, <1>3
  <2>2. Fine(n - 1)
    BY <1>5
  <2>3. IsSofar(was)
        /\ (was.ok => /\ IsTree(was.tree)
                      /\ BroughtBy(patch, n - 1) \subseteq Undone!Ids(was.tree)
                      /\ Undone!Ids(was.tree) \subseteq Undone!Ids(t) \cup BroughtBy(patch, n - 1))
    BY <2>2
  <2>4. BroughtBy(patch, n) = BroughtBy(patch, n - 1) \cup Brings(op)
    BY BroughtMore
  <2>5. n = 1 => BroughtBy(patch, n - 1) = {}
    BY DEF BroughtBy
  <2> HIDE DEF was, op
  <2>6. IsSofar(f[n]) /\ (f[n].ok <=> was.ok /\ Undone!Possible(was.tree, op))
        /\ (f[n].ok => f[n].tree = Undone!Result(was.tree, op))
    <3>1. /\ IsSofar(Undone!Step(was, op))
          /\ Undone!Step(was, op).ok <=> was.ok /\ Undone!Possible(was.tree, op)
          /\ Undone!Step(was, op).ok => Undone!Step(was, op).tree = Undone!Result(was.tree, op)
      BY <2>3, StepTaken
    <3> QED
      BY <2>1, <3>1
  <2>7. ASSUME f[n].ok
        PROVE  /\ IsTree(f[n].tree)
               /\ BroughtBy(patch, n) \subseteq Undone!Ids(f[n].tree)
               /\ Undone!Ids(f[n].tree) \subseteq Undone!Ids(t) \cup BroughtBy(patch, n)
    <3>1. was.ok /\ Undone!Possible(was.tree, op) /\ f[n].tree = Undone!Result(was.tree, op)
      BY <2>6, <2>7
    <3>2. Keeps(was.tree, op)
      BY <2>1, <2>3, <3>1, PlainKeeps
    <3>3. /\ IsTree(f[n].tree)
          /\ Undone!Ids(f[n].tree) \subseteq Undone!Ids(was.tree) \cup Brings(op)
          /\ Brings(op) \subseteq Undone!Ids(f[n].tree)
          /\ op.op \notin {"remove", "replace"} => Undone!Ids(was.tree) \subseteq Undone!Ids(f[n].tree)
      BY <3>1, <3>2 DEF Keeps
    <3>4. BroughtBy(patch, n - 1) \subseteq Undone!Ids(f[n].tree)
      BY <2>1, <2>3, <2>5, <3>1, <3>3
    <3> QED
      BY <2>3, <2>4, <3>1, <3>3, <3>4
  <2>8. Fine(n)
    BY <2>6, <2>7
  <2> QED
    BY <2>8
<1>6. \A n \in 0..Len(patch) : n \in There
  <2> HIDE DEF There
  <2> QED
    BY <1>1, <1>4, <1>5, CountingUp
<1> DEFINE end == f[Len(patch)]
<1>7. Fine(Len(patch))
  BY <1>1, <1>6
<1>8. IsSofar(end)
  BY <1>7
<1>9. end.ok /\ Undone!ApplyPatch(t, patch).tree = end.tree
  BY <1>2, <1>8, Limited
<1>10. BroughtBy(patch, Len(patch)) = Undone!Introduced(patch)
  BY DEF BroughtBy, Undone!Introduced
<1> QED
  BY <1>7, <1>9, <1>10

\* One card taken away.
LEMMA CardRemoved ==
  ASSUME NEW t, Standing(t), NEW card, Undone!ApplyPatch(t, <<Undone!RemoveOp(card)>>).ok
  PROVE  /\ IsPatch(<<Undone!RemoveOp(card)>>) /\ card \in Undone!Ids(t)
         /\ card \notin Undone!Ids(Undone!ApplyPatch(t, <<Undone!RemoveOp(card)>>).tree)
         /\ Undone!Ids(Undone!ApplyPatch(t, <<Undone!RemoveOp(card)>>).tree) \subseteq Undone!Ids(t)
<1> DEFINE op == Undone!RemoveOp(card)
           patch == <<op>>
<1>1. patch \in Seq({op}) /\ Len(patch) = 1 /\ patch[1] = op
  OBVIOUS
<1>2. IsList(patch) /\ IsOp(op)
  BY <1>1 DEF IsList, IsOp, IsRemove
<1>3. IsPatch(patch)
  BY <1>1, <1>2 DEF IsPatch
<1> HIDE DEF patch
<1>4. PICK f : Upto(f, t, patch, Len(patch)) /\ Undone!ApplyPatch(t, patch) = Undone!WithinLimits(f[Len(patch)])
  BY <1>2, ApplyGoes
<1>5. f[0] = Start(t) /\ f[1] = Undone!Step(f[0], op)
  BY <1>1, <1>4 DEF Upto
<1>6. IsSofar(Start(t)) /\ Start(t).tree = t
  BY DEF Start, IsSofar
<1>7. IsSofar(f[1]) /\ (f[1].ok => Undone!Possible(t, op) /\ f[1].tree = Undone!Result(t, op))
  <2>1. /\ IsSofar(Undone!Step(Start(t), op))
        /\ Undone!Step(Start(t), op).ok <=> Start(t).ok /\ Undone!Possible(Start(t).tree, op)
        /\ Undone!Step(Start(t), op).ok => Undone!Step(Start(t), op).tree = Undone!Result(Start(t).tree, op)
    BY <1>6, StepTaken
  <2> QED
    BY <1>5, <1>6, <2>1
<1>8. f[1].ok /\ Undone!ApplyPatch(t, patch).tree = f[1].tree
  BY <1>1, <1>4, <1>7, Limited DEF patch
<1>9. card \in Undone!Ids(t) /\ card # t.root /\ f[1].tree = Undone!Cut(t, card)
  BY <1>7, <1>8, OfRemove
<1>10. Undone!Ids(Undone!Cut(t, card)) = Without(t, card) /\ card \in Undone!Below(t, card)
  BY <1>9, CutFields, BelowFacts DEF Standing
<1> QED
  BY <1>3, <1>8, <1>9, <1>10 DEF Without, patch

\* What the guard lets through of one patch, operation by operation.
Passes(op, how) ==
  /\ op.op \in Undone!StructuralOps => how.band = "enough" \/ how.critical
  /\ op.op \in {"remove", "replace"} => op.target # how.typing
Sieved(f, patch, how, k) ==
  f = [n \in 0..k |-> IF n = 0 THEN <<>>
                      ELSE IF Passes(patch[n], how) THEN Append(f[n - 1], patch[n])
                           ELSE f[n - 1]]

LEMMA SievedExists ==
  ASSUME NEW patch, NEW how, NEW k \in Nat
  PROVE  \E f : Sieved(f, patch, how, k)
<1> DEFINE Missing == {n \in Nat : ~\E f : Sieved(f, patch, how, n)}
           One1(g, n) == IF Passes(patch[n], how) THEN Append(g, patch[n]) ELSE g
<1>1. SUFFICES ASSUME Missing # {} PROVE FALSE
  OBVIOUS
<1>2. PICK n \in Missing : \A m \in Missing : n <= m
  <2>1. Missing \in SUBSET Nat
    OBVIOUS
  <2> QED
    BY <1>1, <2>1, LeastNumber
<1>3. Sieved([m \in 0..0 |-> <<>>], patch, how, 0)
  BY DEF Sieved
<1>4. n \in Nat \ {0}
  BY <1>2, <1>3
<1>5. PICK f : Sieved(f, patch, how, n - 1)
  <2>1. n - 1 \in Nat /\ ~(n <= n - 1)
    BY <1>4
  <2> QED
    BY <1>2, <2>1
<1>6. \A l \in 0..n - 1 : f[l] = IF l = 0 THEN <<>> ELSE One1(f[l - 1], l)
  BY <1>5 DEF Sieved
<1> DEFINE g == [m \in 0..n |-> IF m = n THEN One1(f[n - 1], n) ELSE f[m]]
<1> HIDE DEF One1
<1>7. \A m \in 0..n : g[m] = IF m = 0 THEN <<>> ELSE One1(g[m - 1], m)
  <2> SUFFICES ASSUME NEW m \in 0..n
               PROVE  g[m] = IF m = 0 THEN <<>> ELSE One1(g[m - 1], m)
    OBVIOUS
  <2>2. CASE m = n
    <3>1. g[m] = One1(f[n - 1], n) /\ n - 1 \in 0..n /\ n - 1 # n
      BY <1>4, <2>2
    <3>2. g[n - 1] = f[n - 1]
      BY <3>1
    <3> QED
      BY <1>4, <2>2, <3>1, <3>2
  <2>3. CASE m # n
    <3>1. m \in 0..n - 1 /\ g[m] = f[m]
      BY <1>4, <2>3
    <3>2. CASE m = 0
      BY <1>6, <3>1, <3>2
    <3>3. CASE m # 0
      <4>1. m - 1 \in 0..n /\ m - 1 # n
        BY <1>4, <3>1, <3>3
      <4>2. g[m - 1] = f[m - 1]
        BY <4>1
      <4> QED
        BY <1>6, <3>1, <3>3, <4>2
    <3> QED
      BY <3>2, <3>3
  <2> QED
    BY <2>2, <2>3
<1>8. Sieved(g, patch, how, n)
  <2>1. g = [m \in 0..n |-> g[m]]
    OBVIOUS
  <2> HIDE DEF g
  <2>2. \A m \in 0..n : g[m] = IF m = 0 THEN <<>>
                      ELSE IF Passes(patch[m], how) THEN Append(g[m - 1], patch[m])
                           ELSE g[m - 1]
    BY <1>7 DEF One1
  <2> QED
    BY <2>1, <2>2 DEF Sieved
<1> QED
  BY <1>2, <1>8

LEMMA GuardSieves ==
  ASSUME NEW patch, IsList(patch), NEW how, NEW cooling
  PROVE  \/ Undone!Guarded(patch, how, cooling) = <<>>
         \/ \E f : Sieved(f, patch, how, Len(patch)) /\ Undone!Guarded(patch, how, cooling) = f[Len(patch)]
<1> DEFINE Eq(f) == f = [n \in 0..Len(patch) |->
                           IF n = 0 THEN <<>>
                           ELSE IF /\ patch[n].op \in Undone!StructuralOps => how.band = "enough" \/ how.critical
                                   /\ patch[n].op \in {"remove", "replace"} => patch[n].target # how.typing
                                THEN Append(f[n - 1], patch[n]) ELSE f[n - 1]]
           kept == CHOOSE f : Eq(f)
<1>1. \E f : Eq(f)
  <2>1. Len(patch) \in Nat
    BY ListLen
  <2>2. PICK f : Sieved(f, patch, how, Len(patch))
    BY <2>1, SievedExists
  <2>3. Eq(f)
    BY <2>2, Zenon DEF Sieved, Passes
  <2> HIDE DEF Eq
  <2> QED
    BY <2>3
<1>2. Eq(kept)
  BY <1>1, Zenon
<1>3. Undone!Guarded(patch, how, cooling) = <<>> \/ Undone!Guarded(patch, how, cooling) = kept[Len(patch)]
  <2> DEFINE held == \/ how.band = "below_min" /\ ~how.critical
                     \/ cooling /\ ~how.critical
  <2>1. Undone!Guarded(patch, how, cooling) = IF held THEN <<>> ELSE kept[Len(patch)]
    BY Zenon DEF Undone!Guarded
  <2> HIDE DEF held, kept
  <2> QED
    BY <2>1
<1>4. Sieved(kept, patch, how, Len(patch))
  BY <1>2, Zenon DEF Sieved, Passes
<1> HIDE DEF kept
<1> QED
  BY <1>3, <1>4

LEMMA NoPatch == PlainPatch(<<>>)
<1>1. Len(<<>>) = 0 /\ <<>> \in Seq({}) /\ 1..0 = {}
  BY EmptySeq
<1> QED
  BY <1>1 DEF PlainPatch, IsList

\* The guard keeps the order of a plan.
LEMMA GuardedIsPlain ==
  ASSUME NEW patch, PlainPatch(patch), NEW how, NEW cooling
  PROVE  PlainPatch(Undone!Guarded(patch, how, cooling))
<1>1. /\ IsList(patch) /\ Len(patch) \in Nat
      /\ \A k \in 1..Len(patch) :
           PlainOp(patch[k]) /\ (patch[k].op \in {"remove", "replace"} => k = 1)
  BY ListLen DEF PlainPatch
<1>2. CASE Undone!Guarded(patch, how, cooling) = <<>>
  BY <1>2, NoPatch
<1>3. ASSUME NEW f, Sieved(f, patch, how, Len(patch)), Undone!Guarded(patch, how, cooling) = f[Len(patch)]
      PROVE  PlainPatch(Undone!Guarded(patch, how, cooling))
  <2>1. \A n \in 0..Len(patch) :
          f[n] = IF n = 0 THEN <<>>
                 ELSE IF Passes(patch[n], how) THEN Append(f[n - 1], patch[n]) ELSE f[n - 1]
    BY <1>3 DEF Sieved
  <2> DEFINE There == {n \in 0..Len(patch) : PlainPatch(f[n]) /\ (n = 0 => f[n] = <<>>)}
  <2>2. 0 \in There
    BY <1>1, <2>1, NoPatch
  <2>3. ASSUME NEW n \in 1..Len(patch), n - 1 \in There PROVE n \in There
    <3> DEFINE g == f[n - 1]
    <3>1. PlainPatch(g) /\ (n = 1 => g = <<>>)
      BY <2>3
    <3>2. f[n] = IF Passes(patch[n], how) THEN Append(g, patch[n]) ELSE g
      BY <2>1
    <3> HIDE DEF g
    <3>3. /\ IsList(Append(g, patch[n])) /\ Len(Append(g, patch[n])) = Len(g) + 1
          /\ \A k \in 1..Len(g) : Append(g, patch[n])[k] = g[k]
          /\ Append(g, patch[n])[Len(g) + 1] = patch[n]
      BY <3>1, Appended DEF PlainPatch
    <3> DEFINE h == Append(g, patch[n])
    <3>4. Len(g) \in Nat
      BY <3>1, ListLen DEF PlainPatch
    <3> HIDE DEF h
    <3>5. ASSUME NEW k \in 1..Len(h)
          PROVE  PlainOp(h[k]) /\ (h[k].op \in {"remove", "replace"} => k = 1)
      <4>1. CASE k = Len(g) + 1
        <5>1. h[k] = patch[n]
          BY <3>3, <4>1 DEF h
        <5>2. n = 1 => k = 1
          BY <3>1, <4>1, EmptySeq
        <5> QED
          BY <1>1, <5>1, <5>2
      <4>2. CASE k # Len(g) + 1
        <5>1. k \in 1..Len(g) /\ h[k] = g[k]
          BY <3>3, <3>4, <4>2 DEF h
        <5> QED
          BY <3>1, <5>1 DEF PlainPatch
      <4> QED
        BY <4>1, <4>2
    <3>6. PlainPatch(h)
      BY <3>3, <3>5 DEF PlainPatch, h
    <3>7. PlainPatch(f[n])
      BY <3>1, <3>2, <3>6 DEF h
    <3> QED
      BY <3>7
  <2>4. \A n \in 0..Len(patch) : n \in There
    <3> HIDE DEF There
    <3> QED
      BY <1>1, <2>2, <2>3, CountingUp
  <2>5. PlainPatch(f[Len(patch)])
    BY <1>1, <2>4
  <2> QED
    BY <1>3, <2>5
<1> QED
  BY <1>1, <1>2, <1>3, GuardSieves

LEMMA PlanIsPlain ==
  ASSUME NEW tree, NEW intent, NEW variant, <<intent, variant>> \in Undone!Asks
  PROVE  PlainPatch(Undone!PlanMorph(tree, intent, variant))
<1>1. ASSUME NEW op1, NEW op2, NEW op3, PlainOp(op1), PlainOp(op2), PlainOp(op3),
             op2.op \notin {"remove", "replace"}, op3.op \notin {"remove", "replace"}
      PROVE  PlainPatch(<<op1>>) /\ PlainPatch(<<op1, op2>>) /\ PlainPatch(<<op1, op2, op3>>)
  <2> DEFINE S == {op1, op2, op3}
  <2>1. <<op1>> \in Seq(S) /\ Len(<<op1>>) = 1 /\ <<op1>>[1] = op1
    OBVIOUS
  <2>2. /\ <<op1, op2>> \in Seq(S) /\ Len(<<op1, op2>>) = 2
        /\ <<op1, op2>>[1] = op1 /\ <<op1, op2>>[2] = op2
    OBVIOUS
  <2>3. /\ <<op1, op2, op3>> \in Seq(S) /\ Len(<<op1, op2, op3>>) = 3
        /\ <<op1, op2, op3>>[1] = op1 /\ <<op1, op2, op3>>[2] = op2
        /\ <<op1, op2, op3>>[3] = op3
    OBVIOUS
  <2>4. 1..1 = {1} /\ 1..2 = {1, 2} /\ 1..3 = {1, 2, 3}
    OBVIOUS
  <2> HIDE DEF S
  <2>5. PlainPatch(<<op1>>)
    <3> DEFINE x == <<op1>>
    <3>1. x \in Seq(S) /\ 1..Len(x) = {1} /\ x[1] = op1
      BY <2>1, <2>4
    <3> HIDE DEF x
    <3>2. PlainPatch(x)
      BY <1>1, <3>1 DEF PlainPatch, IsList
    <3> QED
      BY <3>2 DEF x
  <2>6. PlainPatch(<<op1, op2>>)
    <3> DEFINE x == <<op1, op2>>
    <3>1. x \in Seq(S) /\ 1..Len(x) = {1, 2} /\ x[1] = op1 /\ x[2] = op2
      BY <2>2, <2>4
    <3> HIDE DEF x
    <3>2. PlainPatch(x)
      BY <1>1, <3>1 DEF PlainPatch, IsList
    <3> QED
      BY <3>2 DEF x
  <2>7. PlainPatch(<<op1, op2, op3>>)
    <3> DEFINE x == <<op1, op2, op3>>
    <3>1. x \in Seq(S) /\ 1..Len(x) = {1, 2, 3} /\ x[1] = op1 /\ x[2] = op2 /\ x[3] = op3
      BY <2>3, <2>4
    <3> HIDE DEF x
    <3>2. PlainPatch(x)
      BY <1>1, <3>1 DEF PlainPatch, IsList
    <3> QED
      BY <3>2 DEF x
  <2> QED
    BY <2>5, <2>6, <2>7
<1>2. ASSUME NEW n, NEW name \in Undone!SignalOps
      PROVE  PlainOp(Undone!SignalOp(name, n)) /\ Undone!SignalOp(name, n).op \notin {"remove", "replace"}
  BY DEF PlainOp, IsSignal, Undone!SignalOp, Undone!SignalOps
<1>3. ASSUME NEW n, NEW x, NEW p, NEW i \in Nat \ {0}
      PROVE  PlainOp(Undone!AddOp(p, i, Undone!Leaf(n, x))) /\ Undone!AddOp(p, i, Undone!Leaf(n, x)).op = "add"
  BY DEF PlainOp, LeafIn, Undone!AddOp
<1>4. ASSUME NEW n, NEW x
      PROVE  PlainOp(Undone!RemoveOp(n)) /\ PlainOp(Undone!ReplaceOp(n, Undone!Leaf(n, x)))
  BY DEF PlainOp, IsRemove, LeafOver
<1>5. {"collapse", "expand", "highlight"} \subseteq Undone!SignalOps
  BY DEF Undone!SignalOps
<1> DEFINE collapse == Undone!SignalOp("collapse", "files")
           expand == Undone!SignalOp("expand", "files")
           lit == Undone!SignalOp("highlight", "incident")
           lit2 == Undone!SignalOp("highlight", "context")
           add == Undone!AddOp("workspace", 3, Undone!Leaf("incident", variant))
           add2 == Undone!AddOp("workspace", 2, Undone!Leaf("context", variant))
           over == Undone!ReplaceOp("context", Undone!Leaf("context", variant))
<1>6. /\ PlainOp(collapse) /\ PlainOp(expand) /\ PlainOp(lit) /\ PlainOp(lit2)
      /\ expand.op \notin {"remove", "replace"} /\ lit.op \notin {"remove", "replace"}
      /\ lit2.op \notin {"remove", "replace"}
  BY <1>2, <1>5
<1>7. PlainOp(add) /\ PlainOp(add2) /\ add.op \notin {"remove", "replace"}
  BY <1>3
<1>8. PlainOp(over) /\ PlainOp(Undone!RemoveOp("incident"))
  BY <1>4
<1> HIDE DEF collapse, expand, lit, lit2, add, add2, over
<1>9. PlainPatch(<<collapse, add, lit>>) /\ PlainPatch(<<add2, lit2>>)
  BY <1>1, <1>6, <1>7
<1>10. PlainPatch(<<Undone!RemoveOp("incident"), expand>>)
  BY <1>1, <1>6, <1>8
<1>11. PlainPatch(<<over>>)
  BY <1>1, <1>6, <1>8
<1>12. intent \in {"augment", "surface_incident", "restore_normal"}
  BY DEF Undone!Asks
<1>13. CASE intent = "surface_incident"
  <2>1. Undone!PlanMorph(tree, intent, variant) \in {<<>>, <<collapse, add, lit>>}
    BY <1>13 DEF Undone!PlanMorph, collapse, add, lit
  <2> QED
    BY <1>9, <2>1, NoPatch
<1>14. CASE intent = "restore_normal"
  <2>1. Undone!PlanMorph(tree, intent, variant) \in {<<>>, <<Undone!RemoveOp("incident"), expand>>}
    BY <1>14 DEF Undone!PlanMorph, expand
  <2> QED
    BY <1>10, <2>1, NoPatch
<1>15. CASE intent = "augment"
  <2>1. Undone!PlanMorph(tree, intent, variant) \in {<<>>, <<add2, lit2>>, <<over>>}
    BY <1>15 DEF Undone!PlanMorph, add2, lit2, over
  <2> QED
    BY <1>9, <1>11, <2>1, NoPatch
<1> QED
  BY <1>12, <1>13, <1>14, <1>15

-----------------------------------------------------------------------------
(* The body a session starts with *)

LEMMA DevBodyStands == Standing(Undone!DevBody)
<1> DEFINE t == Undone!DevBody
           all == {"workspace", "topbar", "main", "files", "devstatus"}
<1>1. /\ t = [root |-> t.root, kids |-> t.kids, look |-> t.look]
      /\ t.root = "workspace" /\ Undone!Ids(t) = all
      /\ t.look = [m \in all |-> t.look[m]]
      /\ t.kids = [n \in all |->
                    CASE n = "workspace" -> <<"topbar", "main", "devstatus">>
                      [] n = "main" -> <<"files">>
                      [] OTHER -> <<>>]
  BY DEF Undone!DevBody, Undone!Ids
<1> HIDE DEF t
<1>2. /\ t.kids["workspace"] = <<"topbar", "main", "devstatus">>
      /\ t.kids["main"] = <<"files">>
      /\ \A m \in {"topbar", "files", "devstatus"} : t.kids[m] = <<>>
  BY <1>1
<1> DEFINE w == t.kids["workspace"]  k == t.kids["main"]
<1>3. /\ w \in Seq(all) /\ 1..Len(w) = {1, 2, 3}
      /\ w[1] = "topbar" /\ w[2] = "main" /\ w[3] = "devstatus"
  <2>1. 1..3 = {1, 2, 3}
    OBVIOUS
  <2> QED
    BY <1>2, <2>1
<1>4. k \in Seq(all) /\ 1..Len(k) = {1} /\ k[1] = "files"
  <2>1. 1..1 = {1}
    OBVIOUS
  <2> QED
    BY <1>2, <2>1
<1>5. \A m \in {"topbar", "files", "devstatus"} : t.kids[m] \in Seq(all) /\ 1..Len(t.kids[m]) = {}
  <2>1. 1..0 = {} /\ Len(<<>>) = 0 /\ <<>> \in Seq(all)
    BY EmptySeq
  <2> QED
    BY <1>2, <2>1
<1>6. t.kids \in [all -> Seq(all)]
  <2>1. \A m \in all : t.kids[m] \in Seq(all)
    BY <1>3, <1>4, <1>5
  <2> QED
    BY <1>1, <2>1
<1> HIDE DEF w, k
<1>7. \A p \in all : \A i \in 1..Len(t.kids[p]) :
        \/ p = "workspace" /\ i = 1 /\ t.kids[p][i] = "topbar"
        \/ p = "workspace" /\ i = 2 /\ t.kids[p][i] = "main"
        \/ p = "workspace" /\ i = 3 /\ t.kids[p][i] = "devstatus"
        \/ p = "main" /\ i = 1 /\ t.kids[p][i] = "files"
  BY <1>3, <1>4, <1>5 DEF w, k
<1>8. Shaped(t)
  BY <1>1, <1>6 DEF Shaped
<1>9. PlacedOnce(t)
  BY <1>1, <1>7 DEF PlacedOnce
<1>10. Founded(t)
  <2> SUFFICES ASSUME NEW ids \in SUBSET all, ids # {}
               PROVE  \E x \in ids : \A i \in 1..Len(t.kids[x]) : t.kids[x][i] \notin ids
    BY <1>1 DEF Founded
  <2>1. CASE \E x \in {"topbar", "files", "devstatus"} : x \in ids
    BY <1>5, <2>1
  <2>2. CASE ~(\E x \in {"topbar", "files", "devstatus"} : x \in ids)
    <3>1. ids \subseteq {"workspace", "main"} /\ {"topbar", "files", "devstatus"} \cap ids = {}
      BY <2>2
    <3>2. CASE "main" \in ids
      BY <1>7, <3>1, <3>2
    <3>3. CASE "main" \notin ids
      <4>1. "workspace" \in ids
        BY <3>1, <3>3
      <4> QED
        BY <1>7, <3>1, <3>3, <4>1
    <3> QED
      BY <3>2, <3>3
  <2> QED
    BY <2>1, <2>2
<1>11. Rooted(t)
  <2> SUFFICES ASSUME NEW ids \in SUBSET all, "workspace" \in ids, Closed(t, ids)
               PROVE  ids = all
    BY <1>1 DEF Rooted
  <2>1. \A m \in ids : \A i \in 1..Len(t.kids[m]) : t.kids[m][i] \in ids
    BY DEF Closed
  <2>2. w[1] \in ids /\ w[2] \in ids /\ w[3] \in ids
    BY <1>3, <2>1 DEF w
  <2>3. "topbar" \in ids /\ "main" \in ids /\ "devstatus" \in ids
    BY <1>3, <2>2
  <2>4. k[1] \in ids
    BY <1>4, <2>1, <2>3 DEF k
  <2> QED
    BY <1>4, <2>3, <2>4
<1>12. Cardinality(Undone!Ids(t)) <= MaxNodes
  <2>1. IsFiniteSet({}) /\ Cardinality({}) = 0
    BY FS_EmptySet
  <2>2. IsFiniteSet({"workspace"}) /\ Cardinality({"workspace"}) = 1
    BY FS_Singleton
  <2>3. IsFiniteSet({"workspace"} \cup {"topbar"}) /\ Cardinality({"workspace"} \cup {"topbar"}) = 2
    BY <2>2, FS_AddElement
  <2> DEFINE A == {"workspace"} \cup {"topbar"}
  <2>4. "main" \notin A /\ "files" \notin A \cup {"main"}
        /\ "devstatus" \notin (A \cup {"main"}) \cup {"files"}
        /\ all = ((A \cup {"main"}) \cup {"files"}) \cup {"devstatus"}
    OBVIOUS
  <2> HIDE DEF A
  <2>5. IsFiniteSet(A \cup {"main"}) /\ Cardinality(A \cup {"main"}) = 3
    BY <2>3, <2>4, FS_AddElement DEF A
  <2> DEFINE B == A \cup {"main"}
  <2> HIDE DEF B
  <2>6. IsFiniteSet(B \cup {"files"}) /\ Cardinality(B \cup {"files"}) = 4
    BY <2>4, <2>5, FS_AddElement DEF B
  <2> DEFINE C == B \cup {"files"}
  <2> HIDE DEF C
  <2>7. Cardinality(C \cup {"devstatus"}) = 5
    BY <2>4, <2>6, FS_AddElement DEF B, C
  <2>8. MaxNodes \in Nat /\ MaxNodes >= 5
    BY Limits DEF Undone!LimitsAssumption
  <2>9. all = C \cup {"devstatus"}
    BY <2>4 DEF B, C
  <2>10. Undone!Ids(t) = C \cup {"devstatus"}
    BY <1>1, <2>9
  <2>11. Cardinality(Undone!Ids(t)) = 5
    BY <2>7, <2>10
  <2> QED
    BY <2>8, <2>11
<1> QED
  BY <1>8, <1>9, <1>10, <1>11, <1>12 DEF Standing, IsTree, t

-----------------------------------------------------------------------------
(* The session *)

Formed(t) ==
  t = [body |-> t.body, history |-> t.history, meta |-> t.meta, redo |-> t.redo,
       weights |-> t.weights, cooling |-> t.cooling, past |-> t.past, ahead |-> t.ahead]

\* What holds of a session between any two of its steps.
SessionOK(t) ==
  /\ Formed(t)
  /\ Standing(t.body)
  /\ Undoable(t.history, t.meta, t.past, t.body)
  /\ Redoable(t.redo, t.ahead, t.body)
  /\ Taught(t.weights)
  /\ Covered(t.weights, t.meta, t.redo)

LEMMA FreshOK == SessionOK(Undone!Fresh)
<1> DEFINE t == Undone!Fresh
<1>1. /\ Formed(t) /\ t.body = Undone!DevBody /\ t.history = <<>> /\ t.meta = <<>> /\ t.past = <<>>
      /\ t.redo = <<>> /\ t.ahead = <<>> /\ t.weights = [l \in Undone!Lessons |-> 0]
  BY DEF Undone!Fresh, Formed
<1> HIDE DEF t
<1>2. Standing(t.body)
  BY <1>1, DevBodyStands
<1>3. Undoable(t.history, t.meta, t.past, t.body) /\ Redoable(t.redo, t.ahead, t.body)
  BY <1>1, NoStack
<1>4. Taught(t.weights)
  <2>1. {"dismiss"} \X Undone!Cards \subseteq Undone!Lessons
    BY DEF Undone!Lessons
  <2>2. t.weights \in [Undone!Lessons -> Nat]
    BY <1>1
  <2>3. \A l \in {"dismiss"} \X Undone!Cards : t.weights[l] = 0
    BY <1>1, <2>1
  <2> QED
    BY <2>2, <2>3 DEF Taught
<1>5. Covered(t.weights, t.meta, t.redo)
  <2>1. \A l \in Undone!Lessons : t.weights[l] >= 0 + 0
    BY <1>1
  <2> QED
    BY <1>1, <2>1, NothingDue DEF Covered
<1> QED
  BY <1>1, <1>2, <1>3, <1>4, <1>5 DEF SessionOK, t

LEMMA RefundOffered ==
  ASSUME NEW was, NEW before, NEW after, Says(was, before, after)
  PROVE  /\ Undone!Relearnt(was) = was.refund /\ was.refund \in Undone!Asks \cup {None}
         /\ was.intent # "dismiss" => Undone!LessonOf(was) \in Undone!Asks
BY DEF Says, Undone!Relearnt

\* A step forward as the session records it.
Advanced(r, t, done, was) ==
  /\ Formed(r)
  /\ r.body = done.tree
  /\ r.history = Undone!Push(t.history, done.inverse, HistoryLimit)
  /\ r.meta = Undone!MetaBeside(Undone!Push(t.history, done.inverse, HistoryLimit), Append(t.meta, was))
  /\ r.past = Undone!Push(t.past, t.body, HistoryLimit)

\* What is still due of a lesson once nothing of the redo stack is.
Slack(weights, redo, l) == weights[l] - Cardinality(Repeats(redo, l))

LEMMA RepeatsCounted ==
  ASSUME NEW redo, NEW ahead, NEW now, Redoable(redo, ahead, now), NEW l
  PROVE  Cardinality(Repeats(redo, l)) \in Nat
BY CountsAreFinite DEF Redoable

LEMMA GoesOn ==
  ASSUME NEW t, SessionOK(t), NEW patch, IsPatch(patch),
         NEW done, done = Undone!ApplyPatch(t.body, patch), done.ok,
         NEW was, Says(was, t.body, done.tree),
         NEW r, Advanced(r, t, done, was),
         Redoable(r.redo, r.ahead, r.body), Taught(r.weights),
         \A l \in Undone!Lessons :
           Slack(r.weights, r.redo, l) >= Slack(t.weights, t.redo, l) + One(l, was.refund)
  PROVE  SessionOK(r)
<1>1. Standing(t.body) /\ Undoable(t.history, t.meta, t.past, t.body)
      /\ Redoable(t.redo, t.ahead, t.body) /\ Taught(t.weights)
      /\ Covered(t.weights, t.meta, t.redo)
  BY DEF SessionOK
<1>2. PatchUndone(t.body, done)
  BY <1>1, InverseRestores
<1>3. UndoLink(done.inverse, was, t.body, done.tree)
  BY <1>1, <1>2 DEF PatchUndone, UndoLink, Undone!BringsBack
<1>4. Undoable(Undone!Push(t.history, done.inverse, HistoryLimit),
               Undone!MetaBeside(Undone!Push(t.history, done.inverse, HistoryLimit), Append(t.meta, was)),
               Undone!Push(t.past, t.body, HistoryLimit), done.tree)
  BY <1>1, <1>3, UndoPushed
<1>5. Undoable(r.history, r.meta, r.past, r.body)
  BY <1>4 DEF Advanced
<1>6. Formed(r) /\ Standing(r.body)
  BY <1>2 DEF Advanced, PatchUndone
<1>7. HistoryLimit \in Nat \ {0} /\ IsList(t.history) /\ IsList(t.meta)
      /\ Len(t.meta) = Len(t.history) /\ Len(t.history) <= HistoryLimit
  BY <1>1, Limits DEF Undone!LimitsAssumption, Undoable
<1>8. r.meta = Undone!Push(t.meta, was, HistoryLimit)
  BY <1>7, BesideIsPush DEF Advanced
<1>9. Covered(r.weights, r.meta, r.redo)
  <2> SUFFICES ASSUME NEW l \in Undone!Lessons
               PROVE  r.weights[l] >= Cardinality(Refunds(r.meta, l)) + Cardinality(Repeats(r.redo, l))
    BY DEF Covered
  <2> DEFINE a == Cardinality(Refunds(t.meta, l))  b == Cardinality(Repeats(t.redo, l))
             c == Cardinality(Refunds(r.meta, l))  d == Cardinality(Repeats(r.redo, l))
             o == One(l, was.refund)  v == t.weights[l]  w == r.weights[l]
  <2>1. a \in Nat /\ c \in Nat
    BY <1>1, <1>5, CountsAreFinite DEF Undoable
  <2>2. b \in Nat /\ d \in Nat
    BY <1>1, RepeatsCounted
  <2>3. c <= a + o
    BY <1>7, <1>8, RefundsPushed
  <2>4. v >= a + b
    BY <1>1 DEF Covered
  <2>5. w - d >= v - b + o
    BY DEF Slack
  <2>6. v \in Nat /\ w \in Nat /\ o \in Nat
    BY <1>1 DEF Taught, One
  <2> HIDE DEF a, b, c, d, o, v, w
  <2>7. w >= c + d
    BY <2>1, <2>2, <2>3, <2>4, <2>5, <2>6
  <2> QED
    BY <2>7 DEF c, d, w
<1> QED
  BY <1>5, <1>6, <1>9 DEF SessionOK

LEMMA RecordedFields ==
  ASSUME NEW t, Formed(t), NEW done, NEW was
  PROVE  LET r == Undone!Recorded(t, done, was)
         IN  /\ Advanced(r, t, done, was)
             /\ r.redo = t.redo /\ r.ahead = t.ahead /\ r.weights = t.weights
<1> DEFINE r == Undone!Recorded(t, done, was)
<1>1. r = [t EXCEPT !.body = done.tree,
            !.history = Undone!Push(t.history, done.inverse, HistoryLimit),
            !.meta = Undone!MetaBeside(Undone!Push(t.history, done.inverse, HistoryLimit), Append(t.meta, was)),
            !.past = Undone!Push(t.past, t.body, HistoryLimit)]
  BY DEF Undone!Recorded
<1> HIDE DEF r
<1>2. t = [body |-> t.body, history |-> t.history, meta |-> t.meta, redo |-> t.redo,
           weights |-> t.weights, cooling |-> t.cooling, past |-> t.past, ahead |-> t.ahead]
  BY DEF Formed
<1>3. r = [body |-> done.tree, history |-> Undone!Push(t.history, done.inverse, HistoryLimit),
           meta |-> Undone!MetaBeside(Undone!Push(t.history, done.inverse, HistoryLimit), Append(t.meta, was)),
           redo |-> t.redo, weights |-> t.weights, cooling |-> t.cooling,
           past |-> Undone!Push(t.past, t.body, HistoryLimit), ahead |-> t.ahead]
  BY ONLY <1>1, <1>2
<1> QED
  BY <1>3 DEF Advanced, Formed, r

\* A step that clears the redo stack.
Cleared(t, done, was, taught, cooling) ==
  [Undone!RedoCleared(Undone!Recorded(t, done, was)) EXCEPT
     !.weights = Undone!Reinforced(t.weights, taught, 1), !.cooling = cooling]

LEMMA ClearedAdvances ==
  ASSUME NEW t, Formed(t), NEW done, NEW was, NEW taught, NEW cooling
  PROVE  /\ Advanced(Cleared(t, done, was, taught, cooling), t, done, was)
         /\ Cleared(t, done, was, taught, cooling).redo = <<>>
         /\ Cleared(t, done, was, taught, cooling).ahead = <<>>
         /\ Cleared(t, done, was, taught, cooling).weights = Undone!Reinforced(t.weights, taught, 1)
<1> DEFINE q == Undone!Recorded(t, done, was)
           r == Cleared(t, done, was, taught, cooling)
<1>1. Advanced(q, t, done, was)
  BY RecordedFields
<1> HIDE DEF q, r
<1>2. q = [body |-> q.body, history |-> q.history, meta |-> q.meta, redo |-> q.redo,
           weights |-> q.weights, cooling |-> q.cooling, past |-> q.past, ahead |-> q.ahead]
  BY <1>1 DEF Advanced, Formed
<1>3. r = [[q EXCEPT !.redo = <<>>, !.ahead = <<>>] EXCEPT
             !.weights = Undone!Reinforced(t.weights, taught, 1), !.cooling = cooling]
  BY DEF Undone!RedoCleared, Cleared, q, r
<1>4. r = [body |-> q.body, history |-> q.history, meta |-> q.meta, redo |-> <<>>,
           weights |-> Undone!Reinforced(t.weights, taught, 1), cooling |-> cooling,
           past |-> q.past, ahead |-> <<>>]
  BY ONLY <1>2, <1>3
<1>5. /\ r.body = q.body /\ r.history = q.history /\ r.meta = q.meta /\ r.past = q.past
      /\ r.redo = <<>> /\ r.ahead = <<>> /\ r.weights = Undone!Reinforced(t.weights, taught, 1)
      /\ r.cooling = cooling
  BY ONLY <1>4
<1>6. Formed(r)
  BY ONLY <1>4, <1>5 DEF Formed
<1> QED
  BY <1>1, <1>5, <1>6 DEF Advanced, r

\* Any step that clears the redo stack and teaches what it may be asked to hand back.
LEMMA ClearedOK ==
  ASSUME NEW t, SessionOK(t), NEW patch, IsPatch(patch),
         NEW done, done = Undone!ApplyPatch(t.body, patch), done.ok,
         NEW was, Says(was, t.body, done.tree),
         NEW r, Advanced(r, t, done, was), r.redo = <<>>, r.ahead = <<>>,
         r.weights = Undone!Reinforced(t.weights, was.refund, 1)
  PROVE  SessionOK(r)
<1>1. Redoable(r.redo, r.ahead, r.body)
  BY NoStack
<1>2. was.refund \in Undone!Asks \cup {None}
  BY RefundOffered
<1>3. Taught(t.weights) /\ Redoable(t.redo, t.ahead, t.body)
  BY DEF SessionOK
<1>4. Taught(r.weights) /\ \A l \in Undone!Lessons : r.weights[l] = t.weights[l] + One(l, was.refund)
  BY <1>2, <1>3, TaughtMore
<1>5. ASSUME NEW l \in Undone!Lessons
      PROVE  Slack(r.weights, r.redo, l) >= Slack(t.weights, t.redo, l) + One(l, was.refund)
  <2> DEFINE b == Cardinality(Repeats(t.redo, l))
  <2>1. b \in Nat
    BY <1>3, RepeatsCounted
  <2>2. Cardinality(Repeats(r.redo, l)) = 0
    BY NothingDue
  <2>3. t.weights[l] \in Nat /\ One(l, was.refund) \in Nat /\ r.weights[l] \in Nat
    BY <1>3, <1>4 DEF Taught, One
  <2> HIDE DEF b
  <2>4. r.weights[l] = t.weights[l] + One(l, was.refund)
    BY <1>4
  <2>5. r.weights[l] - 0 >= t.weights[l] - b + One(l, was.refund)
    BY <2>1, <2>3, <2>4
  <2> QED
    BY <2>2, <2>5 DEF Slack, b
<1> QED
  BY <1>1, <1>4, <1>5, GoesOn

-----------------------------------------------------------------------------
(* Undo *)

\* The newest of some entries of a stack.
LEMMA GreatestIsThere ==
  ASSUME NEW n \in Nat, NEW S, S \subseteq 1..n, S # {}
  PROVE  Undone!Max(S) \in S /\ \A y \in S : Undone!Max(S) >= y
<1> DEFINE T == {j \in 0..n : n - j \in S}
<1>1. T \in SUBSET Nat /\ T # {}
  <2>1. PICK x \in S : TRUE
    OBVIOUS
  <2>2. n - x \in 0..n /\ n - (n - x) = x
    OBVIOUS
  <2>3. n - x \in T
    BY <2>2
  <2>4. T \in SUBSET Nat
    OBVIOUS
  <2> HIDE DEF T
  <2> QED
    BY <2>3, <2>4
<1>2. PICK j \in T : \A k \in T : j <= k
  <2> HIDE DEF T
  <2> QED
    BY <1>1, LeastNumber
<1>3. n - j \in S
  BY <1>2
<1>4. \A y \in S : n - j >= y
  <2> SUFFICES ASSUME NEW y \in S PROVE n - j >= y
    OBVIOUS
  <2>1. n - y \in 0..n /\ n - (n - y) = y
    OBVIOUS
  <2>2. n - y \in T
    BY <2>1
  <2>3. j <= n - y
    BY <1>2, <2>2
  <2> QED
    BY <1>2, <2>3
<1> HIDE DEF T
<1>5. \E x \in S : \A y \in S : x >= y
  BY <1>3, <1>4
<1> QED
  BY <1>5 DEF Undone!Max

\* Whoever brought in last a card that is still there offered it.
LEMMA OwnerOffered ==
  ASSUME NEW history, NEW meta, NEW past, NEW now, Undoable(history, meta, past, now),
         NEW card, card \in Undone!Ids(now),
         NEW k \in 1..Len(meta), card \in meta[k].components,
         \A j \in 1..Len(meta) : card \in meta[j].components => j <= k
  PROVE  meta[k].intent # "dismiss"
<1> SUFFICES ASSUME meta[k].intent = "dismiss" PROVE FALSE
  OBVIOUS
<1> DEFINE n == Len(meta)
<1>1. /\ n \in Nat /\ Len(past) = n /\ Len(history) = n
      /\ \A i \in 1..n : Says(meta[i], past[i], After(past, now, i))
  BY ListLen DEF Undoable, UndoLink
<1> DEFINE Gone == {m \in 0..n - k : card \notin Undone!Ids(After(past, now, k + m))}
<1> HIDE DEF n
<1>2. k \in 1..n /\ n - k \in Nat /\ n \in Nat
  BY <1>1 DEF n
<1>3. 0 \in Gone
  <2>1. Says(meta[k], past[k], After(past, now, k))
    BY <1>1, <1>2
  <2>2. card \notin Undone!Ids(After(past, now, k))
    BY <2>1 DEF Says
  <2>3. k + 0 = k /\ 0 \in 0..n - k
    BY <1>2
  <2> QED
    BY <2>2, <2>3
<1>4. ASSUME NEW m \in 1..n - k, m - 1 \in Gone PROVE m \in Gone
  <2>1. k + m \in 1..n /\ k + (m - 1) # n /\ k + (m - 1) + 1 = k + m /\ ~(k + m <= k)
        /\ m \in 0..n - k
    BY <1>2
  <2>2. After(past, now, k + (m - 1)) = past[k + m]
    BY <1>1, <2>1 DEF After
  <2>3. card \notin Undone!Ids(past[k + m])
    BY <1>4, <2>2
  <2>4. Says(meta[k + m], past[k + m], After(past, now, k + m))
    BY <1>1, <2>1
  <2>5. card \notin meta[k + m].components
    BY <2>1 DEF n
  <2>6. card \notin Undone!Ids(After(past, now, k + m))
    BY <2>3, <2>4, <2>5 DEF Says
  <2> QED
    BY <2>1, <2>6
<1>5. n - k \in Gone
  <2> HIDE DEF Gone
  <2>1. \A m \in 0..n - k : m \in Gone
    BY <1>2, <1>3, <1>4, CountingUp
  <2> QED
    BY <1>2, <2>1
<1>6. k + (n - k) = n
  BY <1>2
<1>7. After(past, now, n) = now
  BY <1>1 DEF After
<1> QED
  BY <1>5, <1>6, <1>7

LEMMA DismissedOK ==
  ASSUME NEW t, SessionOK(t), NEW card, NEW learn
  PROVE  SessionOK(Undone!Dismissed(t, card, learn))
<1> DEFINE patch == <<Undone!RemoveOp(card)>>
           done == Undone!ApplyPatch(t.body, patch)
           k == Undone!Max(Undone!Owners(t, card))
           taught == IF learn THEN Undone!LessonOf(t.meta[k]) ELSE None
           was == [intent |-> "dismiss", variant |-> card, components |-> {card},
                   refund |-> taught]
           r == [Undone!RedoCleared(Undone!Recorded(t, done, was)) EXCEPT
                   !.weights = Undone!Reinforced(@, taught, 1), !.cooling = FALSE]
<1>1. CASE Undone!Owners(t, card) = {}
  BY <1>1 DEF Undone!Dismissed
<1>2. CASE ~done.ok
  BY <1>2 DEF Undone!Dismissed, Undone!Removed
<1>3. CASE Undone!Owners(t, card) # {} /\ done.ok
  <2>1. Undone!Dismissed(t, card, learn) = r
    BY <1>3 DEF Undone!Dismissed, Undone!Removed
  <2>2. Formed(t) /\ Standing(t.body) /\ Undoable(t.history, t.meta, t.past, t.body)
    BY DEF SessionOK
  <2>3. /\ IsPatch(patch) /\ card \in Undone!Ids(t.body) /\ card \notin Undone!Ids(done.tree)
        /\ Undone!Ids(done.tree) \subseteq Undone!Ids(t.body)
    BY <1>3, <2>2, CardRemoved
  <2>4. k \in 1..Len(t.meta) /\ card \in t.meta[k].components
        /\ \A j \in 1..Len(t.meta) : card \in t.meta[j].components => j <= k
    <3>1. Undone!Owners(t, card) \subseteq 1..Len(t.meta) /\ Len(t.meta) \in Nat
      BY <2>2, ListLen DEF Undone!Owners, Undoable
    <3>2. k \in Undone!Owners(t, card) /\ \A y \in Undone!Owners(t, card) : k >= y
      BY <1>3, <3>1, GreatestIsThere
    <3> HIDE DEF k
    <3> QED
      BY <3>1, <3>2 DEF Undone!Owners
  <2> HIDE DEF k
  <2>5. taught \in Undone!Asks \cup {None}
    <3>1. t.meta[k].intent # "dismiss"
      BY <2>2, <2>3, <2>4, OwnerOffered
    <3>2. Says(t.meta[k], t.past[k], After(t.past, t.body, k))
      BY <2>2, <2>4 DEF Undoable, UndoLink
    <3>3. Undone!LessonOf(t.meta[k]) \in Undone!Asks
      BY <3>1, <3>2 DEF Says
    <3> QED
      BY <3>3
  <2> HIDE DEF taught
  <2>6. was.refund = taught /\ Says(was, t.body, done.tree)
    BY <2>3, <2>5 DEF Says
  <2> DEFINE q == Undone!RedoCleared(Undone!Recorded(t, done, was))
  <2>7. q.weights = t.weights
    <3>1. Advanced(Undone!Recorded(t, done, was), t, done, was)
          /\ Undone!Recorded(t, done, was).weights = t.weights
      BY <2>2, RecordedFields
    <3> QED
      BY <3>1 DEF Undone!RedoCleared, Advanced, Formed
  <2>8. r = Cleared(t, done, was, taught, FALSE)
    BY <2>7 DEF Cleared
  <2> HIDE DEF patch, done, was, r
  <2>9. /\ Advanced(r, t, done, was) /\ r.redo = <<>> /\ r.ahead = <<>>
        /\ r.weights = Undone!Reinforced(t.weights, taught, 1)
    <3> DEFINE cool == FALSE
    <3> HIDE DEF cool
    <3>1. /\ Advanced(Cleared(t, done, was, taught, cool), t, done, was)
          /\ Cleared(t, done, was, taught, cool).redo = <<>>
          /\ Cleared(t, done, was, taught, cool).ahead = <<>>
          /\ Cleared(t, done, was, taught, cool).weights = Undone!Reinforced(t.weights, taught, 1)
      BY <2>2, ClearedAdvances
    <3>2. r = Cleared(t, done, was, taught, cool)
      BY <2>8 DEF cool
    <3> QED
      BY <3>1, <3>2
  <2>10. done = Undone!ApplyPatch(t.body, patch) /\ done.ok
    BY <1>3 DEF done
  <2>11. SessionOK(r)
    BY <2>3, <2>6, <2>9, <2>10, ClearedOK
  <2> QED
    BY <2>1, <2>11
<1> QED
  BY <1>1, <1>2, <1>3

LEMMA NotEmpty ==
  ASSUME NEW x, IsList(x)
  PROVE  x = <<>> <=> Len(x) = 0
<1>1. PICK S : x \in Seq(S)
  BY DEF IsList
<1> QED
  BY <1>1, EmptySeq

\* What taking the newest step back finds.
TakesBack(t, done, was) ==
  /\ done.ok /\ done.tree = Undone!Last(t.past)
  /\ UndoLink(Undone!Last(t.history), was, Undone!Last(t.past), t.body)
  /\ Undoable(Undone!Front(t.history), Undone!Front(t.meta), Undone!Front(t.past), Undone!Last(t.past))
  /\ PatchUndone(t.body, done)

LEMMA NewestComesBack ==
  ASSUME NEW t, SessionOK(t), t.history # <<>>
  PROVE  TakesBack(t, Undone!ApplyPatch(t.body, Undone!Last(t.history)), Undone!Last(t.meta))
<1> DEFINE done == Undone!ApplyPatch(t.body, Undone!Last(t.history))
<1>1. Standing(t.body) /\ Undoable(t.history, t.meta, t.past, t.body) /\ Len(t.history) # 0
  BY NotEmpty DEF SessionOK, Undoable
<1>2. /\ UndoLink(Undone!Last(t.history), Undone!Last(t.meta), Undone!Last(t.past), t.body)
      /\ Undoable(Undone!Front(t.history), Undone!Front(t.meta), Undone!Front(t.past), Undone!Last(t.past))
  BY <1>1, UndoPopped
<1>3. done.ok /\ done.tree = Undone!Last(t.past) /\ IsPatch(Undone!Last(t.history))
  BY <1>2 DEF UndoLink, Undone!BringsBack
<1>4. PatchUndone(t.body, done)
  BY <1>1, <1>3, InverseRestores
<1> QED
  BY <1>2, <1>3, <1>4 DEF TakesBack

\* What a session is once its newest step is taken back.
Back(r, t, done, unlearn, relearn) ==
  r = [body |-> done.tree, history |-> Undone!Front(t.history), meta |-> Undone!Front(t.meta),
       redo |-> Undone!Push(t.redo, [patch |-> done.inverse, meta |-> Undone!Last(t.meta),
                              unlearn |-> unlearn, relearn |-> relearn], RedoLimit),
       weights |-> Undone!Reinforced(Undone!Reinforced(t.weights, unlearn, 1), relearn, -1),
       cooling |-> FALSE, past |-> Undone!Front(t.past), ahead |-> Undone!Push(t.ahead, t.body, RedoLimit)]

LEMMA ReturnedFields ==
  ASSUME NEW t, Formed(t), NEW done, done.ok, NEW unlearn, NEW relearn
  PROVE  Back(Undone!Returned(t, unlearn, relearn, done), t, done, unlearn, relearn)
<1> DEFINE entry == [patch |-> done.inverse, meta |-> Undone!Last(t.meta),
                     unlearn |-> unlearn, relearn |-> relearn]
           r == Undone!Returned(t, unlearn, relearn, done)
<1>1. r = [t EXCEPT !.body = done.tree, !.history = Undone!Front(t.history), !.meta = Undone!Front(t.meta),
                     !.past = Undone!Front(t.past),
                     !.weights = Undone!Reinforced(Undone!Reinforced(t.weights, unlearn, 1), relearn, -1),
                     !.redo = Undone!Push(t.redo, entry, RedoLimit),
                     !.ahead = Undone!Push(t.ahead, t.body, RedoLimit),
                     !.cooling = FALSE]
  BY DEF Undone!Returned
<1> HIDE DEF r, entry
<1>2. t = [body |-> t.body, history |-> t.history, meta |-> t.meta, redo |-> t.redo,
           weights |-> t.weights, cooling |-> t.cooling, past |-> t.past, ahead |-> t.ahead]
  BY DEF Formed
<1>3. r = [body |-> done.tree, history |-> Undone!Front(t.history), meta |-> Undone!Front(t.meta),
           redo |-> Undone!Push(t.redo, entry, RedoLimit),
           weights |-> Undone!Reinforced(Undone!Reinforced(t.weights, unlearn, 1), relearn, -1),
           cooling |-> FALSE, past |-> Undone!Front(t.past), ahead |-> Undone!Push(t.ahead, t.body, RedoLimit)]
  BY ONLY <1>1, <1>2
<1> QED
  BY <1>3 DEF Back, r, entry

LEMMA UnlearntOffered ==
  ASSUME NEW was, NEW before, NEW after, Says(was, before, after), NEW card, NEW learn
  PROVE  /\ Undone!Unlearnt(was, card, learn) \in Undone!Asks \cup {None}
         /\ \/ Undone!Unlearnt(was, card, learn) = None
            \/ Undone!Unlearnt(was, card, learn) = Undone!LessonOf(was) /\ was.intent # "dismiss"
<1>1. was.intent # "dismiss" => Undone!LessonOf(was) \in Undone!Asks
  BY DEF Says
<1> QED
  BY <1>1 DEF Undone!Unlearnt

\* The refund of the newest step is due, and there.
LEMMA RefundIsThere ==
  ASSUME NEW t, SessionOK(t), t.history # <<>>, Undone!Last(t.meta).refund # None
  PROVE  Undone!Last(t.meta).refund \in Undone!Lessons /\ t.weights[Undone!Last(t.meta).refund] >= 1
<1> DEFINE l == Undone!Last(t.meta).refund
<1>1. UndoLink(Undone!Last(t.history), Undone!Last(t.meta), Undone!Last(t.past), t.body)
  BY NewestComesBack DEF TakesBack
<1>2. l \in Undone!Lessons
  BY <1>1, RefundOffered, AsksAreOffers DEF UndoLink
<1>3. IsList(t.meta) /\ Len(t.meta) # 0 /\ Taught(t.weights) /\ Covered(t.weights, t.meta, t.redo)
      /\ IsList(t.redo)
  BY NotEmpty DEF SessionOK, Undoable, Redoable
<1>4. Undone!Last(t.meta) = t.meta[Len(t.meta)] /\ IsList(Undone!Front(t.meta))
      /\ Undone!Front(t.meta) = SubSeq(t.meta, 1, Len(t.meta) - 1)
  BY <1>3, Fronted
<1> HIDE DEF l
<1>5. Cardinality(Refunds(Undone!Front(t.meta), l)) = Cardinality(Refunds(t.meta, l)) - One(l, l)
  BY <1>3, <1>4, CountsPopped DEF l
<1>6. Cardinality(Refunds(Undone!Front(t.meta), l)) \in Nat /\ Cardinality(Refunds(t.meta, l)) \in Nat
      /\ Cardinality(Repeats(t.redo, l)) \in Nat
  BY <1>3, <1>4, CountsAreFinite
<1>7. One(l, l) = 1
  BY DEF One
<1>8. t.weights[l] \in Nat
        /\ t.weights[l] >= Cardinality(Refunds(t.meta, l)) + Cardinality(Repeats(t.redo, l))
  BY <1>2, <1>3 DEF Taught, Covered
<1>9. t.weights[l] >= 1
  BY <1>5, <1>6, <1>7, <1>8
<1> QED
  BY <1>2, <1>9 DEF l

LEMMA TakenBackOK ==
  ASSUME NEW t, SessionOK(t), t.history # <<>>, NEW card, NEW learn
  PROVE  SessionOK(Undone!TakenBack(t, card, learn))
<1> DEFINE done == Undone!ApplyPatch(t.body, Undone!Last(t.history))
           was == Undone!Last(t.meta)
           unlearn == Undone!Unlearnt(was, card, learn)
           relearn == Undone!Relearnt(was)
           r == Undone!Returned(t, unlearn, relearn, done)
           entry == [patch |-> done.inverse, meta |-> was, unlearn |-> unlearn,
                     relearn |-> relearn]
<1>1. Undone!TakenBack(t, card, learn) = r
  BY DEF Undone!TakenBack
<1>2. TakesBack(t, done, was)
  BY NewestComesBack
<1>3. Formed(t) /\ Standing(t.body) /\ Undoable(t.history, t.meta, t.past, t.body)
      /\ Redoable(t.redo, t.ahead, t.body) /\ Taught(t.weights)
      /\ Covered(t.weights, t.meta, t.redo)
  BY DEF SessionOK
<1> HIDE DEF done
<1>4. Back(r, t, done, unlearn, relearn)
  BY <1>2, <1>3, ReturnedFields DEF TakesBack
<1>5. /\ Says(was, Undone!Last(t.past), t.body) /\ Standing(Undone!Last(t.past))
      /\ done.tree = Undone!Last(t.past) /\ PatchUndone(t.body, done)
  BY <1>2 DEF TakesBack, UndoLink
<1>6. relearn = was.refund /\ relearn \in Undone!Asks \cup {None}
  BY <1>5, RefundOffered
<1>7. unlearn \in Undone!Asks \cup {None}
      /\ (unlearn = None \/ (unlearn = Undone!LessonOf(was) /\ was.intent # "dismiss"))
  BY <1>5, UnlearntOffered
<1> HIDE DEF unlearn, r
<1>8. /\ r.body = done.tree /\ r.history = Undone!Front(t.history) /\ r.meta = Undone!Front(t.meta)
      /\ r.past = Undone!Front(t.past) /\ r.redo = Undone!Push(t.redo, entry, RedoLimit)
      /\ r.ahead = Undone!Push(t.ahead, t.body, RedoLimit)
      /\ r.weights = Undone!Reinforced(Undone!Reinforced(t.weights, unlearn, 1), relearn, -1)
      /\ Formed(r)
  BY <1>4 DEF Back, Formed
<1>9. Standing(r.body) /\ Undoable(r.history, r.meta, r.past, r.body)
  BY <1>2, <1>5, <1>8 DEF TakesBack
<1>10. RedoLink(entry, Undone!Last(t.past), t.body)
  <2>1. entry.patch = done.inverse /\ entry.meta = was /\ entry.unlearn = unlearn
        /\ entry.relearn = relearn
    OBVIOUS
  <2> HIDE DEF entry
  <2>2. Undone!BringsBack(Undone!ApplyPatch(Undone!Last(t.past), done.inverse), t.body) /\ IsPatch(done.inverse)
    BY <1>5 DEF PatchUndone, Undone!BringsBack
  <2>3. Says(entry.meta, Undone!Last(t.past), t.body) /\ Standing(t.body)
    BY <1>3, <1>5, <2>1
  <2>4. entry.relearn = Undone!Relearnt(entry.meta)
    BY <2>1
  <2>5. entry.unlearn = None
          \/ (entry.unlearn = Undone!LessonOf(entry.meta) /\ entry.meta.intent # "dismiss")
    BY <1>7, <2>1
  <2>6. IsPatch(entry.patch) /\ Undone!BringsBack(Undone!ApplyPatch(Undone!Last(t.past), entry.patch), t.body)
    BY <2>1, <2>2
  <2> QED
    BY <2>3, <2>4, <2>5, <2>6 DEF RedoLink
<1>11. Redoable(r.redo, r.ahead, r.body)
  BY <1>3, <1>5, <1>8, <1>10, RedoPushed
<1> DEFINE w == Undone!Reinforced(t.weights, unlearn, 1)
<1>12. Taught(w) /\ \A l \in Undone!Lessons : w[l] = t.weights[l] + One(l, unlearn)
  BY <1>3, <1>7, TaughtMore
<1>13. relearn # None => w[relearn] >= 1
  <2> SUFFICES ASSUME relearn # None PROVE w[relearn] >= 1
    OBVIOUS
  <2>1. relearn \in Undone!Lessons /\ t.weights[relearn] >= 1
    BY <1>6, RefundIsThere
  <2>2. w[relearn] = t.weights[relearn] + One(relearn, unlearn) /\ One(relearn, unlearn) \in Nat
        /\ t.weights[relearn] \in Nat
    BY <1>3, <1>12, <2>1 DEF Taught, One
  <2> HIDE DEF w
  <2> QED
    BY <2>1, <2>2
<1>14. Taught(r.weights) /\ \A l \in Undone!Lessons : r.weights[l] = w[l] - One(l, relearn)
  <2> HIDE DEF w, relearn
  <2>1. Taught(Undone!Reinforced(w, relearn, -1))
        /\ \A l \in Undone!Lessons : Undone!Reinforced(w, relearn, -1)[l] = w[l] - One(l, relearn)
    BY <1>6, <1>12, <1>13, TaughtLess
  <2>2. r.weights = Undone!Reinforced(w, relearn, -1)
    BY <1>8 DEF w
  <2> QED
    BY <2>1, <2>2
<1>15. Covered(r.weights, r.meta, r.redo)
  <2> SUFFICES ASSUME NEW l \in Undone!Lessons
               PROVE  r.weights[l] >= Cardinality(Refunds(r.meta, l)) + Cardinality(Repeats(r.redo, l))
    BY DEF Covered
  <2> DEFINE a == Cardinality(Refunds(t.meta, l))  b == Cardinality(Repeats(t.redo, l))
             c == Cardinality(Refunds(r.meta, l))  d == Cardinality(Repeats(r.redo, l))
             o == One(l, relearn)  u == One(l, unlearn)  v == t.weights[l]  x == r.weights[l]
  <2>1. a \in Nat /\ c \in Nat
    BY <1>3, <1>9, CountsAreFinite DEF Undoable
  <2>2. b \in Nat /\ d \in Nat
    BY <1>3, <1>11, RepeatsCounted
  <2>3. c = a - o
    <3>1. IsList(t.meta) /\ Len(t.meta) # 0
      BY <1>3, NotEmpty DEF Undoable
    <3>2. was = t.meta[Len(t.meta)] /\ r.meta = SubSeq(t.meta, 1, Len(t.meta) - 1)
      BY <1>8, <3>1, Fronted
    <3> QED
      BY <1>6, <3>1, <3>2, CountsPopped
  <2>4. d <= b + u
    <3>1. RedoLimit \in Nat \ {0} /\ IsList(t.redo) /\ Len(t.redo) <= RedoLimit
      BY <1>3, Limits DEF Redoable, Undone!LimitsAssumption
    <3>2. entry.unlearn = unlearn
      OBVIOUS
    <3> HIDE DEF entry
    <3> QED
      BY <1>8, <3>1, <3>2, RepeatsPushed
  <2>5. v >= a + b
    BY <1>3 DEF Covered
  <2>6. x = v + u - o
    <3> HIDE DEF w, relearn
    <3>1. w[l] = t.weights[l] + One(l, unlearn) /\ r.weights[l] = w[l] - One(l, relearn)
      BY <1>12, <1>14
    <3>2. t.weights[l] \in Nat /\ One(l, unlearn) \in Nat /\ One(l, relearn) \in Nat
      BY <1>3 DEF Taught, One
    <3> QED
      BY <3>1, <3>2
  <2>7. v \in Nat /\ x \in Nat /\ o \in Nat /\ u \in Nat
    BY <1>3, <1>14 DEF Taught, One
  <2> HIDE DEF a, b, c, d, o, u, v, x
  <2>8. x >= c + d
    BY <2>1, <2>2, <2>3, <2>4, <2>5, <2>6, <2>7
  <2> QED
    BY <2>8 DEF c, d, x
<1>16. SessionOK(r)
  BY <1>8, <1>9, <1>11, <1>14, <1>15 DEF SessionOK
<1> QED
  BY <1>1, <1>16

LEMMA UndoOK ==
  ASSUME NEW t, SessionOK(t), NEW card, NEW learn
  PROVE  SessionOK(Undone!AfterUndo(t, card, learn))
BY DismissedOK, TakenBackOK DEF Undone!AfterUndo

-----------------------------------------------------------------------------
(* Redo *)

\* Redo takes the newest entry: it fits.
LEMMA NewestIsRedone ==
  ASSUME NEW t, SessionOK(t), Len(t.redo) # 0
  PROVE  /\ Undone!AfterRedo(t) = Undone!Retaken(t, Len(t.redo), t.redo[Len(t.redo)])
         /\ RedoLink(t.redo[Len(t.redo)], t.body, t.ahead[Len(t.redo)])
         /\ Redoable(SubSeq(t.redo, 1, Len(t.redo) - 1), SubSeq(t.ahead, 1, Len(t.redo) - 1),
                     t.ahead[Len(t.redo)])
<1> DEFINE n == Len(t.redo)
           fitting == {i \in 1..n : Undone!Fits(t, t.redo[i])}
<1>1. Redoable(t.redo, t.ahead, t.body) /\ n \in Nat
  BY ListLen DEF SessionOK, Redoable
<1>2. /\ RedoLink(t.redo[n], t.body, t.ahead[n])
      /\ Redoable(SubSeq(t.redo, 1, n - 1), SubSeq(t.ahead, 1, n - 1), t.ahead[n])
  BY <1>1, RedoPopped
<1>3. Undone!Fits(t, t.redo[n])
  BY <1>2 DEF RedoLink, Undone!BringsBack, Undone!Fits
<1>4. n \in fitting /\ fitting \subseteq 1..n /\ fitting # {}
  BY <1>1, <1>3
<1>5. Undone!AfterRedo(t) = Undone!NewestOf(t, fitting)
  BY DEF Undone!AfterRedo
<1> HIDE DEF fitting
<1>6. Undone!Max(fitting) \in fitting /\ \A y \in fitting : Undone!Max(fitting) >= y
  BY <1>1, <1>4, GreatestIsThere
<1>7. Undone!Max(fitting) = n
  <2> DEFINE m == Undone!Max(fitting)
  <2>1. m \in fitting /\ m >= n
    BY <1>4, <1>6
  <2> HIDE DEF m
  <2>2. m \in 1..n
    BY <1>4, <2>1
  <2>3. m = n
    BY <1>1, <2>1, <2>2
  <2> QED
    BY <2>3 DEF m
<1> QED
  BY <1>2, <1>4, <1>5, <1>7 DEF Undone!NewestOf

LEMMA NothingToRedo ==
  ASSUME NEW t, SessionOK(t), Len(t.redo) = 0
  PROVE  SessionOK(Undone!AfterRedo(t))
<1>1. 1..0 = {}
  OBVIOUS
<1>2. {i \in 1..Len(t.redo) : Undone!Fits(t, t.redo[i])} = {}
  BY <1>1
<1>3. Undone!AfterRedo(t) = [t EXCEPT !.redo = <<>>, !.ahead = <<>>]
  BY <1>2 DEF Undone!AfterRedo, Undone!NewestOf
<1> DEFINE r == Undone!AfterRedo(t)
<1> HIDE DEF r
<1>4. t = [body |-> t.body, history |-> t.history, meta |-> t.meta, redo |-> t.redo,
           weights |-> t.weights, cooling |-> t.cooling, past |-> t.past, ahead |-> t.ahead]
  BY DEF SessionOK, Formed
<1>5. r = [body |-> t.body, history |-> t.history, meta |-> t.meta, redo |-> <<>>,
           weights |-> t.weights, cooling |-> t.cooling, past |-> t.past, ahead |-> <<>>]
  <2>1. r = [t EXCEPT !.redo = <<>>, !.ahead = <<>>]
    BY <1>3 DEF r
  <2> QED
    BY ONLY <1>4, <2>1
<1>6. /\ Formed(r) /\ r.body = t.body /\ r.history = t.history /\ r.meta = t.meta
      /\ r.past = t.past /\ r.weights = t.weights /\ r.redo = <<>> /\ r.ahead = <<>>
  BY ONLY <1>5 DEF Formed
<1>7. Covered(r.weights, r.meta, r.redo)
  <2> SUFFICES ASSUME NEW l \in Undone!Lessons
               PROVE  t.weights[l] >= Cardinality(Refunds(t.meta, l)) + Cardinality(Repeats(<<>>, l))
    BY <1>6 DEF Covered
  <2>1. Cardinality(Refunds(t.meta, l)) \in Nat /\ Cardinality(Repeats(t.redo, l)) \in Nat
    BY CountsAreFinite DEF SessionOK, Undoable, Redoable
  <2>2. t.weights[l] \in Nat
        /\ t.weights[l] >= Cardinality(Refunds(t.meta, l)) + Cardinality(Repeats(t.redo, l))
    BY DEF SessionOK, Covered, Taught
  <2>3. Cardinality(Repeats(<<>>, l)) = 0
    BY NothingDue
  <2> QED
    BY <2>1, <2>2, <2>3
<1>8. Redoable(r.redo, r.ahead, r.body)
  BY <1>6, NoStack
<1> QED
  BY <1>6, <1>7, <1>8 DEF SessionOK, r

\* What a session is once an entry is taken forward again.
Forth(r, t, top, entry) ==
  /\ Advanced(r, t, Undone!ApplyPatch(t.body, entry.patch), entry.meta)
  /\ r.redo = SubSeq(t.redo, 1, top - 1) /\ r.ahead = SubSeq(t.ahead, 1, top - 1)
  /\ r.weights = Undone!Reinforced(Undone!Reinforced(t.weights, entry.unlearn, -1), entry.relearn, 1)

LEMMA RetakenFields ==
  ASSUME NEW t, Formed(t), NEW top, NEW entry
  PROVE  Forth(Undone!Retaken(t, top, entry), t, top, entry)
<1> DEFINE done == Undone!ApplyPatch(t.body, entry.patch)
           q == Undone!Recorded(t, done, entry.meta)
           r == Undone!Retaken(t, top, entry)
           w == Undone!Reinforced(Undone!Reinforced(t.weights, entry.unlearn, -1), entry.relearn, 1)
<1>1. Advanced(q, t, done, entry.meta) /\ q.redo = t.redo /\ q.ahead = t.ahead
      /\ q.weights = t.weights
  <2> HIDE DEF done
  <2> QED
    BY RecordedFields
<1>2. r = [q EXCEPT !.redo = SubSeq(t.redo, 1, top - 1), !.ahead = SubSeq(t.ahead, 1, top - 1),
                    !.weights = w, !.cooling = FALSE]
  BY <1>1 DEF Undone!Retaken
<1> HIDE DEF q, r, w, done
<1>3. q = [body |-> q.body, history |-> q.history, meta |-> q.meta, redo |-> q.redo,
           weights |-> q.weights, cooling |-> q.cooling, past |-> q.past, ahead |-> q.ahead]
  BY <1>1 DEF Advanced, Formed
<1>4. r = [body |-> q.body, history |-> q.history, meta |-> q.meta,
           redo |-> SubSeq(t.redo, 1, top - 1), weights |-> w, cooling |-> FALSE,
           past |-> q.past, ahead |-> SubSeq(t.ahead, 1, top - 1)]
  BY ONLY <1>2, <1>3
<1>5. /\ r.body = q.body /\ r.history = q.history /\ r.meta = q.meta /\ r.past = q.past
      /\ r.redo = SubSeq(t.redo, 1, top - 1) /\ r.ahead = SubSeq(t.ahead, 1, top - 1)
      /\ r.weights = w /\ r.cooling = FALSE
  BY ONLY <1>4
<1>6. Formed(r)
  BY ONLY <1>4, <1>5 DEF Formed
<1>7. Advanced(r, t, done, entry.meta)
  BY <1>1, <1>5, <1>6 DEF Advanced
<1> QED
  BY <1>5, <1>7 DEF Forth, done, r, w

LEMMA RedoOK ==
  ASSUME NEW t, SessionOK(t)
  PROVE  SessionOK(Undone!AfterRedo(t))
<1> SUFFICES ASSUME Len(t.redo) # 0 PROVE SessionOK(Undone!AfterRedo(t))
  BY NothingToRedo
<1> DEFINE n == Len(t.redo)
           entry == t.redo[n]
           r == Undone!Retaken(t, n, entry)
           done == Undone!ApplyPatch(t.body, entry.patch)
           was == entry.meta
           next == t.ahead[n]
<1>1. /\ Undone!AfterRedo(t) = r
      /\ RedoLink(entry, t.body, next)
      /\ Redoable(SubSeq(t.redo, 1, n - 1), SubSeq(t.ahead, 1, n - 1), next)
  BY NewestIsRedone
<1>2. Forth(r, t, n, entry)
  BY RetakenFields DEF SessionOK
<1> HIDE DEF r
<1>3. /\ Advanced(r, t, done, was)
      /\ r.redo = SubSeq(t.redo, 1, n - 1) /\ r.ahead = SubSeq(t.ahead, 1, n - 1)
      /\ r.weights = Undone!Reinforced(Undone!Reinforced(t.weights, entry.unlearn, -1), entry.relearn, 1)
  BY <1>2 DEF Forth
<1>4. /\ Redoable(t.redo, t.ahead, t.body) /\ Taught(t.weights)
      /\ Covered(t.weights, t.meta, t.redo) /\ IsList(t.redo) /\ IsList(t.meta)
  BY DEF SessionOK, Redoable, Undoable
<1>5. /\ IsPatch(entry.patch) /\ done.ok /\ done.tree = next /\ Says(was, t.body, next)
      /\ entry.relearn = Undone!Relearnt(was)
      /\ entry.unlearn = None \/ (entry.unlearn = Undone!LessonOf(was) /\ was.intent # "dismiss")
  BY <1>1 DEF RedoLink, Undone!BringsBack
<1> HIDE DEF entry, was, done, next
<1>6. /\ entry.relearn = was.refund /\ was.refund \in Undone!Asks \cup {None}
      /\ entry.unlearn \in Undone!Asks \cup {None}
  <2>1. Undone!Relearnt(was) = was.refund /\ was.refund \in Undone!Asks \cup {None}
        /\ (was.intent # "dismiss" => Undone!LessonOf(was) \in Undone!Asks)
    BY <1>5, RefundOffered
  <2> QED
    BY <1>5, <2>1
<1>7. Redoable(r.redo, r.ahead, r.body)
  BY <1>1, <1>3, <1>5 DEF Advanced
<1>8. \A l \in Undone!Lessons :
        Cardinality(Repeats(r.redo, l)) = Cardinality(Repeats(t.redo, l)) - One(l, entry.unlearn)
  BY <1>3, <1>4, CountsPopped DEF entry
<1>9. entry.unlearn # None => t.weights[entry.unlearn] >= 1
  <2> SUFFICES ASSUME entry.unlearn # None PROVE t.weights[entry.unlearn] >= 1
    OBVIOUS
  <2> DEFINE l == entry.unlearn
  <2>1. l \in Undone!Lessons
    BY <1>6, AsksAreOffers
  <2> HIDE DEF l
  <2>2. Cardinality(Repeats(r.redo, l)) = Cardinality(Repeats(t.redo, l)) - One(l, l)
    BY <1>8, <2>1 DEF l
  <2>3. One(l, l) = 1
    BY DEF One
  <2>4. Cardinality(Repeats(r.redo, l)) \in Nat /\ Cardinality(Repeats(t.redo, l)) \in Nat
    BY <1>4, <1>7, RepeatsCounted
  <2>5. Cardinality(Refunds(t.meta, l)) \in Nat
    BY <1>4, CountsAreFinite
  <2>6. t.weights[l] \in Nat
        /\ t.weights[l] >= Cardinality(Refunds(t.meta, l)) + Cardinality(Repeats(t.redo, l))
    BY <1>4, <2>1 DEF Taught, Covered
  <2>7. t.weights[l] >= 1
    BY <2>2, <2>3, <2>4, <2>5, <2>6
  <2> QED
    BY <2>7 DEF l
<1> DEFINE w == Undone!Reinforced(t.weights, entry.unlearn, -1)
<1>10. Taught(w) /\ \A l \in Undone!Lessons : w[l] = t.weights[l] - One(l, entry.unlearn)
  BY <1>4, <1>6, <1>9, TaughtLess
<1> HIDE DEF w
<1>11. Taught(Undone!Reinforced(w, was.refund, 1))
       /\ \A l \in Undone!Lessons : Undone!Reinforced(w, was.refund, 1)[l] = w[l] + One(l, was.refund)
  BY <1>6, <1>10, TaughtMore
<1>12. r.weights = Undone!Reinforced(w, was.refund, 1)
  BY <1>3, <1>6 DEF w
<1>13. ASSUME NEW l \in Undone!Lessons
       PROVE  Slack(r.weights, r.redo, l) >= Slack(t.weights, t.redo, l) + One(l, was.refund)
  <2> DEFINE b == Cardinality(Repeats(t.redo, l))  d == Cardinality(Repeats(r.redo, l))
             o == One(l, was.refund)  u == One(l, entry.unlearn)
             v == t.weights[l]  x == r.weights[l]
  <2>1. b \in Nat /\ d \in Nat
    BY <1>4, <1>7, RepeatsCounted
  <2>2. d = b - u
    BY <1>8
  <2>3. x = w[l] + o /\ w[l] = v - u
    BY <1>10, <1>11, <1>12
  <2>4. v \in Nat /\ w[l] \in Nat /\ o \in Nat /\ u \in Nat
    BY <1>4, <1>10 DEF Taught, One
  <2> HIDE DEF b, d, o, u, v, x
  <2>5. x - d >= v - b + o
    BY <2>1, <2>2, <2>3, <2>4
  <2> QED
    BY <2>5 DEF Slack, b, d, o, v, x
<1>14. Taught(r.weights)
  BY <1>11, <1>12
<1>15. Says(was, t.body, done.tree)
  BY <1>5
<1>16. done = Undone!ApplyPatch(t.body, entry.patch)
  BY DEF done
<1>17. SessionOK(r)
  BY <1>3, <1>5, <1>7, <1>13, <1>14, <1>15, <1>16, GoesOn
<1> QED
  BY <1>1, <1>17

-----------------------------------------------------------------------------
(* Morphs *)

LEMMA MorphForm ==
  ASSUME NEW t, Formed(t), NEW done, NEW was, NEW cooling
  PROVE  [Undone!RedoCleared(Undone!Recorded(t, done, was)) EXCEPT !.cooling = cooling]
           = Cleared(t, done, was, None, cooling)
<1> DEFINE q == Undone!Recorded(t, done, was)
<1>1. Advanced(q, t, done, was) /\ q.weights = t.weights
  BY RecordedFields
<1> HIDE DEF q
<1>2. q = [body |-> q.body, history |-> q.history, meta |-> q.meta, redo |-> q.redo,
           weights |-> q.weights, cooling |-> q.cooling, past |-> q.past, ahead |-> q.ahead]
  BY <1>1 DEF Advanced, Formed
<1>3. Undone!Reinforced(t.weights, None, 1) = q.weights
  BY <1>1 DEF Undone!Reinforced
<1>4. [[q EXCEPT !.redo = <<>>, !.ahead = <<>>] EXCEPT !.cooling = cooling]
        = [[q EXCEPT !.redo = <<>>, !.ahead = <<>>] EXCEPT !.weights = q.weights, !.cooling = cooling]
  BY ONLY <1>2
<1> QED
  BY <1>3, <1>4 DEF Cleared, Undone!RedoCleared, q

LEMMA MorphOK ==
  ASSUME NEW t, SessionOK(t), NEW intent, NEW variant, <<intent, variant>> \in Undone!Asks,
         NEW desired, PlainPatch(desired), NEW how, NEW held,
         NEW patch, patch = Undone!Guarded(desired, how, held),
         NEW done, done = Undone!ApplyPatch(t.body, patch), done.ok,
         NEW was, was = [intent |-> intent, variant |-> variant,
                         components |-> Undone!Introduced(patch), refund |-> None],
         NEW cooling
  PROVE  SessionOK([Undone!RedoCleared(Undone!Recorded(t, done, was)) EXCEPT !.cooling = cooling])
<1>1. Formed(t) /\ Standing(t.body)
  BY DEF SessionOK
<1>2. PlainPatch(patch)
  BY GuardedIsPlain
<1>3. IsPatch(patch)
  BY <1>2, PlainIsPatch
<1>4. Undone!Introduced(patch) \subseteq Undone!Ids(done.tree)
      /\ Undone!Ids(done.tree) \subseteq Undone!Ids(t.body) \cup Undone!Introduced(patch)
  BY <1>1, <1>2, PlainRun
<1>5. intent # "dismiss"
  BY DEF Undone!Asks
<1>6. was.intent = intent /\ was.variant = variant /\ was.components = Undone!Introduced(patch)
      /\ was.refund = None
  OBVIOUS
<1>7. Says(was, t.body, done.tree)
  BY <1>4, <1>5, <1>6 DEF Says, Undone!LessonOf
<1> DEFINE r == Cleared(t, done, was, None, cooling)
<1>8. /\ Advanced(r, t, done, was) /\ r.redo = <<>> /\ r.ahead = <<>>
      /\ r.weights = Undone!Reinforced(t.weights, None, 1)
  BY <1>1, ClearedAdvances
<1> HIDE DEF r
<1>9. SessionOK(r)
  BY <1>3, <1>6, <1>7, <1>8, ClearedOK
<1> QED
  BY <1>1, <1>9, MorphForm DEF r

-----------------------------------------------------------------------------
(* The specification *)

SavedOK(kept) ==
  /\ kept = [body |-> kept.body, weights |-> kept.weights]
  /\ Taught(kept.weights)
  /\ kept.body # None => Standing(kept.body)

SessionInv == SessionOK(s) /\ SavedOK(saved)

LEMMA StartsOK ==
  ASSUME Undone!Init
  PROVE  SessionInv
<1>1. SessionOK(s)
  BY FreshOK DEF Undone!Init
<1>2. Taught(Undone!Fresh.weights)
  BY FreshOK DEF SessionOK
<1>3. saved = [body |-> None, weights |-> Undone!Fresh.weights]
  BY DEF Undone!Init
<1>4. saved.body = None /\ saved.weights = Undone!Fresh.weights
  BY <1>3
<1>5. SavedOK(saved)
  BY <1>2, <1>3, <1>4 DEF SavedOK
<1> QED
  BY <1>1, <1>5 DEF SessionInv

LEMMA CoolingApart ==
  ASSUME NEW t, SessionOK(t), NEW cooling
  PROVE  SessionOK([t EXCEPT !.cooling = cooling])
<1> DEFINE r == [t EXCEPT !.cooling = cooling]
<1>1. t = [body |-> t.body, history |-> t.history, meta |-> t.meta, redo |-> t.redo,
           weights |-> t.weights, cooling |-> t.cooling, past |-> t.past, ahead |-> t.ahead]
  BY DEF SessionOK, Formed
<1>2. r = [body |-> t.body, history |-> t.history, meta |-> t.meta, redo |-> t.redo,
           weights |-> t.weights, cooling |-> cooling, past |-> t.past, ahead |-> t.ahead]
  BY ONLY <1>1
<1> HIDE DEF r
<1>3. /\ Formed(r) /\ r.body = t.body /\ r.history = t.history /\ r.meta = t.meta
      /\ r.past = t.past /\ r.weights = t.weights /\ r.redo = t.redo /\ r.ahead = t.ahead
  BY ONLY <1>2 DEF Formed
<1>4. SessionOK(r)
  BY <1>3 DEF SessionOK
<1> QED
  BY <1>4 DEF r

\* The larger of two weights.
LEMMA LargerIsTaught ==
  ASSUME NEW v, Taught(v), NEW w, Taught(w)
  PROVE  /\ Taught([l \in Undone!Lessons |-> IF v[l] > w[l] THEN v[l] ELSE w[l]])
         /\ \A l \in Undone!Lessons :
              [k \in Undone!Lessons |-> IF v[k] > w[k] THEN v[k] ELSE w[k]][l] >= w[l]
<1> DEFINE x == [l \in Undone!Lessons |-> IF v[l] > w[l] THEN v[l] ELSE w[l]]
<1>1. /\ \A l \in Undone!Lessons : v[l] \in Nat /\ w[l] \in Nat
      /\ \A l \in {"dismiss"} \X Undone!Cards : l \in Undone!Lessons /\ v[l] = 0 /\ w[l] = 0
  BY DEF Taught, Undone!Lessons
<1>2. x \in [Undone!Lessons -> Nat] /\ \A l \in Undone!Lessons : x[l] = IF v[l] > w[l] THEN v[l] ELSE w[l]
  BY <1>1
<1> HIDE DEF x
<1>3. \A l \in {"dismiss"} \X Undone!Cards : x[l] = 0
  BY <1>1, <1>2
<1>4. Taught(x) /\ \A l \in Undone!Lessons : x[l] >= w[l]
  BY <1>1, <1>2, <1>3 DEF Taught
<1> QED
  BY <1>4 DEF x

LEMMA MorphStep ==
  ASSUME SessionInv, NEW ask \in Undone!Asks, NEW how, Undone!Morph(ask[1], ask[2], how)
  PROVE  SessionInv'
<1> DEFINE intent == ask[1]  variant == ask[2]
           learned == intent = "augment" /\ s.weights[<<intent, variant>>] >= DismissThreshold
           desired == IF learned THEN <<>> ELSE Undone!PlanMorph(s.body, intent, variant)
           held == s.cooling /\ intent # "restore_normal"
           patch == Undone!Guarded(desired, how, held)
           done == Undone!ApplyPatch(s.body, patch)
           was == [intent |-> intent, variant |-> variant,
                   components |-> Undone!Introduced(patch), refund |-> None]
<1>1. ask = <<intent, variant>>
  BY DEF Undone!Asks
<1>2. <<intent, variant>> \in Undone!Asks
  BY <1>1
<1>3. done.ok /\ s' = [Undone!RedoCleared(Undone!Recorded(s, done, was)) EXCEPT !.cooling = TRUE]
      /\ saved' = saved
  BY DEF Undone!Morph
<1> HIDE DEF intent, variant, learned, held
<1>4. PlainPatch(desired)
  BY <1>2, PlanIsPlain, NoPatch
<1> HIDE DEF desired, patch, done, was
<1>5. /\ patch = Undone!Guarded(desired, how, held) /\ done = Undone!ApplyPatch(s.body, patch)
      /\ was = [intent |-> intent, variant |-> variant,
                components |-> Undone!Introduced(patch), refund |-> None]
  BY DEF patch, done, was
<1> DEFINE cool == TRUE
<1> HIDE DEF cool
<1>6. SessionOK([Undone!RedoCleared(Undone!Recorded(s, done, was)) EXCEPT !.cooling = cool])
  BY <1>2, <1>3, <1>4, <1>5, MorphOK DEF SessionInv
<1>7. SessionOK(s')
  BY <1>3, <1>6 DEF cool
<1> QED
  BY <1>3, <1>7 DEF SessionInv

LEMMA ResumeStep ==
  ASSUME SessionInv, Undone!Resume
  PROVE  SessionInv'
<1> DEFINE w == Undone!Imported
<1>1. SessionOK(s) /\ Taught(s.weights) /\ Taught(saved.weights)
  BY DEF SessionInv, SessionOK, SavedOK
<1>2. Taught(w) /\ \A l \in Undone!Lessons : w[l] >= s.weights[l]
  BY <1>1, LargerIsTaught DEF Undone!Imported
<1> HIDE DEF w
<1>3. CASE saved.body = None
  <2>1. s' = [s EXCEPT !.weights = w]
    BY <1>3 DEF Undone!Resume, w
  <2>2. s = [body |-> s.body, history |-> s.history, meta |-> s.meta, redo |-> s.redo,
             weights |-> s.weights, cooling |-> s.cooling, past |-> s.past, ahead |-> s.ahead]
    BY <1>1 DEF SessionOK, Formed
  <2> DEFINE r == [s EXCEPT !.weights = w]
  <2>3. r = [body |-> s.body, history |-> s.history, meta |-> s.meta, redo |-> s.redo,
             weights |-> w, cooling |-> s.cooling, past |-> s.past, ahead |-> s.ahead]
    BY ONLY <2>2
  <2> HIDE DEF r
  <2>4. /\ Formed(r) /\ r.body = s.body /\ r.history = s.history /\ r.meta = s.meta
        /\ r.past = s.past /\ r.weights = w /\ r.redo = s.redo /\ r.ahead = s.ahead
    BY ONLY <2>3 DEF Formed
  <2>5. Covered(w, s.meta, s.redo)
    <3> SUFFICES ASSUME NEW l \in Undone!Lessons
                 PROVE  w[l] >= Cardinality(Refunds(s.meta, l)) + Cardinality(Repeats(s.redo, l))
      BY DEF Covered
    <3>1. s.weights[l] >= Cardinality(Refunds(s.meta, l)) + Cardinality(Repeats(s.redo, l))
      BY <1>1 DEF SessionOK, Covered
    <3>2. Cardinality(Refunds(s.meta, l)) \in Nat /\ Cardinality(Repeats(s.redo, l)) \in Nat
      BY <1>1, CountsAreFinite DEF SessionOK, Undoable, Redoable
    <3>3. w[l] \in Nat /\ s.weights[l] \in Nat /\ w[l] >= s.weights[l]
      BY <1>1, <1>2 DEF Taught
    <3> QED
      BY <3>1, <3>2, <3>3
  <2>6. SessionOK(r)
    BY <1>1, <1>2, <2>4, <2>5 DEF SessionOK
  <2> QED
    BY <2>1, <2>6 DEF SessionInv, Undone!Resume, r
<1>4. CASE saved.body # None
  <2>1. s' = [Undone!Fresh EXCEPT !.body = saved.body, !.weights = w]
    BY <1>4 DEF Undone!Resume, Undone!Hydrated, w
  <2> DEFINE r == [Undone!Fresh EXCEPT !.body = saved.body, !.weights = w]
  <2>2. r = [body |-> saved.body, history |-> <<>>, meta |-> <<>>, redo |-> <<>>,
             weights |-> w, cooling |-> Undone!Fresh.cooling, past |-> <<>>, ahead |-> <<>>]
    <3> DEFINE f == Undone!Fresh  b == saved.body
    <3>1. f = [body |-> f.body, history |-> f.history, meta |-> f.meta, redo |-> f.redo,
               weights |-> f.weights, cooling |-> f.cooling, past |-> f.past, ahead |-> f.ahead]
          /\ f.history = <<>> /\ f.meta = <<>> /\ f.redo = <<>> /\ f.past = <<>> /\ f.ahead = <<>>
      BY DEF Undone!Fresh
    <3>2. r = [f EXCEPT !.body = b, !.weights = w]
      OBVIOUS
    <3> HIDE DEF f, b, r
    <3>3. r = [body |-> b, history |-> f.history, meta |-> f.meta, redo |-> f.redo,
               weights |-> w, cooling |-> f.cooling, past |-> f.past, ahead |-> f.ahead]
      BY ONLY <3>1, <3>2
    <3> QED
      BY <3>1, <3>3 DEF b, f
  <2> HIDE DEF r
  <2>3. /\ Formed(r) /\ r.body = saved.body /\ r.history = <<>> /\ r.meta = <<>>
        /\ r.past = <<>> /\ r.weights = w /\ r.redo = <<>> /\ r.ahead = <<>>
    BY ONLY <2>2 DEF Formed
  <2>4. Standing(r.body)
    BY <1>4, <2>3 DEF SessionInv, SavedOK
  <2>5. Undoable(r.history, r.meta, r.past, r.body) /\ Redoable(r.redo, r.ahead, r.body)
    BY <2>3, NoStack
  <2>6. Covered(r.weights, r.meta, r.redo)
    <3> SUFFICES ASSUME NEW l \in Undone!Lessons
                 PROVE  w[l] >= Cardinality(Refunds(<<>>, l)) + Cardinality(Repeats(<<>>, l))
      BY <2>3 DEF Covered
    <3>1. w[l] \in Nat
      BY <1>2 DEF Taught
    <3> QED
      BY <3>1, NothingDue
  <2>7. SessionOK(r)
    BY <1>2, <2>3, <2>4, <2>5, <2>6 DEF SessionOK
  <2> QED
    BY <2>1, <2>7 DEF SessionInv, Undone!Resume, r
<1> QED
  BY <1>3, <1>4

LEMMA SaveStep ==
  ASSUME SessionInv, Undone!Save
  PROVE  SessionInv'
<1>1. SessionOK(s) /\ SavedOK(saved) /\ s' = s
  BY DEF SessionInv, Undone!Save
<1>2. /\ saved = [body |-> saved.body, weights |-> saved.weights]
      /\ Taught(saved.weights) /\ Taught(s.weights) /\ Standing(s.body)
      /\ saved.body # None => Standing(saved.body)
  BY <1>1 DEF SavedOK, SessionOK
<1>3. CASE saved' = [saved EXCEPT !.body = s.body]
  <2>1. saved' = [body |-> s.body, weights |-> saved.weights]
    BY <1>2, <1>3
  <2>2. SavedOK(saved')
    BY <1>2, <2>1 DEF SavedOK
  <2> QED
    BY <1>1, <2>2 DEF SessionInv
<1>4. CASE saved' = [saved EXCEPT !.weights = s.weights]
  <2>1. saved' = [body |-> saved.body, weights |-> s.weights]
    BY <1>2, <1>4
  <2>2. SavedOK(saved')
    BY <1>2, <2>1 DEF SavedOK
  <2> QED
    BY <1>1, <2>2 DEF SessionInv
<1> QED
  BY <1>3, <1>4 DEF Undone!Save

LEMMA SessionStep ==
  ASSUME SessionInv, Undone!Next
  PROVE  SessionInv'
<1>1. SessionOK(s) /\ SavedOK(saved)
  BY DEF SessionInv
<1>2. CASE \E ask \in Undone!Asks, how \in Undone!Hows : Undone!Morph(ask[1], ask[2], how)
  BY <1>2, MorphStep
<1>3. CASE \E card \in Undone!Cards \cup {None}, learn \in BOOLEAN : Undone!Undo(card, learn)
  <2>1. PICK card \in Undone!Cards \cup {None}, learn \in BOOLEAN : Undone!Undo(card, learn)
    BY <1>3
  <2>2. SessionOK(Undone!AfterUndo(s, card, learn))
    BY <1>1, UndoOK
  <2> QED
    BY <1>1, <2>1, <2>2 DEF Undone!Undo, SessionInv
<1>4. CASE Undone!Redo
  <2>1. SessionOK(Undone!AfterRedo(s))
    BY <1>1, RedoOK
  <2> QED
    BY <1>1, <1>4, <2>1 DEF Undone!Redo, SessionInv
<1>5. CASE Undone!Settle
  <2> DEFINE cool == FALSE
  <2> HIDE DEF cool
  <2>1. SessionOK([s EXCEPT !.cooling = cool])
    BY <1>1, CoolingApart
  <2> QED
    BY <1>1, <1>5, <2>1 DEF Undone!Settle, SessionInv, cool
<1>6. CASE Undone!Save
  BY <1>6, SaveStep
<1>7. CASE Undone!Restart
  BY <1>1, <1>7, FreshOK DEF Undone!Restart, SessionInv
<1>8. CASE Undone!Resume
  BY <1>8, ResumeStep
<1> QED
  BY <1>2, <1>3, <1>4, <1>5, <1>6, <1>7, <1>8 DEF Undone!Next

-----------------------------------------------------------------------------
(* What follows of it *)

LEMMA StacksFitFollows ==
  ASSUME SessionInv
  PROVE  Undone!StacksFit
<1>1. /\ Undoable(s.history, s.meta, s.past, s.body)
      /\ Redoable(s.redo, s.ahead, s.body)
  BY DEF SessionInv, SessionOK
<1>2. Undone!Paired
  BY <1>1 DEF Undone!Paired, Undoable, Redoable
<1>3. Undone!EveryUndoFits
  <2> SUFFICES ASSUME NEW i \in 1..Len(s.history)
               PROVE  Undone!BringsBack(Undone!ApplyPatch(Undone!Bodies(s)[i + 1], s.history[i]), Undone!Bodies(s)[i])
    BY DEF Undone!EveryUndoFits
  <2> DEFINE n == Len(s.past)  b == Append(s.past, s.body)
  <2>1. /\ IsList(s.past) /\ Len(s.history) = n /\ n \in Nat
        /\ UndoLink(s.history[i], s.meta[i], s.past[i], After(s.past, s.body, i))
    BY <1>1, ListLen DEF Undoable
  <2>2. (\A k \in 1..n : b[k] = s.past[k]) /\ b[n + 1] = s.body
    BY <2>1, Appended
  <2>3. Undone!Bodies(s) = b
    BY DEF Undone!Bodies
  <2> HIDE DEF b
  <2>4. b[i] = s.past[i]
    BY <2>1, <2>2
  <2>5. b[i + 1] = After(s.past, s.body, i)
    <3>1. CASE i = n
      BY <2>2, <3>1 DEF After
    <3>2. CASE i # n
      <4>1. i + 1 \in 1..n
        BY <2>1, <3>2
      <4> QED
        BY <2>2, <3>2, <4>1 DEF After
    <3> QED
      BY <3>1, <3>2
  <2> QED
    BY <2>1, <2>3, <2>4, <2>5 DEF UndoLink
<1>4. Undone!EveryRedoFits
  <2> DEFINE n == Len(s.ahead)  b == Append(s.ahead, s.body)
  <2> SUFFICES ASSUME NEW i \in 1..Len(s.redo)
               PROVE  Undone!BringsBack(Undone!ApplyPatch(b[i + 1], s.redo[i].patch), b[i])
    BY DEF Undone!EveryRedoFits
  <2>1. /\ IsList(s.ahead) /\ Len(s.redo) = n /\ n \in Nat
        /\ RedoLink(s.redo[i], After(s.ahead, s.body, i), s.ahead[i])
    BY <1>1, ListLen DEF Redoable
  <2>2. (\A k \in 1..n : b[k] = s.ahead[k]) /\ b[n + 1] = s.body
    BY <2>1, Appended
  <2> HIDE DEF b
  <2>4. b[i] = s.ahead[i]
    BY <2>1, <2>2
  <2>5. b[i + 1] = After(s.ahead, s.body, i)
    <3>1. CASE i = n
      BY <2>2, <3>1 DEF After
    <3>2. CASE i # n
      <4>1. i + 1 \in 1..n
        BY <2>1, <3>2
      <4> QED
        BY <2>2, <3>2, <4>1 DEF After
    <3> QED
      BY <3>1, <3>2
  <2> QED
    BY <2>1, <2>4, <2>5 DEF RedoLink
<1> QED
  BY <1>2, <1>3, <1>4 DEF Undone!StacksFit

\* A list without its last, and that one pushed again.
LEMMA PushedBack ==
  ASSUME NEW x, IsList(x), Len(x) # 0, NEW limit \in Nat, Len(x) <= limit
  PROVE  Undone!Push(Undone!Front(x), Undone!Last(x), limit) = x
<1> DEFINE f == Undone!Front(x)  e == Undone!Last(x)
<1>1. /\ IsList(f) /\ Len(f) = Len(x) - 1 /\ \A k \in 1..Len(x) - 1 : f[k] = x[k]
      /\ e = x[Len(x)] /\ Len(x) \in Nat
  BY Fronted, ListLen
<1> HIDE DEF f, e
<1>2. Undone!Push(f, e, limit) = Append(f, e)
  BY <1>1 DEF Undone!Push
<1>3. /\ IsList(Append(f, e)) /\ Len(Append(f, e)) = Len(f) + 1
      /\ \A k \in 1..Len(f) : Append(f, e)[k] = f[k]
      /\ Append(f, e)[Len(f) + 1] = e
  BY <1>1, Appended
<1> DEFINE y == Append(f, e)
<1> HIDE DEF y
<1>4. \A k \in 1..Len(y) : y[k] = x[k]
  <2> SUFFICES ASSUME NEW k \in 1..Len(y) PROVE y[k] = x[k]
    OBVIOUS
  <2>1. CASE k = Len(x)
    BY <1>1, <1>3, <2>1 DEF y
  <2>2. CASE k # Len(x)
    <3>1. k \in 1..Len(f) /\ k \in 1..Len(x) - 1
      BY <1>1, <1>3, <2>2 DEF y
    <3> QED
      BY <1>1, <1>3, <3>1 DEF y
  <2> QED
    BY <2>1, <2>2
<1>5. Len(y) = Len(x) /\ IsList(y)
  BY <1>1, <1>3 DEF y
<1>6. y = x
  BY <1>4, <1>5, SameList
<1> QED
  BY <1>2, <1>6 DEF f, e, y

LEMMA ThereAndBack ==
  ASSUME NEW t, SessionOK(t), t.history # <<>>, NEW learn,
         NEW u, u = Undone!AfterUndo(t, None, learn), NEW r, r = Undone!AfterRedo(u)
  PROVE  r.body = t.body /\ r.meta = t.meta /\ r.weights = t.weights
         /\ Len(r.history) = Len(t.history)
<1> DEFINE done == Undone!ApplyPatch(t.body, Undone!Last(t.history))
           was == Undone!Last(t.meta)
           unlearn == Undone!Unlearnt(was, None, learn)
           relearn == Undone!Relearnt(was)
           entry == [patch |-> done.inverse, meta |-> was, unlearn |-> unlearn,
                     relearn |-> relearn]
<1>1. u = Undone!TakenBack(t, None, learn)
  BY DEF Undone!AfterUndo
<1>2. u = Undone!Returned(t, unlearn, relearn, done)
  BY <1>1 DEF Undone!TakenBack
<1>3. TakesBack(t, done, was)
  BY NewestComesBack
<1>4. SessionOK(u)
  BY UndoOK
<1>5. /\ Undoable(t.history, t.meta, t.past, t.body) /\ Redoable(t.redo, t.ahead, t.body)
      /\ Taught(t.weights) /\ Formed(t)
  BY DEF SessionOK
<1> HIDE DEF done
<1>6. Back(Undone!Returned(t, unlearn, relearn, done), t, done, unlearn, relearn)
  BY <1>3, <1>5, ReturnedFields DEF TakesBack
<1>7. Back(u, t, done, unlearn, relearn)
  BY <1>2, <1>6
<1>8. /\ relearn = was.refund /\ relearn \in Undone!Asks \cup {None}
      /\ unlearn \in Undone!Asks \cup {None}
  <2>1. Says(was, Undone!Last(t.past), t.body)
    BY <1>3 DEF TakesBack, UndoLink
  <2> QED
    BY <2>1, RefundOffered, UnlearntOffered
<1>9. /\ entry.patch = done.inverse /\ entry.meta = was /\ entry.unlearn = unlearn
      /\ entry.relearn = relearn
  OBVIOUS
<1> HIDE DEF unlearn, relearn, entry
<1>10. /\ u.body = done.tree /\ u.history = Undone!Front(t.history) /\ u.meta = Undone!Front(t.meta)
       /\ u.redo = Undone!Push(t.redo, entry, RedoLimit)
       /\ u.weights = Undone!Reinforced(Undone!Reinforced(t.weights, unlearn, 1), relearn, -1)
  BY <1>7 DEF Back, entry
<1> DEFINE n == Len(u.redo)
<1>11. n # 0 /\ u.redo[n] = entry
  <2>1. RedoLimit \in Nat \ {0} /\ IsList(t.redo) /\ Len(t.redo) <= RedoLimit
    BY <1>5, Limits DEF Redoable, Undone!LimitsAssumption
  <2> DEFINE p == Undone!Push(t.redo, entry, RedoLimit)
  <2>2. Len(p) = Len(t.redo) + 1 - Forgotten(t.redo, RedoLimit) /\ Len(p) \in Nat \ {0}
        /\ p[Len(t.redo) + 1 - Forgotten(t.redo, RedoLimit)] = entry
    BY <2>1, Pushed
  <2> HIDE DEF p
  <2>3. u.redo = p
    BY <1>10 DEF p
  <2> QED
    BY <2>2, <2>3
<1>12. r = Undone!Retaken(u, n, entry)
  BY <1>4, <1>11, NewestIsRedone
<1>13. Forth(r, u, n, entry)
  BY <1>4, <1>12, RetakenFields DEF SessionOK
<1> DEFINE redone == Undone!ApplyPatch(u.body, done.inverse)
<1>14. /\ r.body = redone.tree
       /\ r.history = Undone!Push(u.history, redone.inverse, HistoryLimit)
       /\ r.meta = Undone!MetaBeside(Undone!Push(u.history, redone.inverse, HistoryLimit), Append(u.meta, was))
       /\ r.weights = Undone!Reinforced(Undone!Reinforced(u.weights, unlearn, -1), relearn, 1)
  BY <1>9, <1>13 DEF Forth, Advanced
<1>15. redone.tree = t.body
  BY <1>3, <1>10 DEF TakesBack, PatchUndone
<1> HIDE DEF redone
<1>16. /\ HistoryLimit \in Nat \ {0} /\ IsList(t.history) /\ IsList(t.meta)
       /\ Len(t.meta) = Len(t.history) /\ Len(t.history) <= HistoryLimit /\ Len(t.history) # 0
       /\ Len(t.history) \in Nat
  BY <1>5, ListLen, NotEmpty, Limits DEF Undone!LimitsAssumption, Undoable
<1>17. /\ IsList(u.history) /\ Len(u.history) = Len(t.history) - 1
       /\ IsList(u.meta) /\ Len(u.meta) = Len(t.history) - 1
  <2>1. IsList(Undone!Front(t.history)) /\ Len(Undone!Front(t.history)) = Len(t.history) - 1
    BY <1>16, Fronted
  <2>2. IsList(Undone!Front(t.meta)) /\ Len(Undone!Front(t.meta)) = Len(t.meta) - 1
    BY <1>16, Fronted
  <2> QED
    BY <1>10, <1>16, <2>1, <2>2
<1>18. r.meta = t.meta
  <2>1. Len(u.meta) = Len(u.history) /\ Len(u.history) <= HistoryLimit
    BY <1>16, <1>17
  <2>a. Undone!MetaBeside(Undone!Push(u.history, redone.inverse, HistoryLimit), Append(u.meta, was))
          = Undone!Push(u.meta, was, HistoryLimit)
    <3>1. HistoryLimit \in Nat \ {0} /\ IsList(u.history) /\ IsList(u.meta)
      BY <1>16, <1>17
    <3> QED
      BY ONLY <2>1, <3>1, BesideIsPush
  <2>2. r.meta = Undone!Push(u.meta, was, HistoryLimit)
    BY <1>14, <2>a
  <2>3. Undone!Push(Undone!Front(t.meta), was, HistoryLimit) = t.meta
    BY <1>16, PushedBack
  <2> QED
    BY <1>10, <2>2, <2>3
<1>19. Len(r.history) = Len(t.history)
  <2>1. Forgotten(u.history, HistoryLimit) = 0 /\ Len(u.history) <= HistoryLimit
    BY <1>16, <1>17 DEF Forgotten
  <2>2. Len(Undone!Push(u.history, redone.inverse, HistoryLimit))
          = Len(u.history) + 1 - Forgotten(u.history, HistoryLimit)
    <3> DEFINE h == u.history  e == redone.inverse
    <3> HIDE DEF h, e
    <3>1. IsList(h) /\ Len(h) <= HistoryLimit
      BY <1>17, <2>1 DEF h
    <3>2. Len(Undone!Push(h, e, HistoryLimit)) = Len(h) + 1 - Forgotten(h, HistoryLimit)
      BY <1>16, <3>1, Pushed
    <3> QED
      BY <3>2 DEF h, e
  <2> QED
    BY <1>14, <1>16, <1>17, <2>1, <2>2
<1>20. r.weights = t.weights
  <2> DEFINE w1 == Undone!Reinforced(t.weights, unlearn, 1)
             w3 == Undone!Reinforced(u.weights, unlearn, -1)
  <2>1. Taught(w1) /\ \A l \in Undone!Lessons : w1[l] = t.weights[l] + One(l, unlearn)
    BY <1>5, <1>8, TaughtMore
  <2>2. u.weights = Undone!Reinforced(w1, relearn, -1)
    BY <1>10
  <2> HIDE DEF w1
  <2>3. relearn # None => relearn \in Undone!Lessons /\ t.weights[relearn] >= 1
    BY <1>8, RefundIsThere
  <2>4. relearn # None => w1[relearn] >= 1
    <3> SUFFICES ASSUME relearn # None PROVE w1[relearn] >= 1
      OBVIOUS
    <3>1. w1[relearn] = t.weights[relearn] + One(relearn, unlearn)
          /\ t.weights[relearn] \in Nat /\ One(relearn, unlearn) \in Nat
      BY <1>5, <2>1, <2>3 DEF Taught, One
    <3> QED
      BY <2>3, <3>1
  <2>5. Taught(u.weights) /\ \A l \in Undone!Lessons : u.weights[l] = w1[l] - One(l, relearn)
    BY <1>8, <2>1, <2>2, <2>4, TaughtLess
  <2>6. unlearn = None \/ relearn = None
    BY <1>3 DEF unlearn, relearn, Undone!Unlearnt, Undone!Relearnt
  <2>7. unlearn # None => u.weights[unlearn] >= 1
    <3> SUFFICES ASSUME unlearn # None PROVE u.weights[unlearn] >= 1
      OBVIOUS
    <3>1. unlearn \in Undone!Lessons /\ unlearn # relearn
      BY <1>8, <2>6, AsksAreOffers
    <3>2. /\ u.weights[unlearn] = w1[unlearn] - One(unlearn, relearn)
          /\ w1[unlearn] = t.weights[unlearn] + One(unlearn, unlearn)
          /\ t.weights[unlearn] \in Nat
      BY <1>5, <2>1, <2>5, <3>1 DEF Taught
    <3>3. One(unlearn, relearn) = 0 /\ One(unlearn, unlearn) = 1
      BY <3>1 DEF One
    <3> QED
      BY <3>2, <3>3
  <2>8. Taught(w3) /\ \A l \in Undone!Lessons : w3[l] = u.weights[l] - One(l, unlearn)
    BY <1>8, <2>5, <2>7, TaughtLess
  <2>9. r.weights = Undone!Reinforced(w3, relearn, 1)
    BY <1>14
  <2> HIDE DEF w3
  <2>10. Taught(r.weights) /\ \A l \in Undone!Lessons : r.weights[l] = w3[l] + One(l, relearn)
    BY <1>8, <2>8, <2>9, TaughtMore
  <2>11. ASSUME NEW l \in Undone!Lessons PROVE r.weights[l] = t.weights[l]
    <3>1. /\ r.weights[l] = w3[l] + One(l, relearn) /\ w3[l] = u.weights[l] - One(l, unlearn)
          /\ u.weights[l] = w1[l] - One(l, relearn) /\ w1[l] = t.weights[l] + One(l, unlearn)
      BY <2>1, <2>5, <2>8, <2>10
    <3>2. t.weights[l] \in Nat /\ One(l, relearn) \in Nat /\ One(l, unlearn) \in Nat
      BY <1>5 DEF Taught, One
    <3> QED
      BY <3>1, <3>2
  <2> QED
    BY <1>5, <2>10, <2>11 DEF Taught
<1> QED
  BY <1>14, <1>15, <1>18, <1>19, <1>20

LEMMA LessonsBalanceFollows ==
  ASSUME SessionInv
  PROVE  Undone!LessonsBalance
<1>1. SessionOK(s)
  BY DEF SessionInv
<1>2. Undone!WeightsCoverDues
  <2> SUFFICES ASSUME NEW l \in Undone!Lessons PROVE s.weights[l] >= Undone!Dues(l)
    BY DEF Undone!WeightsCoverDues
  <2>1. s.weights[l] >= Cardinality(Refunds(s.meta, l)) + Cardinality(Repeats(s.redo, l))
    BY <1>1 DEF SessionOK, Covered
  <2>2. /\ Undone!Cardinality(Refunds(s.meta, l)) = Cardinality(Refunds(s.meta, l))
        /\ Undone!Cardinality(Repeats(s.redo, l)) = Cardinality(Repeats(s.redo, l))
    BY TreesAreCounted
  <2> QED
    BY <2>1, <2>2 DEF Undone!Dues, Refunds, Repeats
<1>3. Undone!OnlyOffersAreTaught
  BY <1>1 DEF SessionOK, Taught, Undone!OnlyOffersAreTaught
<1>4. Undone!MindChangingIsFree
  BY <1>1, ThereAndBack DEF Undone!MindChangingIsFree, Undone!SameAsBefore
<1> QED
  BY <1>2, <1>3, <1>4 DEF Undone!LessonsBalance

LEMMA StaleClicksFollow ==
  ASSUME SessionInv
  PROVE  Undone!StaleClickOnlyUndoesDismissal
<1> SUFFICES ASSUME NEW card \in Undone!Cards \ Undone!Ids(s.body), Undone!AfterUndo(s, card, TRUE) # s
             PROVE  Undone!Last(s.meta).intent = "dismiss" /\ Undone!Last(s.meta).variant = card
  BY DEF Undone!StaleClickOnlyUndoesDismissal
<1>1. SessionOK(s)
  BY DEF SessionInv
<1>2. s.history # <<>>
  BY DEF Undone!AfterUndo
<1>3. Says(Undone!Last(s.meta), Undone!Last(s.past), s.body)
  BY <1>1, <1>2, NewestComesBack DEF TakesBack, UndoLink
<1>4. card \in Undone!Last(s.meta).components
  <2> SUFFICES ASSUME card \notin Undone!Last(s.meta).components PROVE FALSE
    OBVIOUS
  <2>1. Undone!AfterUndo(s, card, TRUE) \in {s, Undone!Dismissed(s, card, TRUE)}
    <3>1. card # None
      BY Limits DEF Undone!NoneAssumption
    <3> QED
      BY <3>1 DEF Undone!AfterUndo
  <2>2. ~Undone!ApplyPatch(s.body, <<Undone!RemoveOp(card)>>).ok
    BY <1>1, CardRemoved DEF SessionOK
  <2>3. Undone!Dismissed(s, card, TRUE) = s
    BY <2>2 DEF Undone!Dismissed, Undone!Removed
  <2> QED
    BY <2>1, <2>3
<1> QED
  BY <1>3, <1>4 DEF Says

LEMMA SessionKept == SessionInv /\ [Undone!Next]_(Undone!vars) => SessionInv'
<1> SUFFICES ASSUME SessionInv, [Undone!Next]_(Undone!vars) PROVE SessionInv'
  OBVIOUS
<1>1. CASE Undone!Next
  BY <1>1, SessionStep
<1>2. CASE UNCHANGED Undone!vars
  BY <1>2 DEF Undone!vars, SessionInv, SessionOK, SavedOK
<1> QED
  BY <1>1, <1>2

\* SessionRuntime, over any morphs, incidents, undos, redos, dismissals, saves and restarts, with
\* a snapshot store or without one: every entry of both stacks, taken in turn, restores the body
\* it was pushed over, and neither stack outgrows its ceiling.
THEOREM TheStacksFit == Undone!Spec => []StacksFit
<1>1. Undone!Init => SessionInv
  BY StartsOK
<1>2. SessionInv /\ [Undone!Next]_(Undone!vars) => SessionInv'
  BY SessionKept
<1>3. SessionInv => Undone!StacksFit
  BY StacksFitFollows
<1> QED
  BY <1>1, <1>2, <1>3, PTL DEF Undone!Spec, StacksFit

\* SessionRuntime, the same: the weight of a lesson covers all that may still be handed back of
\* it, no undo or redo teaches what was not offered, undo and redo together change nothing, and
\* a click on a card that is gone takes back nothing but a dismissal of it.
THEOREM TheLessonsBalance == Undone!Spec => []LessonsBalance
<1>1. Undone!Init => SessionInv
  BY StartsOK
<1>2. SessionInv /\ [Undone!Next]_(Undone!vars) => SessionInv'
  BY SessionKept
<1>3. SessionInv => Undone!LessonsBalance /\ Undone!StaleClickOnlyUndoesDismissal
  BY LessonsBalanceFollows, StaleClicksFollow
<1> QED
  BY <1>1, <1>2, <1>3, PTL DEF Undone!Spec, LessonsBalance
================================================================================
