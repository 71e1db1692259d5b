---------------------------- MODULE Sensing_proofs ----------------------------
(* Theorems about Sensing, for any number of agents and browsers, any ceiling of    *)
(* sensors and any number of starts, changes of consent and losses: what is shown   *)
(* of a sensor is the last it was heard to say, and a lone browser is shown truly.  *)
EXTENDS Sensing, TLAPS, SequenceTheorems, FiniteSetTheorems

Layers == {Files, Windows, Screen, Tabs, Page}

----
(* The inductive invariant *)

\* What each process observes is something it may, and what it has on its way is layers.
ProcessesFit ==
  /\ observes \in [Processes -> SUBSET Layers]
  /\ \A p \in Processes : observes[p] \in Senses(p)
  /\ outbox \in [Processes -> Seq(SUBSET Layers)]
  /\ \A p \in Processes : Len(outbox[p]) <= MaxOutbox
  /\ missed \subseteq Processes

\* The belief has no more sensors than there is room for, each at its last word.
BeliefFits ==
  /\ heard \in [Names -> SUBSET Layers]
  /\ DOMAIN sensing \subseteq Names
  /\ Cardinality(DOMAIN sensing) <= MaxSensors
  /\ \A n \in DOMAIN sensing : sensing[n] = heard[n] /\ sensing[n] # {}

\* The last declaration a browser made says what it observes now: it is still on its way, or
\* was the last heard under its name, or was lost.
LastWordOf(p) ==
  IF outbox[p] # <<>> THEN outbox[p][Len(outbox[p])] = observes[p]
  ELSE p \notin missed /\ Extension \in DOMAIN sensing => sensing[Extension] = observes[p]

\* There is one browser.
Lone(p) == p \in Browsers /\ \A q \in Browsers : q = p
LoneBrowserFits == \A p \in Browsers : Lone(p) => LastWordOf(p)

SensingInv == ProcessesFit /\ BeliefFits /\ LoneBrowserFits

----
(* Sets and sequences *)

LEMMA NamesAreFew ==
  ASSUME NEW S, S \subseteq Names
  PROVE  IsFiniteSet(S) /\ Cardinality(S) \in Nat
<1>1. IsFiniteSet(Names)
  <2>1. IsFiniteSet({Agent}) /\ IsFiniteSet({Extension}) /\ IsFiniteSet({Web})
    BY FS_Singleton
  <2>2. IsFiniteSet({Agent} \cup {Extension})
    BY <2>1, FS_Union
  <2>3. IsFiniteSet(({Agent} \cup {Extension}) \cup {Web})
    BY <2>1, <2>2, FS_Union
  <2>4. ({Agent} \cup {Extension}) \cup {Web} = Names
    BY DEF Names
  <2> QED
    BY <2>3, <2>4
<1>2. IsFiniteSet(S)
  BY <1>1, FS_Subset
<1> QED
  BY <1>2, FS_CardinalityType

LEMMA OneOrMore ==
  ASSUME NEW p \in Browsers, ~(Cardinality(Browsers) > 1)
  PROVE  Lone(p)
<1> SUFFICES ASSUME NEW q \in Browsers, q # p PROVE FALSE
  BY DEF Lone
<1>1. IsFiniteSet(Browsers) /\ Cardinality(Browsers) \in Nat
  BY FS_CardinalityType, SensingAssumption
<1>2. IsFiniteSet({q}) /\ Cardinality({q}) = 1
  BY FS_Singleton
<1>3. IsFiniteSet({q} \cup {p}) /\ Cardinality({q} \cup {p}) = Cardinality({q}) + 1
  BY <1>2, FS_AddElement
<1>4. {q} \cup {p} \subseteq Browsers
  OBVIOUS
<1>5. Cardinality({q} \cup {p}) <= Cardinality(Browsers)
  BY <1>1, <1>4, FS_Subset
<1> QED
  BY <1>1, <1>2, <1>3, <1>5

LEMMA NothingAfterOne == ASSUME NEW m \in Nat, m - 1 = 0 PROVE m = 1
OBVIOUS

\* A queue without its head ends as it did, unless that was all of it.
LEMMA TheRestEndsTheSame ==
  ASSUME NEW S, NEW q \in Seq(S), q # <<>>
  PROVE  /\ Tail(q) \in Seq(S) /\ Len(Tail(q)) = Len(q) - 1
         /\ Len(q) \in Nat \ {0} /\ Head(q) \in S
         /\ Tail(q) # <<>> => Tail(q)[Len(Tail(q))] = q[Len(q)]
         /\ Tail(q) = <<>> => Head(q) = q[Len(q)]
<1>1. Tail(q) \in Seq(S) /\ Head(q) \in S /\ Len(Tail(q)) = Len(q) - 1
  BY HeadTailProperties
<1>2. \A i \in 1..Len(Tail(q)) : Tail(q)[i] = q[i + 1]
  BY HeadTailProperties
<1>3. Len(q) \in Nat \ {0} /\ Len(Tail(q)) \in Nat
  BY <1>1, EmptySeq, LenProperties
<1>4. ASSUME Tail(q) # <<>> PROVE Tail(q)[Len(Tail(q))] = q[Len(q)]
  <2>1. Len(Tail(q)) \in 1..Len(Tail(q))
    BY <1>1, <1>3, <1>4, EmptySeq
  <2>2. Len(Tail(q)) + 1 = Len(q)
    BY <1>1, <1>3
  <2> QED
    BY <1>2, <2>1, <2>2
<1>5. ASSUME Tail(q) = <<>> PROVE Head(q) = q[Len(q)]
  <2>1. Len(Tail(q)) = 0
    BY <1>1, <1>5, EmptySeq
  <2>2. Len(q) = 1
    BY <1>1, <1>3, <2>1, NothingAfterOne
  <2> QED
    BY <2>2
<1> QED
  BY <1>1, <1>3, <1>4, <1>5

----
(* A declaration folded keeps the belief at everybody's last word *)

LEMMA FoldKeeps ==
  ASSUME BeliefFits, NEW name \in Names, NEW layers \in SUBSET Layers,
         Fold(name, layers), heard' = [heard EXCEPT ![name] = layers]
  PROVE  /\ BeliefFits'
         /\ name \in DOMAIN sensing' => sensing'[name] = layers
         /\ \A n \in Names \ {name} :
              /\ n \in DOMAIN sensing' <=> n \in DOMAIN sensing
              /\ n \in DOMAIN sensing => sensing'[n] = sensing[n]
<1> USE DEF BeliefFits
<1>1. /\ heard' \in [Names -> SUBSET Layers] /\ heard'[name] = layers
      /\ \A n \in Names \ {name} : heard'[n] = heard[n]
  OBVIOUS
<1>2. IsFiniteSet(DOMAIN sensing) /\ Cardinality(DOMAIN sensing) \in Nat
  BY NamesAreFew
<1>3. CASE layers = {}
  <2>1. sensing' = Without(sensing, name)
    BY <1>3 DEF Fold
  <2>2. /\ DOMAIN sensing' = DOMAIN sensing \ {name}
        /\ \A n \in DOMAIN sensing' : sensing'[n] = sensing[n]
    BY <2>1 DEF Without
  <2>3. DOMAIN sensing' \subseteq DOMAIN sensing
    BY <2>2
  <2>4. Cardinality(DOMAIN sensing') <= Cardinality(DOMAIN sensing)
        /\ Cardinality(DOMAIN sensing') \in Nat
    BY <1>2, <2>3, FS_Subset, NamesAreFew
  <2>5. Cardinality(DOMAIN sensing') <= MaxSensors
    BY <1>2, <2>4, SensingAssumption
  <2> QED
    BY <1>1, <2>2, <2>3, <2>5
<1>4. CASE layers # {} /\ Room(name)
  <2>1. sensing' = [n \in DOMAIN sensing \cup {name} |->
                      IF n = name THEN layers ELSE sensing[n]]
    BY <1>4 DEF Fold
  <2>2. /\ DOMAIN sensing' = DOMAIN sensing \cup {name}
        /\ sensing'[name] = layers
        /\ \A n \in DOMAIN sensing \ {name} : sensing'[n] = sensing[n]
    BY <2>1
  <2>3. Cardinality(DOMAIN sensing') <= MaxSensors
    <3>1. CASE name \in DOMAIN sensing
      <4>1. DOMAIN sensing' = DOMAIN sensing
        BY <2>2, <3>1
      <4> QED
        BY <4>1
    <3>2. CASE name \notin DOMAIN sensing
      <4>1. Cardinality(DOMAIN sensing \cup {name}) = Cardinality(DOMAIN sensing) + 1
        BY <1>2, <3>2, FS_AddElement
      <4>2. Cardinality(DOMAIN sensing) < MaxSensors
        BY <1>4, <3>2 DEF Room
      <4> QED
        BY <1>2, <2>2, <4>1, <4>2, SensingAssumption
    <3> QED
      BY <3>1, <3>2
  <2> QED
    BY <1>1, <1>4, <2>2, <2>3
<1>5. CASE layers # {} /\ ~Room(name)
  <2>1. sensing' = sensing
    BY <1>5 DEF Fold
  <2>2. name \notin DOMAIN sensing
    BY <1>5 DEF Room
  <2> QED
    BY <1>1, <2>1, <2>2
<1> QED
  BY <1>3, <1>4, <1>5

----
(* Every step keeps the invariant *)

LEMMA InvariantHoldsAtFirst == Init => SensingInv
<1> SUFFICES ASSUME Init PROVE SensingInv
  OBVIOUS
<1>1. <<>> \in Seq(SUBSET Layers)
  OBVIOUS
<1>2. ProcessesFit
  <2>1. Len(<<>>) <= MaxOutbox
    BY SensingAssumption
  <2> QED
    BY <1>1, <2>1 DEF Init, ProcessesFit, Senses, Layers
<1>3. DOMAIN sensing = {}
  BY DEF Init
<1>4. BeliefFits
  <2>1. Cardinality({}) = 0
    BY FS_EmptySet
  <2>2. Cardinality(DOMAIN sensing) <= MaxSensors
    BY <1>3, <2>1, SensingAssumption
  <2> QED
    BY <1>3, <2>2 DEF Init, BeliefFits
<1>5. LoneBrowserFits
  BY <1>3 DEF Init, LoneBrowserFits, LastWordOf, Lone, Processes
<1> QED
  BY <1>2, <1>4, <1>5 DEF SensingInv

LEMMA SensesAreLayers == \A p \in Processes : Senses(p) \subseteq SUBSET Layers
BY DEF Processes, Senses, Layers

\* A declaration is the last word of the process that makes it, and nobody else's.
LEMMA DeclaresKeeps ==
  ASSUME SensingInv, NEW p \in Processes, NEW layers \in Senses(p), Declares(p, layers)
  PROVE  SensingInv'
<1> USE DEF Declares, SensingInv
<1>1. layers \in SUBSET Layers
  BY SensesAreLayers
<1>2. /\ outbox[p] \in Seq(SUBSET Layers) /\ Len(outbox[p]) \in Nat
      /\ Len(outbox[p]) < MaxOutbox
  BY LenProperties DEF ProcessesFit
<1>3. /\ Append(outbox[p], layers) \in Seq(SUBSET Layers)
      /\ Len(Append(outbox[p], layers)) = Len(outbox[p]) + 1
      /\ Append(outbox[p], layers)[Len(outbox[p]) + 1] = layers
  BY <1>1, <1>2, AppendProperties
<1>4. /\ outbox' \in [Processes -> Seq(SUBSET Layers)]
      /\ outbox'[p] = Append(outbox[p], layers)
      /\ \A q \in Processes \ {p} : outbox'[q] = outbox[q]
  BY <1>3 DEF ProcessesFit
<1>5. /\ observes' \in [Processes -> SUBSET Layers]
      /\ observes'[p] = layers
      /\ \A q \in Processes \ {p} : observes'[q] = observes[q]
  BY <1>1 DEF ProcessesFit
<1>6. Len(outbox'[p]) <= MaxOutbox
  BY <1>2, <1>3, <1>4, SensingAssumption
<1>7. ProcessesFit'
  <2>1. \A q \in Processes : observes'[q] \in Senses(q)
    BY <1>5 DEF ProcessesFit
  <2>2. \A q \in Processes : Len(outbox'[q]) <= MaxOutbox
    BY <1>4, <1>6 DEF ProcessesFit
  <2> QED
    BY <1>4, <1>5, <2>1, <2>2 DEF ProcessesFit, Senses
<1>8. BeliefFits'
  BY DEF BeliefFits
<1>9. LoneBrowserFits'
  <2> SUFFICES ASSUME NEW q \in Browsers, Lone(q) PROVE LastWordOf(q)'
    BY DEF LoneBrowserFits, Lone
  <2>1. q \in Processes
    BY DEF Processes
  <2>2. LastWordOf(q)
    BY DEF LoneBrowserFits
  <2>3. CASE q = p
    <3>1. outbox'[q] # <<>>
      BY <1>2, <1>3, <1>4, <2>3, EmptySeq
    <3>2. outbox'[q][Len(outbox'[q])] = observes'[q]
      BY <1>3, <1>4, <1>5, <2>3
    <3> QED
      BY <3>1, <3>2 DEF LastWordOf
  <2>4. CASE q # p
    BY <1>4, <1>5, <2>1, <2>2, <2>4 DEF LastWordOf
  <2> QED
    BY <2>3, <2>4
<1> QED
  BY <1>7, <1>8, <1>9

\* What an agent stops observing or saying is no browser's word.
LEMMA AgentKeeps ==
  ASSUME SensingInv, NEW p \in Agents, ReaderStops(p) \/ AgentStops(p)
  PROVE  SensingInv'
<1> USE DEF SensingInv
<1>1. p \in Processes /\ p \notin Browsers
  BY SensingAssumption DEF Processes
<1>2. BeliefFits' /\ UNCHANGED <<missed, sensing>>
  BY DEF BeliefFits, ReaderStops, AgentStops
<1>3. PICK layers \in Senses(p) : observes' = [observes EXCEPT ![p] = layers]
  <2>1. observes[p] \in Senses(p)
    BY <1>1 DEF ProcessesFit
  <2>2. {} \in Senses(p) /\ observes[p] \ {Windows, Screen} \in Senses(p)
    BY <2>1 DEF Senses
  <2> QED
    BY <2>2 DEF ReaderStops, AgentStops
<1>4. /\ outbox' \in [Processes -> Seq(SUBSET Layers)]
      /\ \A q \in Processes : outbox'[q] = outbox[q] \/ (q = p /\ outbox'[q] = <<>>)
  <2>1. CASE ReaderStops(p)
    BY <2>1 DEF ProcessesFit, ReaderStops
  <2>2. CASE AgentStops(p)
    <3>1. <<>> \in Seq(SUBSET Layers)
      OBVIOUS
    <3>2. outbox' = [outbox EXCEPT ![p] = <<>>]
      BY <2>2 DEF AgentStops
    <3> QED
      BY <1>1, <3>1, <3>2 DEF ProcessesFit
  <2> QED
    BY <2>1, <2>2
<1>5. ProcessesFit'
  <2>1. layers \in SUBSET Layers
    BY <1>1, SensesAreLayers
  <2>2. /\ observes' \in [Processes -> SUBSET Layers]
        /\ \A q \in Processes : observes'[q] \in Senses(q)
    BY <1>1, <1>3, <2>1 DEF ProcessesFit
  <2>3. Len(<<>>) <= MaxOutbox
    BY SensingAssumption
  <2>4. \A q \in Processes : Len(outbox'[q]) <= MaxOutbox
    BY <1>4, <2>3 DEF ProcessesFit
  <2> QED
    BY <1>2, <1>4, <2>2, <2>4 DEF ProcessesFit, Senses
<1>6. LoneBrowserFits'
  <2> SUFFICES ASSUME NEW q \in Browsers, Lone(q) PROVE LastWordOf(q)'
    BY DEF LoneBrowserFits, Lone
  <2>1. q # p /\ q \in Processes
    BY <1>1 DEF Processes
  <2>2. outbox'[q] = outbox[q] /\ observes'[q] = observes[q]
    BY <1>3, <1>4, <2>1 DEF ProcessesFit
  <2> QED
    BY <1>2, <2>2 DEF LoneBrowserFits, LastWordOf
<1> QED
  BY <1>2, <1>5, <1>6

\* A queue that loses its head still ends with the last word, or held nothing else.
LEMMA HeadGoes ==
  ASSUME ProcessesFit, NEW p \in Processes, outbox[p] # <<>>,
         outbox' = [outbox EXCEPT ![p] = Tail(@)], UNCHANGED observes, missed' \subseteq Processes
  PROVE  /\ ProcessesFit' /\ Head(outbox[p]) \in SUBSET Layers
         /\ \A q \in Processes \ {p} : outbox'[q] = outbox[q]
         /\ outbox'[p] # <<>> => outbox'[p][Len(outbox'[p])] = outbox[p][Len(outbox[p])]
         /\ outbox'[p] = <<>> => Head(outbox[p]) = outbox[p][Len(outbox[p])]
<1> USE DEF ProcessesFit
<1>1. outbox[p] \in Seq(SUBSET Layers)
  OBVIOUS
<1>2. /\ Tail(outbox[p]) \in Seq(SUBSET Layers)
      /\ Len(Tail(outbox[p])) = Len(outbox[p]) - 1
      /\ Len(outbox[p]) \in Nat \ {0} /\ Head(outbox[p]) \in SUBSET Layers
      /\ Tail(outbox[p]) # <<>> => Tail(outbox[p])[Len(Tail(outbox[p]))] = outbox[p][Len(outbox[p])]
      /\ Tail(outbox[p]) = <<>> => Head(outbox[p]) = outbox[p][Len(outbox[p])]
  BY <1>1, TheRestEndsTheSame
<1>3. /\ outbox' \in [Processes -> Seq(SUBSET Layers)]
      /\ outbox'[p] = Tail(outbox[p])
      /\ \A q \in Processes \ {p} : outbox'[q] = outbox[q]
  BY <1>2
<1>4. Len(Tail(outbox[p])) <= MaxOutbox
  BY <1>2, SensingAssumption
<1>5. \A q \in Processes : Len(outbox'[q]) <= MaxOutbox
  BY <1>3, <1>4
<1> QED
  BY <1>2, <1>3, <1>5 DEF Senses

LEMMA ArrivesKeeps ==
  ASSUME SensingInv, NEW p \in Processes, Arrives(p)
  PROVE  SensingInv'
<1> DEFINE said == Head(outbox[p])
<1> USE DEF SensingInv
<1>1. /\ ProcessesFit' /\ said \in SUBSET Layers
      /\ \A q \in Processes \ {p} : outbox'[q] = outbox[q]
      /\ outbox'[p] # <<>> => outbox'[p][Len(outbox'[p])] = outbox[p][Len(outbox[p])]
      /\ outbox'[p] = <<>> => said = outbox[p][Len(outbox[p])]
  BY HeadGoes DEF Arrives, ProcessesFit
<1>2. NameOf(p) \in Names
  BY DEF NameOf, Names
<1>3. Fold(NameOf(p), said) /\ heard' = [heard EXCEPT ![NameOf(p)] = said]
  BY DEF Arrives
<1> HIDE DEF said
<1>4. /\ BeliefFits'
      /\ NameOf(p) \in DOMAIN sensing' => sensing'[NameOf(p)] = said
      /\ \A n \in Names \ {NameOf(p)} :
           /\ n \in DOMAIN sensing' <=> n \in DOMAIN sensing
           /\ n \in DOMAIN sensing => sensing'[n] = sensing[n]
  BY <1>1, <1>2, <1>3, FoldKeeps
<1>5. LoneBrowserFits'
  <2> SUFFICES ASSUME NEW q \in Browsers, Lone(q) PROVE LastWordOf(q)'
    BY DEF LoneBrowserFits, Lone
  <2>1. q \in Processes /\ observes' = observes /\ LastWordOf(q)
    BY DEF Processes, LoneBrowserFits, Arrives
  <2>2. missed' = missed \ {p} /\ outbox[p] # <<>>
    BY DEF Arrives
  <2>3. CASE q = p
    <3>1. NameOf(p) = Extension
      BY <2>3, SensingAssumption DEF NameOf
    <3>2. outbox[p][Len(outbox[p])] = observes[p]
      BY <2>1, <2>2, <2>3 DEF LastWordOf
    <3> QED
      BY <1>1, <1>4, <2>1, <2>3, <3>1, <3>2 DEF LastWordOf
  <2>4. CASE q # p
    <3>1. p \notin Browsers /\ NameOf(p) = Agent
      BY <2>4 DEF Lone, NameOf, Processes
    <3>2. Extension \in Names \ {NameOf(p)}
      BY <3>1, SensingAssumption DEF Names
    <3>3. outbox'[q] = outbox[q] /\ (q \in missed' <=> q \in missed)
      BY <1>1, <2>1, <2>2, <2>4
    <3>4. /\ Extension \in DOMAIN sensing' <=> Extension \in DOMAIN sensing
          /\ Extension \in DOMAIN sensing => sensing'[Extension] = sensing[Extension]
      BY <1>4, <3>2
    <3> QED
      BY <2>1, <3>3, <3>4 DEF LastWordOf
  <2> QED
    BY <2>3, <2>4
<1> QED
  BY <1>1, <1>4, <1>5

LEMMA IsLostKeeps ==
  ASSUME SensingInv, NEW p \in Processes, IsLost(p)
  PROVE  SensingInv'
<1> USE DEF SensingInv
<1>1. missed' = missed \cup {p} /\ outbox[p] # <<>> /\ UNCHANGED <<observes, sensing, heard>>
  BY DEF IsLost
<1>2. missed' \subseteq Processes
  BY <1>1 DEF ProcessesFit
<1>3. /\ ProcessesFit'
      /\ \A q \in Processes \ {p} : outbox'[q] = outbox[q]
      /\ outbox'[p] # <<>> => outbox'[p][Len(outbox'[p])] = outbox[p][Len(outbox[p])]
  BY <1>1, <1>2, HeadGoes DEF IsLost
<1>4. BeliefFits'
  BY <1>1 DEF BeliefFits
<1>5. LoneBrowserFits'
  <2> SUFFICES ASSUME NEW q \in Browsers, Lone(q) PROVE LastWordOf(q)'
    BY DEF LoneBrowserFits, Lone
  <2>1. q \in Processes /\ LastWordOf(q)
    BY DEF Processes, LoneBrowserFits
  <2>2. CASE q = p
    BY <1>1, <1>3, <2>1, <2>2 DEF LastWordOf
  <2>3. CASE q # p
    BY <1>1, <1>3, <2>1, <2>3 DEF LastWordOf
  <2> QED
    BY <2>2, <2>3
<1> QED
  BY <1>3, <1>4, <1>5

LEMMA PageOpensKeeps == SensingInv /\ PageOpens => SensingInv'
<1> SUFFICES ASSUME SensingInv, PageOpens PROVE SensingInv'
  OBVIOUS
<1> USE DEF SensingInv
<1>1. Web \in Names /\ {Tabs} \in SUBSET Layers /\ Extension \in Names \ {Web}
  BY SensingAssumption DEF Names, Layers
<1>2. Fold(Web, {Tabs}) /\ heard' = [heard EXCEPT ![Web] = {Tabs}]
  BY DEF PageOpens
<1>3. /\ BeliefFits'
      /\ \A n \in Names \ {Web} :
           /\ n \in DOMAIN sensing' <=> n \in DOMAIN sensing
           /\ n \in DOMAIN sensing => sensing'[n] = sensing[n]
  BY <1>1, <1>2, FoldKeeps
<1>4. ProcessesFit'
  BY DEF ProcessesFit, PageOpens, Senses
<1>5. LoneBrowserFits'
  <2> SUFFICES ASSUME NEW q \in Browsers, Lone(q) PROVE LastWordOf(q)'
    BY DEF LoneBrowserFits, Lone
  <2>1. LastWordOf(q) /\ UNCHANGED <<observes, outbox, missed>>
    BY DEF LoneBrowserFits, PageOpens
  <2> QED
    BY <1>1, <1>3, <2>1 DEF LastWordOf
<1> QED
  BY <1>3, <1>4, <1>5

LEMMA InvariantIsKept == SensingInv /\ [Next]_vars => SensingInv'
<1> SUFFICES ASSUME SensingInv, [Next]_vars PROVE SensingInv'
  OBVIOUS
<1>1. ASSUME NEW p \in Agents, AgentStarts(p) PROVE SensingInv'
  BY <1>1, DeclaresKeeps DEF AgentStarts, Processes
<1>2. ASSUME NEW p \in Browsers, ConsentChanges(p) PROVE SensingInv'
  BY <1>2, DeclaresKeeps DEF ConsentChanges, Says, Processes
<1>3. CASE UNCHANGED vars
  BY <1>3 DEF vars, SensingInv, ProcessesFit, BeliefFits, LoneBrowserFits, LastWordOf, Lone, Senses
<1> QED
  BY <1>1, <1>2, <1>3, AgentKeeps, ArrivesKeeps, IsLostKeeps, PageOpensKeeps DEF Next

\* The inductive invariant of Sensing: the belief is at everybody's last word, and a lone browser's
\* last word is what it observes.
THEOREM SensingInvariant == Spec => []SensingInv
BY InvariantHoldsAtFirst, InvariantIsKept, PTL DEF Spec

----
(* What follows *)

\* Nobody observes what it may not, and the belief keeps no more sensors than MAX_SENSORS.
THEOREM SensingTypeCorrect == Spec => []TypeOK
<1>1. SensingInv => TypeOK
  BY DEF SensingInv, ProcessesFit, BeliefFits, TypeOK
<1> QED
  BY <1>1, SensingInvariant, PTL

\* worldstate.ts: a sensor that is shown is shown at the last declaration taken from it, at the
\* ceiling of sensors too, and one that revoked its layers is not shown.
THEOREM TheLastWordIsShown == Spec => []ShownIsTheLastWord
<1>1. SensingInv => ShownIsTheLastWord
  BY DEF SensingInv, BeliefFits, ShownIsTheLastWord
<1> QED
  BY <1>1, SensingInvariant, PTL

\* background.ts: the one browser somebody has is shown as observing exactly what it observes,
\* once its declarations were taken, however often consent changed and whatever was lost.
THEOREM ABrowserIsShownTruly == Spec => []BrowserIsShownTruly
<1>1. SensingInv => BrowserIsShownTruly
  <2> SUFFICES ASSUME SensingInv, NEW p \in Browsers, outbox[p] = <<>>, p \notin missed,
                      Extension \in DOMAIN sensing, ~(Cardinality(Browsers) > 1)
               PROVE  sensing[Extension] = observes[p]
    BY DEF BrowserIsShownTruly
  <2>1. Lone(p)
    BY OneOrMore
  <2> QED
    BY <2>1 DEF SensingInv, LoneBrowserFits, LastWordOf
<1> QED
  BY <1>1, SensingInvariant, PTL

\* worldstate.ts: the indicator shows what each sensor said last, and of a browser that was
\* heard out exactly what it observes.
THEOREM TheIndicatorIsTrue == Spec => []IndicatorIsTrue
<1>1. ShownIsTheLastWord /\ BrowserIsShownTruly => IndicatorIsTrue
  BY DEF IndicatorIsTrue
<1> QED
  BY <1>1, TheLastWordIsShown, ABrowserIsShownTruly, PTL
=============================================================================
