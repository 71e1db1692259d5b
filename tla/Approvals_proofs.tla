-------------------------- MODULE Approvals_proofs --------------------------
(***************************************************************************)
(* Theorems about Approvals, for every set of ids, every ceiling and any   *)
(* number of questions.  That consent runs once rests on how the two maps  *)
(* fit: a plan that waits is of a question asked under its own id and not  *)
(* yet answered, and an approved record has no plan left.  At the end,     *)
(* theorems about the cards on which bodies are asked (Cards).             *)
(***************************************************************************)
EXTENDS MCDecisions, TLAPS, SequenceTheorems, FiniteSetTheorems, WellFoundedInduction

-----------------------------------------------------------------------------
(* The inductive invariant *)

OneRecordEach ==
  \A i, j \in 1..Len(records) : records[i].id = records[j].id => i = j

ApprovedHasNoPlan ==
  \A i \in 1..Len(records) :
    records[i].status = "approved" => plans[records[i].id] = NoPlan

PlansAreUnanswered ==
  \A id \in ApprovalIds :
    plans[id] # NoPlan =>
      /\ plans[id] \in 1..Len(questions)
      /\ questions[plans[id]] = id
      /\ plans[id] \notin approved \cup refused

AnsweredWereAsked == approved \cup refused \subseteq 1..Len(questions)

BothWithinCeiling ==
  /\ Len(records) <= MaxApprovals
  /\ Cardinality(Waiting(plans)) <= MaxApprovals

ConsentInv ==
  /\ TypeOK
  /\ OneRecordEach
  /\ PendingHasItsPlan
  /\ ApprovedHasNoPlan
  /\ PlansAreUnanswered
  /\ AnsweredWereAsked
  /\ ConsentRunsOnce
  /\ BothWithinCeiling

-----------------------------------------------------------------------------
(* Sequences and records *)

LEMMA FunctionIsSeq ==
  ASSUME NEW S, NEW n \in Nat, NEW f \in [1..n -> S]
  PROVE  f \in Seq(S) /\ Len(f) = n
<1>1. f \in Seq(S)
  BY SeqDef
<1> QED
  BY <1>1, LenProperties

LEMMA RemoveAtProperties ==
  ASSUME NEW S, NEW q \in Seq(S), NEW k \in 1..Len(q)
  PROVE  /\ RemoveAt(q, k) \in Seq(S)
         /\ Len(RemoveAt(q, k)) = Len(q) - 1
         /\ \A i \in 1..(Len(q) - 1) :
              RemoveAt(q, k)[i] = IF i < k THEN q[i] ELSE q[i + 1]
<1> DEFINE before == SubSeq(q, 1, k - 1)
           after == SubSeq(q, k + 1, Len(q))
<1>1. k \in Int /\ Len(q) \in Nat /\ \A i \in 1..Len(q) : q[i] \in S
  BY LenProperties, ElementOfSeq
<1>2. /\ before \in Seq(S) /\ Len(before) = k - 1
      /\ \A i \in 1..(k - 1) : before[i] = q[i]
  <2>1. \A i \in 1..(k - 1) : q[i] \in S
    BY <1>1
  <2> QED
    BY <1>1, <2>1, SubSeqProperties
<1>3. /\ after \in Seq(S) /\ Len(after) = Len(q) - k
      /\ \A i \in 1..(Len(q) - k) : after[i] = q[k + i]
  <2>1. \A i \in (k + 1)..Len(q) : q[i] \in S
    BY <1>1
  <2> QED
    BY <1>1, <2>1, SubSeqProperties
<1>4. RemoveAt(q, k) = before \o after
  BY DEF RemoveAt
<1> HIDE DEF before, after
<1>5. /\ before \o after \in Seq(S) /\ Len(before \o after) = Len(q) - 1
      /\ \A i \in 1..(Len(q) - 1) :
           (before \o after)[i] = IF i <= k - 1 THEN before[i] ELSE after[i - (k - 1)]
  <2>1. Len(before) + Len(after) = Len(q) - 1
    BY <1>1, <1>2, <1>3
  <2>2. before \in Seq(S) /\ after \in Seq(S)
    BY <1>2, <1>3
  <2>3. /\ before \o after \in Seq(S)
        /\ Len(before \o after) = Len(before) + Len(after)
        /\ \A i \in 1..(Len(before) + Len(after)) :
             (before \o after)[i] =
               IF i <= Len(before) THEN before[i] ELSE after[i - Len(before)]
    BY <2>2, ConcatProperties
  <2> QED
    BY <1>2, <2>1, <2>3
<1>6. ASSUME NEW i \in 1..(Len(q) - 1)
      PROVE  (before \o after)[i] = IF i < k THEN q[i] ELSE q[i + 1]
  <2>1. CASE i < k
    BY <1>1, <1>2, <1>5, <2>1
  <2>2. CASE ~(i < k)
    <3>1. i - (k - 1) \in 1..(Len(q) - k) /\ k + (i - (k - 1)) = i + 1
      BY <1>1, <2>2
    <3>2. after[i - (k - 1)] = q[i + 1]
      BY <1>3, <3>1
    <3> QED
      BY <1>1, <1>5, <2>2, <3>2
  <2> QED
    BY <2>1, <2>2
<1> QED
  BY <1>4, <1>5, <1>6

\* One record goes: the others stay, one for each id, and not the same id.
LEMMA OneRecordGoes ==
  ASSUME TypeOK, OneRecordEach, NEW k \in 1..Len(records)
  PROVE  LET rest == RemoveAt(records, k)
         IN  /\ rest \in Seq(Record)
             /\ Len(rest) = Len(records) - 1
             /\ \A i \in 1..Len(rest) :
                  \E j \in 1..Len(records) : j # k /\ rest[i] = records[j]
             /\ \A i, j \in 1..Len(rest) : rest[i].id = rest[j].id => i = j
             /\ \A j \in 1..Len(records) :
                  j # k => \E i \in 1..Len(rest) : rest[i] = records[j]
<1> DEFINE rest == RemoveAt(records, k)
<1>1. records \in Seq(Record) /\ Len(records) \in Nat /\ k \in Nat
  BY LenProperties DEF TypeOK
<1>2. /\ rest \in Seq(Record) /\ Len(rest) = Len(records) - 1
      /\ \A i \in 1..(Len(records) - 1) :
           rest[i] = IF i < k THEN records[i] ELSE records[i + 1]
  BY <1>1, RemoveAtProperties
<1> HIDE DEF rest
<1>3. ASSUME NEW i \in 1..Len(rest)
      PROVE  \E j \in 1..Len(records) : j # k /\ rest[i] = records[j]
  <2>1. CASE i < k
    BY <1>1, <1>2, <2>1
  <2>2. CASE ~(i < k)
    <3>1. i + 1 \in 1..Len(records) /\ i + 1 # k /\ rest[i] = records[i + 1]
      BY <1>1, <1>2, <2>2
    <3> QED
      BY <3>1
  <2> QED
    BY <2>1, <2>2
<1>4. ASSUME NEW i \in 1..Len(rest), NEW j \in 1..Len(rest), rest[i].id = rest[j].id
      PROVE  i = j
  <2> DEFINE from(n) == IF n < k THEN n ELSE n + 1
  <2>1. \A n \in 1..Len(rest) : from(n) \in 1..Len(records) /\ rest[n] = records[from(n)]
    BY <1>1, <1>2
  <2>2. records[from(i)].id = records[from(j)].id
    BY <1>4, <2>1
  <2>3. from(i) = from(j)
    BY <2>1, <2>2 DEF OneRecordEach
  <2> QED
    BY <1>1, <1>2, <2>3
<1>5. ASSUME NEW j \in 1..Len(records), j # k
      PROVE  \E i \in 1..Len(rest) : rest[i] = records[j]
  <2>1. CASE j < k
    BY <1>1, <1>2, <2>1
  <2>2. CASE ~(j < k)
    <3>1. j - 1 \in 1..Len(rest) /\ rest[j - 1] = records[j]
      BY <1>1, <1>2, <1>5, <2>2
    <3> QED
      BY <3>1
  <2> QED
    BY <2>1, <2>2
<1> QED
  BY <1>2, <1>3, <1>4, <1>5 DEF rest

LEMMA RecordType ==
  ASSUME TypeOK
  PROVE  /\ Len(records) \in Nat
         /\ \A i \in 1..Len(records) :
              /\ records[i] \in Record /\ records[i].id \in ApprovalIds
              /\ records[i].question \in Nat \ {0}
              /\ records[i].status \in {"pending", "approved"}
<1>1. records \in Seq(Record)
  BY DEF TypeOK
<1>2. Len(records) \in Nat /\ \A i \in 1..Len(records) : records[i] \in Record
  BY <1>1, LenProperties, ElementOfSeq
<1> QED
  BY <1>2 DEF Record

\* Where the record of an id is, and which question an answer to it decides.
LEMMA PlaceOfRecord ==
  ASSUME OneRecordEach, NEW id, Known(id)
  PROVE  Place(id) \in 1..Len(records) /\ records[Place(id)].id = id
                                       /\ Places(id) = {Place(id)}
  BY DEF OneRecordEach, Known, Place, Places

LEMMA OpenIsThePlan ==
  ASSUME OneRecordEach, PendingHasItsPlan, NEW id \in ApprovalIds
  PROVE  /\ Pending(id) => Open(id) = {plans[id]}
         /\ ~Pending(id) => Open(id) = {}
<1>1. ASSUME Pending(id) PROVE Open(id) = {plans[id]}
  <2>1. PICK i \in Places(id) : records[i].status = "pending"
    BY <1>1 DEF Pending
  <2>2. i \in 1..Len(records) /\ records[i].id = id /\ \A j \in Places(id) : j = i
    BY DEF Places, OneRecordEach
  <2>3. records[i].question = plans[id]
    BY <2>1, <2>2 DEF PendingHasItsPlan
  <2> QED
    BY <2>1, <2>2, <2>3 DEF Open
<1>2. ASSUME ~Pending(id) PROVE Open(id) = {}
  BY <1>2 DEF Pending, Open
<1> QED
  BY <1>1, <1>2

LEMMA DecidedRecords ==
  ASSUME TypeOK, NEW id \in ApprovalIds
  PROVE  LET answered == Decided(id, "approved")
         IN  /\ answered \in Seq(Record)
             /\ Len(answered) = Len(records)
             /\ \A i \in 1..Len(records) :
                  /\ answered[i].id = records[i].id
                  /\ answered[i].question = records[i].question
                  /\ answered[i].status = IF records[i].id = id THEN "approved"
                                          ELSE records[i].status
<1> DEFINE answered == Decided(id, "approved")
<1>1. \A i \in 1..Len(records) :
        /\ answered[i] \in Record
        /\ answered[i].id = records[i].id
        /\ answered[i].question = records[i].question
        /\ answered[i].status = IF records[i].id = id THEN "approved"
                                ELSE records[i].status
  <2> SUFFICES ASSUME NEW i \in 1..Len(records)
               PROVE  /\ answered[i] \in Record
                      /\ answered[i].id = records[i].id
                      /\ answered[i].question = records[i].question
                      /\ answered[i].status = IF records[i].id = id THEN "approved"
                                              ELSE records[i].status
    OBVIOUS
  <2>1. records[i] \in Record /\ records[i].status \in {"pending", "approved"}
    BY RecordType
  <2>2. answered[i] = IF records[i].id = id /\ records[i].status = "pending"
                      THEN [records[i] EXCEPT !.status = "approved"] ELSE records[i]
    BY DEF Decided, Places
  <2> HIDE DEF answered
  <2> QED
    BY <2>1, <2>2 DEF Record
<1>2. answered \in [1..Len(records) -> Record]
  BY <1>1 DEF Decided
<1> HIDE DEF answered
<1>3. answered \in Seq(Record) /\ Len(answered) = Len(records)
  BY <1>2, FunctionIsSeq, RecordType
<1> QED
  BY <1>1, <1>3 DEF answered

LEMMA LeastExists ==
  ASSUME NEW T \in SUBSET Nat, T # {}
  PROVE  \E i \in T : \A j \in T : i <= j
<1> DEFINE Below == {p \in Nat \X Nat : p[1] < p[2]}
<1>1. IsWellFoundedOn(Below, Nat)
  BY NatLessThanWellFounded DEF OpToRel
<1>4. \A j, k \in Nat : j < k => <<j, k>> \in Below
  OBVIOUS
<1> HIDE DEF Below
<1>2. PICK i \in T : \A j \in T : ~(<<j, i>> \in Below)
  BY <1>1, WFMin
<1>3. \A j \in T : i <= j
  <2> SUFFICES ASSUME NEW j \in T PROVE i <= j
    OBVIOUS
  <2>1. i \in Nat /\ j \in Nat
    OBVIOUS
  <2>2. ~(j < i)
    BY <1>4, <1>2, <2>1
  <2> QED
    BY <2>1, <2>2
<1> QED
  BY <1>3

\* What goes is decided if anything is.
LEMMA EvictedIsAPlace ==
  ASSUME TypeOK, Len(records) > 0
  PROVE  /\ Evicted \in 1..Len(records)
         /\ (\E i \in 1..Len(records) : records[i].status # "pending")
              => records[Evicted].status # "pending"
<1> DEFINE decided == {i \in 1..Len(records) : records[i].status # "pending"}
<1>1. Len(records) \in Nat
  BY RecordType
<1>2. CASE decided = {}
  BY <1>1, <1>2 DEF Evicted
<1>3. CASE decided # {}
  <2>1. decided \subseteq Nat
    OBVIOUS
  <2>2. \E i \in decided : \A j \in decided : i <= j
    BY <1>3, <2>1, LeastExists
  <2>3. Evicted = CHOOSE i \in decided : \A j \in decided : i <= j
    BY <1>3 DEF Evicted
  <2>4. Evicted \in decided
    BY <2>2, <2>3
  <2> QED
    BY <2>4
<1> QED
  BY <1>2, <1>3

-----------------------------------------------------------------------------
(* Sizes *)

LEMMA IdsOfSize ==
  ASSUME NEW rs \in Seq(Record)
  PROVE  /\ IsFiniteSet(IdsOf(rs))
         /\ Cardinality(IdsOf(rs)) <= Len(rs)
         /\ (\A i, j \in 1..Len(rs) : rs[i].id = rs[j].id => i = j)
              => Cardinality(IdsOf(rs)) = Len(rs)
<1> DEFINE f == [i \in 1..Len(rs) |-> rs[i].id]
<1>1. Len(rs) \in Nat
  BY LenProperties
<1>2. f \in Surjection(1..Len(rs), IdsOf(rs))
  BY DEF Surjection, IdsOf
<1>3. IsFiniteSet(1..Len(rs)) /\ Cardinality(1..Len(rs)) = Len(rs)
  BY <1>1, FS_Interval
<1>4. (\A i, j \in 1..Len(rs) : rs[i].id = rs[j].id => i = j)
        => f \in Injection(1..Len(rs), IdsOf(rs))
  BY DEF Injection, IsInjective, IdsOf
<1> HIDE DEF f
<1> QED
  BY <1>2, <1>3, <1>4, FS_Surjection

\* The sweep forgets plans, none of a question that has a record, and leaves no
\* more than the ceiling.
LEMMA SweptPlans ==
  ASSUME NEW ps \in [ApprovalIds -> Nat], NEW rs \in Seq(Record), Len(rs) <= MaxApprovals
  PROVE  /\ Swept(ps, rs) \in [ApprovalIds -> Nat]
         /\ \A id \in ApprovalIds : Swept(ps, rs)[id] # NoPlan => Swept(ps, rs)[id] = ps[id]
         /\ \A id \in ApprovalIds : id \in IdsOf(rs) => Swept(ps, rs)[id] = ps[id]
         /\ Cardinality(Waiting(Swept(ps, rs))) <= MaxApprovals
<1>1. IsFiniteSet(IdsOf(rs)) /\ Cardinality(IdsOf(rs)) <= Len(rs) /\ Len(rs) \in Nat
  BY IdsOfSize, LenProperties
<1>2. MaxApprovals \in Nat /\ Cardinality(Waiting(ps)) \in Nat
  <2>1. IsFiniteSet(ApprovalIds) /\ Waiting(ps) \subseteq ApprovalIds
    BY ApprovalsAssumption DEF Waiting
  <2> QED
    BY <2>1, FS_Subset, FS_CardinalityType, ApprovalsAssumption
<1>3. CASE Cardinality(Waiting(ps)) > MaxApprovals
  <2>1. Swept(ps, rs) = [id \in ApprovalIds |-> IF id \in IdsOf(rs) THEN ps[id] ELSE NoPlan]
    BY <1>3 DEF Swept
  <2>2. Waiting(Swept(ps, rs)) \subseteq IdsOf(rs)
    BY <2>1 DEF Waiting
  <2>3. /\ Cardinality(Waiting(Swept(ps, rs))) <= Cardinality(IdsOf(rs))
        /\ Cardinality(Waiting(Swept(ps, rs))) \in Nat
        /\ Cardinality(IdsOf(rs)) \in Nat
    BY <1>1, <2>2, FS_Subset, FS_CardinalityType
  <2> QED
    BY <1>1, <1>2, <2>1, <2>3 DEF NoPlan
<1>4. CASE ~(Cardinality(Waiting(ps)) > MaxApprovals)
  BY <1>2, <1>4 DEF Swept
<1> QED
  BY <1>3, <1>4

\* A plan more or less.
LEMMA NoPlanMore ==
  ASSUME NEW ps \in [ApprovalIds -> Nat], NEW id \in ApprovalIds,
         Cardinality(Waiting(ps)) <= MaxApprovals
  PROVE  Cardinality(Waiting([ps EXCEPT ![id] = NoPlan])) <= MaxApprovals
<1>1. Waiting([ps EXCEPT ![id] = NoPlan]) \subseteq Waiting(ps)
  BY DEF Waiting, NoPlan
<1>2. IsFiniteSet(Waiting(ps))
  BY ApprovalsAssumption, FS_Subset DEF Waiting
<1>3. /\ Cardinality(Waiting([ps EXCEPT ![id] = NoPlan])) <= Cardinality(Waiting(ps))
      /\ Cardinality(Waiting([ps EXCEPT ![id] = NoPlan])) \in Nat
      /\ Cardinality(Waiting(ps)) \in Nat
  BY <1>1, <1>2, FS_Subset, FS_CardinalityType
<1> QED
  BY <1>3, ApprovalsAssumption

-----------------------------------------------------------------------------
(* The actions keep the invariant *)

LEMMA QuestionType ==
  ASSUME TypeOK
  PROVE  /\ Len(questions) \in Nat
         /\ plans \in [ApprovalIds -> Nat]
         /\ \A i \in 1..Len(questions) : questions[i] \in ApprovalIds
  BY LenProperties, ElementOfSeq DEF TypeOK

\* Room is made before a question is asked.
LEMMA RoomIsMade ==
  ASSUME ConsentInv
  PROVE  LET base == IF Len(records) >= MaxApprovals
                     THEN RemoveAt(records, Evicted) ELSE records
         IN  /\ base \in Seq(Record) /\ Len(base) + 1 <= MaxApprovals
             /\ \A i \in 1..Len(base) : \E j \in 1..Len(records) : base[i] = records[j]
             /\ \A i, j \in 1..Len(base) : base[i].id = base[j].id => i = j
<1>1. /\ TypeOK /\ OneRecordEach /\ records \in Seq(Record)
      /\ Len(records) <= MaxApprovals /\ Len(records) \in Nat /\ MaxApprovals \in Nat \ {0}
  BY ApprovalsAssumption, LenProperties DEF ConsentInv, TypeOK, BothWithinCeiling
<1>2. CASE Len(records) >= MaxApprovals
  <2>1. Evicted \in 1..Len(records)
    BY <1>1, <1>2, EvictedIsAPlace
  <2>2. Len(RemoveAt(records, Evicted)) = Len(records) - 1
    BY <1>1, <2>1, OneRecordGoes
  <2> QED
    BY <1>1, <1>2, <2>1, <2>2, OneRecordGoes
<1>3. CASE ~(Len(records) >= MaxApprovals)
  BY <1>1, <1>3 DEF OneRecordEach
<1> QED
  BY <1>2, <1>3

LEMMA AskKeepsInv ==
  ASSUME ConsentInv, NEW id \in ApprovalIds, Ask(id)
  PROVE  ConsentInv'
<1> DEFINE n == Len(questions) + 1
           base == IF Len(records) >= MaxApprovals
                   THEN RemoveAt(records, Evicted) ELSE records
           created == [id |-> id, question |-> n, status |-> "pending"]
           ps == [plans EXCEPT ![id] = n]
<1>1. /\ ~Known(id) /\ records' = Append(base, created) /\ plans' = Swept(ps, records')
      /\ questions' = Append(questions, id)
      /\ UNCHANGED <<approved, refused, runs>>
  BY DEF Ask, Created
<1>2. /\ base \in Seq(Record) /\ Len(base) + 1 <= MaxApprovals /\ Len(base) \in Nat
      /\ \A i \in 1..Len(base) : \E j \in 1..Len(records) : base[i] = records[j]
      /\ \A i, j \in 1..Len(base) : base[i].id = base[j].id => i = j
  BY RoomIsMade, LenProperties
<1>3. /\ Len(questions) \in Nat /\ n \in Nat \ {0} /\ plans \in [ApprovalIds -> Nat]
      /\ created \in Record /\ ps \in [ApprovalIds -> Nat]
  BY QuestionType DEF ConsentInv, Record
<1>4. \A j \in 1..Len(records) : records[j].id # id
  BY <1>1 DEF Known, Places
<1> HIDE DEF base
<1>5. /\ records' \in Seq(Record) /\ Len(records') = Len(base) + 1
      /\ \A i \in 1..Len(base) : records'[i] = base[i]
      /\ records'[Len(base) + 1] = created
  BY <1>1, <1>2, <1>3, AppendProperties
<1>6. \A i \in 1..Len(records') :
        \/ i = Len(base) + 1 /\ records'[i] = created
        \/ /\ i \in 1..Len(base)
           /\ \E j \in 1..Len(records) : records'[i] = records[j] /\ base[i] = records[j]
  BY <1>2, <1>5
<1>7. /\ plans' \in [ApprovalIds -> Nat]
      /\ \A x \in ApprovalIds : plans'[x] # NoPlan => plans'[x] = ps[x]
      /\ \A i \in 1..Len(records') : plans'[records'[i].id] = ps[records'[i].id]
      /\ Cardinality(Waiting(plans')) <= MaxApprovals
  <2>1. \A i \in 1..Len(records') : records'[i].id \in ApprovalIds /\ records'[i].id \in IdsOf(records')
    <3>1. \A i \in 1..Len(records') : records'[i] \in Record
      BY <1>5, ElementOfSeq
    <3> QED
      BY <3>1 DEF IdsOf, Record
  <2> HIDE DEF ps
  <2>2. Len(records') <= MaxApprovals
    BY <1>2, <1>5
  <2> QED
    BY <1>1, <1>3, <1>5, <2>1, <2>2, SweptPlans
<1>8. /\ questions' \in Seq(ApprovalIds) /\ Len(questions') = n /\ questions'[n] = id
      /\ \A i \in 1..Len(questions) : questions'[i] = questions[i]
  BY <1>1, AppendProperties DEF ConsentInv, TypeOK
<1>9. TypeOK'
  BY <1>1, <1>5, <1>7, <1>8 DEF ConsentInv, TypeOK
<1>10. OneRecordEach'
  <2> SUFFICES ASSUME NEW i \in 1..Len(records'), NEW j \in 1..Len(records'),
                      records'[i].id = records'[j].id
               PROVE  i = j
    BY DEF OneRecordEach
  <2>1. \A k \in 1..Len(base) : base[k].id # id
    BY <1>2, <1>4
  <2>2. \A k \in 1..Len(records') : k \in 1..Len(base) \/ k = Len(base) + 1
    BY <1>6
  <2>3. created.id = id
    OBVIOUS
  <2> HIDE DEF created
  <2>4. CASE i \in 1..Len(base) /\ j \in 1..Len(base)
    BY <1>2, <1>5, <2>4
  <2>5. CASE i = Len(base) + 1 /\ j = Len(base) + 1
    BY <2>5
  <2>6. CASE i \in 1..Len(base) /\ j = Len(base) + 1
    BY <1>5, <2>1, <2>3, <2>6
  <2>7. CASE i = Len(base) + 1 /\ j \in 1..Len(base)
    BY <1>5, <2>1, <2>3, <2>7
  <2> QED
    BY <2>2, <2>4, <2>5, <2>6, <2>7
<1>11. \A i \in 1..Len(records') :
         \/ records'[i] = created /\ plans'[id] = n
         \/ \E j \in 1..Len(records) :
              records'[i] = records[j] /\ plans'[records[j].id] = plans[records[j].id]
  <2> SUFFICES ASSUME NEW i \in 1..Len(records')
               PROVE  \/ records'[i] = created /\ plans'[id] = n
                      \/ \E j \in 1..Len(records) :
                           /\ records'[i] = records[j]
                           /\ plans'[records[j].id] = plans[records[j].id]
    OBVIOUS
  <2>1. CASE records'[i] = created
    BY <1>3, <1>7, <2>1
  <2>2. ASSUME NEW j \in 1..Len(records), records'[i] = records[j]
        PROVE  plans'[records[j].id] = plans[records[j].id]
    <3>1. records[j].id # id /\ records[j].id \in ApprovalIds
      BY <1>4, RecordType DEF ConsentInv
    <3> QED
      BY <1>3, <1>7, <2>2, <3>1
  <2> QED
    BY <1>6, <2>1, <2>2
<1>12. PendingHasItsPlan' /\ ApprovedHasNoPlan'
  BY <1>11 DEF ConsentInv, PendingHasItsPlan, ApprovedHasNoPlan
<1>13. PlansAreUnanswered'
  <2> SUFFICES ASSUME NEW x \in ApprovalIds, plans'[x] # NoPlan
               PROVE  /\ plans'[x] \in 1..Len(questions')
                      /\ questions'[plans'[x]] = x
                      /\ plans'[x] \notin approved' \cup refused'
    BY DEF PlansAreUnanswered
  <2>1. plans'[x] = ps[x]
    BY <1>7
  <2>2. CASE x = id
    <3>1. plans'[x] = n
      BY <1>3, <2>1, <2>2
    <3> QED
      BY <1>1, <1>3, <1>8, <2>2, <3>1 DEF ConsentInv, AnsweredWereAsked
  <2>3. CASE x # id
    <3>1. plans'[x] = plans[x]
      BY <1>3, <2>1, <2>3
    <3> QED
      BY <1>1, <1>3, <1>8, <3>1 DEF ConsentInv, PlansAreUnanswered
  <2> QED
    BY <2>2, <2>3
<1>14. AnsweredWereAsked'
  BY <1>1, <1>3, <1>8 DEF ConsentInv, AnsweredWereAsked
<1>15. ConsentRunsOnce'
  BY <1>1 DEF ConsentInv, ConsentRunsOnce
<1>16. BothWithinCeiling'
  BY <1>2, <1>5, <1>7 DEF BothWithinCeiling, Waiting
<1> QED
  BY <1>9, <1>10, <1>12, <1>13, <1>14, <1>15, <1>16 DEF ConsentInv

\* What is asked is not yet answered, so a plan that runs runs for the first time.
LEMMA RunsOnceMore ==
  ASSUME ConsentInv, NEW n \in Nat, n \notin approved \cup refused,
         approved' = approved \cup {n}, runs' = Append(runs, n), refused' = refused
  PROVE  ConsentRunsOnce' /\ runs' \in Seq(Nat)
<1>1. /\ runs \in Seq(Nat) /\ Len(runs) \in Nat
      /\ ToSet(runs) = {runs[i] : i \in 1..Len(runs)}
  BY LenProperties DEF ConsentInv, TypeOK, ToSet
<1>2. /\ runs' \in Seq(Nat) /\ Len(runs') = Len(runs) + 1
      /\ \A i \in 1..Len(runs) : runs'[i] = runs[i]
      /\ runs'[Len(runs) + 1] = n
  BY <1>1, AppendProperties
<1>3. DOMAIN runs' = 1..Len(runs')
  BY <1>2, LenProperties
<1>4. ToSet(runs') = ToSet(runs) \cup {n}
  <2>1. ToSet(runs') = {runs'[i] : i \in 1..Len(runs')}
    BY <1>3 DEF ToSet
  <2>2. \A i \in 1..Len(runs') : i \in 1..Len(runs) \/ i = Len(runs) + 1
    BY <1>1, <1>2
  <2>3. Len(runs) + 1 \in 1..Len(runs') /\ 1..Len(runs) \subseteq 1..Len(runs')
    BY <1>1, <1>2
  <2> QED
    BY <1>1, <1>2, <2>1, <2>2, <2>3
<1>5. \A i \in 1..Len(runs) : runs[i] # n
  BY <1>1 DEF ConsentInv, ConsentRunsOnce
<1>6. \A i, j \in 1..Len(runs') : runs'[i] = runs'[j] => i = j
  <2> SUFFICES ASSUME NEW i \in 1..Len(runs'), NEW j \in 1..Len(runs'),
                      runs'[i] = runs'[j]
               PROVE  i = j
    OBVIOUS
  <2>1. CASE i \in 1..Len(runs) /\ j \in 1..Len(runs)
    BY <1>2, <2>1 DEF ConsentInv, ConsentRunsOnce
  <2>2. CASE i = Len(runs) + 1 \/ j = Len(runs) + 1
    BY <1>1, <1>2, <1>5, <2>2
  <2> QED
    BY <1>1, <1>2, <2>1, <2>2
<1> QED
  BY <1>2, <1>4, <1>6 DEF ConsentInv, ConsentRunsOnce

LEMMA ApproveKeepsInv ==
  ASSUME ConsentInv, NEW id \in ApprovalIds, Approve(id)
  PROVE  ConsentInv'
<1>1. /\ approved' = approved \cup Open(id)
      /\ records' = Decided(id, "approved")
      /\ UNCHANGED <<questions, refused>>
  BY DEF Approve
<1>2. /\ Len(records') = Len(records) /\ Len(records) \in Nat /\ records' \in Seq(Record)
      /\ \A i \in 1..Len(records) :
           /\ records'[i].id = records[i].id
           /\ records'[i].question = records[i].question
           /\ records'[i].status = IF records[i].id = id THEN "approved"
                                   ELSE records[i].status
           /\ records[i].id \in ApprovalIds
           /\ records[i].status \in {"pending", "approved"}
  BY <1>1, DecidedRecords, RecordType DEF ConsentInv
<1>3. plans \in [ApprovalIds -> Nat] /\ Len(questions) \in Nat
  BY QuestionType DEF ConsentInv
<1>4. OneRecordEach'
  BY <1>2 DEF ConsentInv, OneRecordEach
<1>5. CASE plans[id] # NoPlan /\ Known(id)
  <2>1. runs' = Append(runs, plans[id]) /\ plans' = [plans EXCEPT ![id] = NoPlan]
    BY <1>5 DEF Approve
  <2>2. Pending(id)
    <3>1. PICK i \in 1..Len(records) : records[i].id = id
      BY <1>5 DEF Known, Places
    <3>2. records[i].status = "pending"
      BY <1>2, <1>5, <3>1 DEF ConsentInv, ApprovedHasNoPlan
    <3> QED
      BY <3>1, <3>2 DEF Pending, Places
  <2>3. Open(id) = {plans[id]}
    BY <2>2, OpenIsThePlan DEF ConsentInv
  <2>4. plans[id] \in 1..Len(questions) /\ plans[id] \notin approved \cup refused
    BY <1>5 DEF ConsentInv, PlansAreUnanswered
  <2>5. ConsentRunsOnce' /\ runs' \in Seq(Nat)
    BY <1>1, <1>3, <2>1, <2>3, <2>4, RunsOnceMore
  <2>6. /\ plans' \in [ApprovalIds -> Nat] /\ plans'[id] = NoPlan
        /\ \A x \in ApprovalIds : x # id => plans'[x] = plans[x]
    BY <1>3, <2>1 DEF NoPlan
  <2>7. TypeOK'
    <3>1. /\ approved \subseteq Nat /\ refused \subseteq Nat /\ questions \in Seq(ApprovalIds)
      BY DEF ConsentInv, TypeOK
    <3>2. approved' \subseteq Nat /\ refused' \subseteq Nat /\ questions' \in Seq(ApprovalIds)
      BY <1>1, <1>3, <2>3, <3>1
    <3> QED
      BY <1>2, <2>5, <2>6, <3>2 DEF TypeOK
  <2>8. PendingHasItsPlan' /\ ApprovedHasNoPlan'
    <3> SUFFICES ASSUME NEW i \in 1..Len(records')
                 PROVE  /\ records'[i].status = "pending" =>
                             plans'[records'[i].id] = records'[i].question
                        /\ records'[i].status = "approved" =>
                             plans'[records'[i].id] = NoPlan
      BY DEF PendingHasItsPlan, ApprovedHasNoPlan
    <3>1. i \in 1..Len(records) /\ records[i].id \in ApprovalIds /\ records'[i].id = records[i].id
      BY <1>2
    <3>2. CASE records[i].id = id
      BY <1>2, <2>6, <3>1, <3>2
    <3>3. CASE records[i].id # id
      <4>1. /\ records'[i].status = records[i].status
            /\ records'[i].question = records[i].question
            /\ plans'[records[i].id] = plans[records[i].id]
        BY <1>2, <2>6, <3>1, <3>3
      <4> QED
        BY <3>1, <4>1 DEF ConsentInv, PendingHasItsPlan, ApprovedHasNoPlan
    <3> QED
      BY <3>2, <3>3
  <2>9. PlansAreUnanswered'
    <3> SUFFICES ASSUME NEW x \in ApprovalIds, plans'[x] # NoPlan
                 PROVE  /\ plans'[x] \in 1..Len(questions')
                        /\ questions'[plans'[x]] = x
                        /\ plans'[x] \notin approved' \cup refused'
      BY DEF PlansAreUnanswered
    <3>1. x # id /\ plans'[x] = plans[x]
      BY <2>6
    <3>2. /\ plans[x] \in 1..Len(questions) /\ questions[plans[x]] = x
          /\ plans[x] \notin approved \cup refused
      BY <3>1 DEF ConsentInv, PlansAreUnanswered
    <3>3. questions[plans[id]] = id
      BY <1>5 DEF ConsentInv, PlansAreUnanswered
    <3> QED
      BY <1>1, <2>3, <3>1, <3>2, <3>3
  <2>10. AnsweredWereAsked'
    BY <1>1, <2>3, <2>4 DEF ConsentInv, AnsweredWereAsked
  <2>11. BothWithinCeiling'
    BY <1>2, <1>3, <2>1, NoPlanMore DEF ConsentInv, BothWithinCeiling, Waiting
  <2> QED
    BY <1>4, <2>5, <2>7, <2>8, <2>9, <2>10, <2>11 DEF ConsentInv
<1>6. CASE ~(plans[id] # NoPlan /\ Known(id))
  <2>1. UNCHANGED <<runs, plans>>
    BY <1>6 DEF Approve
  <2>2. ~Pending(id)
    <3> SUFFICES ASSUME NEW i \in Places(id), records[i].status = "pending"
                 PROVE  FALSE
      BY DEF Pending
    <3>1. i \in 1..Len(records) /\ records[i].id = id /\ Known(id)
      BY DEF Places, Known
    <3>2. plans[id] = records[i].question /\ records[i].question # 0
      BY <3>1, RecordType DEF ConsentInv, PendingHasItsPlan
    <3> QED
      BY <1>6, <3>1, <3>2 DEF NoPlan
  <2>3. approved' = approved
    BY <1>1, <2>2, OpenIsThePlan DEF ConsentInv
  <2>4. \A i \in 1..Len(records) : records'[i].status = records[i].status
    BY <1>2, <2>2 DEF Pending, Places
  <2>5. TypeOK'
    BY <1>1, <1>2, <2>1, <2>3 DEF ConsentInv, TypeOK
  <2>6. PendingHasItsPlan' /\ ApprovedHasNoPlan'
    BY <1>2, <2>1, <2>4 DEF ConsentInv, PendingHasItsPlan, ApprovedHasNoPlan
  <2>7. PlansAreUnanswered' /\ AnsweredWereAsked' /\ ConsentRunsOnce'
    BY <1>1, <2>1, <2>3 DEF ConsentInv, PlansAreUnanswered, AnsweredWereAsked, ConsentRunsOnce
  <2>8. BothWithinCeiling'
    BY <1>2, <2>1 DEF ConsentInv, BothWithinCeiling, Waiting
  <2> QED
    BY <1>4, <2>5, <2>6, <2>7, <2>8 DEF ConsentInv
<1> QED
  BY <1>5, <1>6

LEMMA RejectKeepsInv ==
  ASSUME ConsentInv, NEW id \in ApprovalIds, Reject(id)
  PROVE  ConsentInv'
<1>1. /\ refused' = refused \cup Open(id)
      /\ plans' = [plans EXCEPT ![id] = NoPlan]
      /\ UNCHANGED <<questions, approved, runs>>
  BY DEF Reject
<1>2. plans \in [ApprovalIds -> Nat] /\ Len(questions) \in Nat
  BY QuestionType DEF ConsentInv
<1>3. /\ plans' \in [ApprovalIds -> Nat] /\ plans'[id] = NoPlan
      /\ \A x \in ApprovalIds : x # id => plans'[x] = plans[x]
  BY <1>1, <1>2 DEF NoPlan
<1>4. /\ records' \in Seq(Record) /\ Len(records') <= MaxApprovals
      /\ \A i \in 1..Len(records') :
           /\ records'[i].id # id
           /\ \E j \in 1..Len(records) : records'[i] = records[j]
      /\ \A i, j \in 1..Len(records') : records'[i].id = records'[j].id => i = j
  <2>0. /\ TypeOK /\ OneRecordEach /\ Len(records) <= MaxApprovals
        /\ records \in Seq(Record) /\ Len(records) \in Nat /\ MaxApprovals \in Nat
    BY RecordType, ApprovalsAssumption DEF ConsentInv, TypeOK, BothWithinCeiling
  <2>1. CASE Known(id)
    <3>1. /\ Place(id) \in 1..Len(records) /\ records[Place(id)].id = id
          /\ records' = RemoveAt(records, Place(id))
      BY <2>0, <2>1, PlaceOfRecord DEF Reject
    <3>2. /\ records' \in Seq(Record) /\ Len(records') = Len(records) - 1
          /\ \A i \in 1..Len(records') :
               \E j \in 1..Len(records) : j # Place(id) /\ records'[i] = records[j]
          /\ \A i, j \in 1..Len(records') : records'[i].id = records'[j].id => i = j
      <4> DEFINE k == Place(id)
      <4>1. k \in 1..Len(records) /\ records' = RemoveAt(records, k)
        BY <3>1
      <4> HIDE DEF k
      <4>2. /\ records' \in Seq(Record) /\ Len(records') = Len(records) - 1
            /\ \A i \in 1..Len(records') :
                 \E j \in 1..Len(records) : j # k /\ records'[i] = records[j]
            /\ \A i, j \in 1..Len(records') : records'[i].id = records'[j].id => i = j
        <5> DEFINE rest == RemoveAt(records, k)
        <5>1. /\ rest \in Seq(Record) /\ Len(rest) = Len(records) - 1
              /\ \A i \in 1..Len(rest) :
                   \E j \in 1..Len(records) : j # k /\ rest[i] = records[j]
              /\ \A i, j \in 1..Len(rest) : rest[i].id = rest[j].id => i = j
          BY <2>0, <4>1, OneRecordGoes
        <5>2. records' = rest
          BY <4>1
        <5> HIDE DEF rest
        <5> QED
          BY <5>1, <5>2
      <4> QED
        BY <4>2 DEF k
    <3>3. \A j \in 1..Len(records) : j # Place(id) => records[j].id # id
      BY <2>0, <3>1 DEF OneRecordEach
    <3> QED
      BY <2>0, <3>2, <3>3, SMTT(30) DEF OneRecordEach
  <2>2. CASE ~Known(id)
    <3>1. records' = records /\ \A i \in 1..Len(records) : records[i].id # id
      BY <2>2 DEF Reject, Known, Places
    <3> QED
      BY <2>0, <3>1 DEF OneRecordEach
  <2> QED
    BY <2>1, <2>2
<1>5. \A n \in Open(id) :
        /\ n = plans[id] /\ n \in 1..Len(questions) /\ n \notin approved
        /\ questions[n] = id
  <2> SUFFICES ASSUME NEW n \in Open(id)
               PROVE  /\ n = plans[id] /\ n \in 1..Len(questions) /\ n \notin approved
                      /\ questions[n] = id
    OBVIOUS
  <2>1. Pending(id) /\ n = plans[id]
    BY OpenIsThePlan DEF ConsentInv
  <2>2. PICK i \in Places(id) : records[i].status = "pending"
    BY <2>1 DEF Pending
  <2>3. i \in 1..Len(records) /\ records[i].id = id
    BY DEF Places
  <2>4. plans[id] = records[i].question /\ records[i].question # 0
    BY <2>2, <2>3, RecordType DEF ConsentInv, PendingHasItsPlan
  <2> QED
    BY <2>1, <2>4 DEF ConsentInv, PlansAreUnanswered, NoPlan
<1>6. \A i \in 1..Len(records') :
        \E j \in 1..Len(records) :
          records'[i] = records[j] /\ plans'[records[j].id] = plans[records[j].id]
  <2> SUFFICES ASSUME NEW i \in 1..Len(records')
               PROVE  \E j \in 1..Len(records) :
                        /\ records'[i] = records[j]
                        /\ plans'[records[j].id] = plans[records[j].id]
    OBVIOUS
  <2>1. PICK j \in 1..Len(records) : records'[i] = records[j]
    BY <1>4
  <2>2. records[j].id \in ApprovalIds /\ records[j].id # id
    BY <1>4, <2>1, RecordType DEF ConsentInv
  <2> QED
    BY <1>3, <2>1, <2>2
<1>7. TypeOK'
  <2>1. /\ approved \subseteq Nat /\ refused \subseteq Nat /\ questions \in Seq(ApprovalIds)
        /\ runs \in Seq(Nat)
    BY DEF ConsentInv, TypeOK
  <2>2. Open(id) \subseteq Nat
    BY <1>2, <1>5
  <2>3. /\ approved' \subseteq Nat /\ refused' \subseteq Nat /\ questions' \in Seq(ApprovalIds)
        /\ runs' \in Seq(Nat)
    BY <1>1, <2>1, <2>2
  <2> QED
    BY <1>3, <1>4, <2>3 DEF TypeOK
<1>8. OneRecordEach'
  BY <1>4 DEF OneRecordEach
<1>9. PendingHasItsPlan' /\ ApprovedHasNoPlan'
  BY <1>6 DEF ConsentInv, PendingHasItsPlan, ApprovedHasNoPlan
<1>10. PlansAreUnanswered'
  <2> SUFFICES ASSUME NEW x \in ApprovalIds, plans'[x] # NoPlan
               PROVE  /\ plans'[x] \in 1..Len(questions')
                      /\ questions'[plans'[x]] = x
                      /\ plans'[x] \notin approved' \cup refused'
    BY DEF PlansAreUnanswered
  <2>1. x # id /\ plans'[x] = plans[x]
    BY <1>3
  <2>2. /\ plans[x] \in 1..Len(questions) /\ questions[plans[x]] = x
        /\ plans[x] \notin approved \cup refused
    BY <2>1 DEF ConsentInv, PlansAreUnanswered
  <2> QED
    BY <1>1, <1>5, <2>1, <2>2
<1>11. AnsweredWereAsked'
  BY <1>1, <1>5 DEF ConsentInv, AnsweredWereAsked
<1>12. ConsentRunsOnce'
  BY <1>1, <1>5 DEF ConsentInv, ConsentRunsOnce
<1>13. BothWithinCeiling'
  BY <1>1, <1>2, <1>4, NoPlanMore DEF ConsentInv, BothWithinCeiling, Waiting
<1> QED
  BY <1>7, <1>8, <1>9, <1>10, <1>11, <1>12, <1>13 DEF ConsentInv

-----------------------------------------------------------------------------
(* How an open question can go *)

LEMMA AskEvictsLast ==
  ASSUME ConsentInv, NEW x \in ApprovalIds, Ask(x), NEW p \in 1..Len(records),
         records[p].status = "pending",
         \A i \in 1..Len(records') : records'[i].id # records[p].id
  PROVE  \A i \in 1..Len(records) : records[i].status = "pending"
<1> DEFINE n == Len(questions) + 1
           created == [id |-> x, question |-> n, status |-> "pending"]
           rest == RemoveAt(records, Evicted)
<1>1. /\ TypeOK /\ OneRecordEach /\ Len(records) \in Nat /\ records \in Seq(Record)
      /\ created \in Record
  <2>1. n \in Nat \ {0}
    BY QuestionType DEF ConsentInv
  <2> QED
    BY <2>1, RecordType DEF ConsentInv, TypeOK, Record
<1> HIDE DEF created
<1>2. CASE Len(records) >= MaxApprovals
  <2>1. /\ Evicted \in 1..Len(records)
        /\ (\E i \in 1..Len(records) : records[i].status # "pending")
             => records[Evicted].status # "pending"
    BY <1>1, EvictedIsAPlace
  <2>2. /\ rest \in Seq(Record)
        /\ p # Evicted => \E i \in 1..Len(rest) : rest[i] = records[p]
    BY <1>1, <2>1, OneRecordGoes
  <2>3. records' = Append(rest, created)
    BY <1>2 DEF Ask, Created, created
  <2> HIDE DEF rest
  <2>4. /\ Len(records') = Len(rest) + 1 /\ Len(rest) \in Nat
        /\ \A i \in 1..Len(rest) : records'[i] = rest[i]
    BY <1>1, <2>2, <2>3, AppendProperties, LenProperties
  <2>5. p = Evicted
    BY <2>2, <2>4
  <2> QED
    BY <2>1, <2>5
<1>3. CASE ~(Len(records) >= MaxApprovals)
  <2>1. records' = Append(records, created)
    BY <1>3 DEF Ask, Created, created
  <2>2. Len(records') = Len(records) + 1 /\ records'[p] = records[p]
    BY <1>1, <2>1, AppendProperties
  <2> QED
    BY <1>1, <2>2
<1> QED
  BY <1>2, <1>3

LEMMA RejectRefusesWhatGoes ==
  ASSUME ConsentInv, NEW x \in ApprovalIds, Reject(x), NEW p \in 1..Len(records),
         records[p].status = "pending", refused' = refused,
         \A i \in 1..Len(records') : records'[i].id # records[p].id
  PROVE  FALSE
<1>1. TypeOK /\ OneRecordEach
  BY DEF ConsentInv
<1>2. CASE records[p].id = x
  <2>1. Known(x) /\ Pending(x)
    BY <1>2 DEF Known, Pending, Places
  <2>2. Open(x) = {plans[x]}
    BY <2>1, OpenIsThePlan DEF ConsentInv
  <2>3. plans[x] # NoPlan
    BY <1>1, <1>2, RecordType DEF ConsentInv, PendingHasItsPlan, NoPlan
  <2>4. plans[x] \notin refused
    BY <2>3 DEF ConsentInv, PlansAreUnanswered
  <2>5. plans[x] \in refused'
    BY <2>2 DEF Reject
  <2> QED
    BY <2>4, <2>5
<1>3. CASE records[p].id # x
  <2>1. CASE Known(x)
    <3> DEFINE k == Place(x)
    <3>1. k \in 1..Len(records) /\ records[k].id = x /\ records' = RemoveAt(records, k)
      BY <1>1, <2>1, PlaceOfRecord DEF Reject
    <3> HIDE DEF k
    <3>2. p # k
      BY <1>3, <3>1
    <3>3. \E i \in 1..Len(RemoveAt(records, k)) : RemoveAt(records, k)[i] = records[p]
      BY <1>1, <3>1, <3>2, OneRecordGoes
    <3> QED
      BY <3>1, <3>3
  <2>2. CASE ~Known(x)
    BY <2>2 DEF Reject
  <2> QED
    BY <2>1, <2>2
<1> QED
  BY <1>2, <1>3

-----------------------------------------------------------------------------
(* Theorems *)

\* The whole of the bookkeeping holds in every reachable state.
THEOREM ConsentInvariant == Spec => []ConsentInv
<1>1. Init => ConsentInv
  <2> SUFFICES ASSUME Init PROVE ConsentInv
    OBVIOUS
  <2>1. \A S : <<>> \in Seq(S) /\ Len(<<>>) = 0
    BY EmptySeq
  <2>2. TypeOK
    BY <2>1 DEF Init, TypeOK, NoPlan
  <2>3. OneRecordEach /\ PendingHasItsPlan /\ ApprovedHasNoPlan
    BY <2>1 DEF Init, OneRecordEach, PendingHasItsPlan, ApprovedHasNoPlan
  <2>4. PlansAreUnanswered /\ AnsweredWereAsked
    BY DEF Init, PlansAreUnanswered, AnsweredWereAsked
  <2>5. ConsentRunsOnce
    BY <2>1 DEF Init, ConsentRunsOnce, ToSet
  <2>6. BothWithinCeiling
    <3>1. Waiting(plans) = {} /\ Cardinality({}) = 0
      BY FS_EmptySet DEF Init, Waiting
    <3>2. Len(records) = 0
      BY <2>1 DEF Init
    <3>3. 0 <= MaxApprovals
      BY ApprovalsAssumption
    <3> QED
      BY <3>1, <3>2, <3>3 DEF BothWithinCeiling
  <2> QED
    BY <2>2, <2>3, <2>4, <2>5, <2>6 DEF ConsentInv
<1>2. ConsentInv /\ [Next]_vars => ConsentInv'
  <2> SUFFICES ASSUME ConsentInv, [Next]_vars PROVE ConsentInv'
    OBVIOUS
  <2>1. ASSUME NEW id \in ApprovalIds, Ask(id) PROVE ConsentInv'
    BY <2>1, AskKeepsInv
  <2>2. ASSUME NEW id \in ApprovalIds, Approve(id) PROVE ConsentInv'
    BY <2>2, ApproveKeepsInv
  <2>3. ASSUME NEW id \in ApprovalIds, Reject(id) PROVE ConsentInv'
    BY <2>3, RejectKeepsInv
  <2>4. CASE UNCHANGED vars
    BY <2>4 DEF vars, ConsentInv, TypeOK, OneRecordEach, PendingHasItsPlan,
                ApprovedHasNoPlan, PlansAreUnanswered, AnsweredWereAsked,
                ConsentRunsOnce, BothWithinCeiling, Waiting
  <2> QED
    BY <2>1, <2>2, <2>3, <2>4 DEF Next
<1> QED
  BY <1>1, <1>2, PTL DEF Spec

\* The state is well typed (ApprovalStore and pendingExecutions), for any ids.
THEOREM ApprovalsTypeCorrect == Spec => []TypeOK
<1>1. ConsentInv => TypeOK
  BY DEF ConsentInv
<1> QED
  BY <1>1, ConsentInvariant, PTL

\* However many bodies answer, in any order and under ids chosen again: what ran
\* is what was approved, once each, and nothing refused (approve, reject).
THEOREM ConsentIsUsedOnce == Spec => []ConsentRunsOnce
<1>1. ConsentInv => ConsentRunsOnce
  BY DEF ConsentInv
<1> QED
  BY <1>1, ConsentInvariant, PTL

\* An open question has its own plan waiting, though the two maps are bounded
\* apart (evictOldest, and the sweep of pendingExecutions).
THEOREM OpenQuestionsCanBeAnswered == Spec => []PendingHasItsPlan
<1>1. ConsentInv => PendingHasItsPlan
  BY DEF ConsentInv
<1> QED
  BY <1>1, ConsentInvariant, PTL

\* Neither map outgrows its ceiling, and no id has two records.
THEOREM CeilingsHold == Spec => []WithinCeilings
<1>1. ConsentInv => WithinCeilings
  <2> SUFFICES ASSUME ConsentInv PROVE WithinCeilings
    OBVIOUS
  <2>1. records \in Seq(Record) /\ OneRecordEach /\ BothWithinCeiling
    BY DEF ConsentInv, TypeOK
  <2>2. Cardinality(IdsOf(records)) = Len(records)
    BY <2>1, IdsOfSize DEF OneRecordEach
  <2> QED
    BY <2>1, <2>2 DEF BothWithinCeiling, WithinCeilings
<1> QED
  BY <1>1, ConsentInvariant, PTL

\* An open question is let go unanswered only when all records are open
\* (evictOldest prefers the decided).
THEOREM OpenQuestionsAreEvictedLast == Spec => OpenQuestionsGoLast
<1> DEFINE AllOpen == \A i \in 1..Len(records) : records[i].status = "pending"
           Step == \A id \in ApprovalIds :
                     Pending(id) /\ ~Known(id)' /\ refused' = refused => AllOpen
<1>1. ConsentInv /\ Next => Step
  <2> SUFFICES ASSUME ConsentInv, Next, NEW id \in ApprovalIds,
                      Pending(id), ~Known(id)', refused' = refused
               PROVE  AllOpen
    OBVIOUS
  <2>1. PICK p \in 1..Len(records) : records[p].id = id /\ records[p].status = "pending"
    BY DEF Pending, Places
  <2>2. \A i \in 1..Len(records') : records'[i].id # id
    BY DEF Known, Places
  <2>3. ASSUME NEW x \in ApprovalIds, Ask(x) PROVE AllOpen
    BY <2>1, <2>2, <2>3, AskEvictsLast
  <2>4. ASSUME NEW x \in ApprovalIds, Approve(x) PROVE FALSE
    <3>1. records' = Decided(x, "approved")
      BY <2>4 DEF Approve
    <3>2. Len(records') = Len(records) /\ records'[p].id = records[p].id
      BY <3>1, DecidedRecords DEF ConsentInv
    <3> QED
      BY <2>1, <2>2, <3>2
  <2>5. ASSUME NEW x \in ApprovalIds, Reject(x) PROVE FALSE
    BY <2>1, <2>2, <2>5, RejectRefusesWhatGoes
  <2> QED
    BY <2>3, <2>4, <2>5 DEF Next
<1>2. ConsentInv /\ [Next]_vars => [Step]_vars
  BY <1>1
<1>3. [][Step]_vars <=> OpenQuestionsGoLast
  BY DEF OpenQuestionsGoLast
<1> QED
  BY <1>2, <1>3, ConsentInvariant, PTL DEF Spec

\* index.ts: what was asked can be answered, what was answered is done once or not at all, and
\* nothing piles up behind it.
THEOREM ConsentIsKeptAlways == Spec => []ConsentIsKept
<1>1. ConsentRunsOnce /\ PendingHasItsPlan /\ WithinCeilings => ConsentIsKept
  BY DEF ConsentIsKept
<1> QED
  BY <1>1, ConsentIsUsedOnce, OpenQuestionsCanBeAnswered, CeilingsHold, PTL

-----------------------------------------------------------------------------
(* The cards (Cards)                                                       *)
(*                                                                         *)
(* How the questions of one session look to several bodies, for any number *)
(* of them.  A question that is not settled is on every body or on its way *)
(* there; what says that it was settled is on no socket before it was, and *)
(* is behind everything that asks.                                         *)

\* A frame is on a socket; whatever asks on it is followed by what settles.
OnSocket(q, f) == \E i \in 1..Len(q) : q[i] = f
FollowedBy(q, a, d) ==
  \A i \in 1..Len(q) : q[i] = a => \E j \in 1..Len(q) : i < j /\ q[j] = d

CardFrames == [kind : {"asked", "decided"}, q : Card!Questions]

\* What is where.
CardTypes ==
  /\ status \in [Card!Questions -> {"unasked", "open", "running", "settled"}]
  /\ frames \in [Bodies -> Seq(CardFrames)]
  /\ cards \in [Bodies -> SUBSET Card!Questions]
  /\ answers \subseteq [to : Bodies, q : Card!Questions]
  /\ clicks \subseteq [by : Bodies, q : Card!Questions, accept : BOOLEAN]
  /\ cardRuns \subseteq [by : Bodies, q : Card!Questions, accept : BOOLEAN]
  /\ results \subseteq [by : Bodies, q : Card!Questions, ok : BOOLEAN]
  /\ blips \in Nat

\* Questions are asked in turn.
AskedInTurn == \E n \in 0..MaxCards : Card!Asked = 1..n

\* Nobody hears that a question is settled before it is, and what runs is not settled yet.
NoneTooEarly ==
  /\ \A b \in Bodies, q \in Card!Questions :
       OnSocket(frames[b], Card!Frame("decided", q)) => status[q] = "settled"
  /\ \A r \in results : r.ok => status[r.q] = "settled"
  /\ \A c \in cardRuns : status[c.q] = "running"
  /\ \A c, d \in cardRuns : c.q = d.q => c = d

\* A question that is not settled is on every body, or on its way there.
AskedOrOnItsWay ==
  blips = 0 => \A b \in Bodies, q \in Card!Questions :
    status[q] \in {"open", "running"} => q \in cards[b] \/ OnSocket(frames[b], Card!Frame("asked", q))

\* A settled question that is on a body is on its way off it, or came there late.
SettledOnItsWay ==
  \A b \in Bodies, q \in Card!Questions :
    status[q] = "settled" =>
      /\ FollowedBy(frames[b], Card!Frame("asked", q), Card!Frame("decided", q))
      /\ blips = 0 /\ q \in cards[b] =>
           OnSocket(frames[b], Card!Frame("decided", q)) \/ [b |-> b, q |-> q] \in late

CardInv == CardTypes /\ AskedInTurn /\ NoneTooEarly /\ AskedOrOnItsWay /\ SettledOnItsWay

\* A frame put on a socket is behind what was on it.
LEMMA SocketAppended ==
  ASSUME NEW S, NEW q \in Seq(S), NEW e \in S, NEW f
  PROVE  OnSocket(Append(q, e), f) <=> OnSocket(q, f) \/ e = f
<1>1. Len(q) \in Nat /\ Len(Append(q, e)) = Len(q) + 1 /\ Append(q, e)[Len(q) + 1] = e
      /\ \A i \in 1..Len(q) : Append(q, e)[i] = q[i]
  OBVIOUS
<1>2. ASSUME NEW i \in 1..Len(Append(q, e)), Append(q, e)[i] = f PROVE OnSocket(q, f) \/ e = f
  BY <1>1, <1>2 DEF OnSocket
<1>3. OnSocket(q, f) => OnSocket(Append(q, e), f)
  BY <1>1 DEF OnSocket
<1>4. e = f => OnSocket(Append(q, e), f)
  BY <1>1 DEF OnSocket
<1> QED
  BY <1>2, <1>3, <1>4 DEF OnSocket

\* A frame on a socket is the next one or waits on.
LEMMA SocketShortened ==
  ASSUME NEW S, NEW q \in Seq(S), q # <<>>, NEW f
  PROVE  OnSocket(q, f) <=> Head(q) = f \/ OnSocket(Tail(q), f)
<1>1. Len(q) \in Nat \ {0} /\ Len(Tail(q)) = Len(q) - 1 /\ Head(q) = q[1]
      /\ \A i \in 1..Len(Tail(q)) : Tail(q)[i] = q[i + 1]
  BY EmptySeq
<1>2. ASSUME NEW i \in 1..Len(q), q[i] = f, i # 1 PROVE OnSocket(Tail(q), f)
  <2>1. i - 1 \in 1..Len(Tail(q)) /\ Tail(q)[i - 1] = q[i]
    BY <1>1, <1>2
  <2> QED
    BY <1>2, <2>1 DEF OnSocket
<1>3. ASSUME NEW i \in 1..Len(Tail(q)), Tail(q)[i] = f PROVE OnSocket(q, f)
  <2>1. i + 1 \in 1..Len(q) /\ q[i + 1] = f
    BY <1>1, <1>3
  <2> QED
    BY <2>1 DEF OnSocket
<1>4. Head(q) = f => OnSocket(q, f)
  BY <1>1 DEF OnSocket
<1> QED
  BY <1>1, <1>2, <1>3, <1>4 DEF OnSocket

\* What settles, put last, follows whatever asks.
LEMMA SettledBehind ==
  ASSUME NEW S, NEW q \in Seq(S), NEW a \in S, NEW d \in S, a # d
  PROVE  FollowedBy(Append(q, d), a, d)
<1>1. Len(q) \in Nat /\ Len(Append(q, d)) = Len(q) + 1 /\ Append(q, d)[Len(q) + 1] = d
  OBVIOUS
<1>2. ASSUME NEW i \in 1..Len(Append(q, d)), Append(q, d)[i] = a
      PROVE  Len(q) + 1 \in 1..Len(Append(q, d)) /\ i < Len(q) + 1
  BY <1>1, <1>2
<1> QED
  BY <1>1, <1>2 DEF FollowedBy

\* Nothing else put last makes a question stay.
LEMMA OthersBehind ==
  ASSUME NEW S, NEW q \in Seq(S), NEW e \in S, NEW a \in S, NEW d \in S, e # a, FollowedBy(q, a, d)
  PROVE  FollowedBy(Append(q, e), a, d)
<1>1. Len(q) \in Nat /\ Len(Append(q, e)) = Len(q) + 1 /\ Append(q, e)[Len(q) + 1] = e
      /\ \A i \in 1..Len(q) : Append(q, e)[i] = q[i]
  OBVIOUS
<1>2. ASSUME NEW i \in 1..Len(Append(q, e)), Append(q, e)[i] = a
      PROVE  \E j \in 1..Len(Append(q, e)) : i < j /\ Append(q, e)[j] = d
  <2>1. i \in 1..Len(q) /\ q[i] = a
    BY <1>1, <1>2
  <2>2. PICK j \in 1..Len(q) : i < j /\ q[j] = d
    BY <2>1 DEF FollowedBy
  <2> QED
    BY <1>1, <2>2
<1> QED
  BY <1>2 DEF FollowedBy

\* Taking the next frame leaves what settles where it was.
LEMMA TheRestFollows ==
  ASSUME NEW S, NEW q \in Seq(S), q # <<>>, NEW a \in S, NEW d \in S, FollowedBy(q, a, d)
  PROVE  FollowedBy(Tail(q), a, d) /\ (Head(q) = a => OnSocket(Tail(q), d))
<1>1. Len(q) \in Nat \ {0} /\ Len(Tail(q)) = Len(q) - 1 /\ Head(q) = q[1]
      /\ \A i \in 1..Len(Tail(q)) : Tail(q)[i] = q[i + 1]
  BY EmptySeq
<1>2. ASSUME NEW j \in 1..Len(q), 1 < j PROVE j - 1 \in 1..Len(Tail(q)) /\ Tail(q)[j - 1] = q[j]
  BY <1>1, <1>2
<1>3. ASSUME NEW i \in 1..Len(Tail(q)), Tail(q)[i] = a
      PROVE  \E j \in 1..Len(Tail(q)) : i < j /\ Tail(q)[j] = d
  <2>1. i + 1 \in 1..Len(q) /\ q[i + 1] = a
    BY <1>1, <1>3
  <2>2. PICK j \in 1..Len(q) : i + 1 < j /\ q[j] = d
    BY <2>1 DEF FollowedBy
  <2>3. i < j - 1 /\ 1 < j
    BY <2>2
  <2> QED
    BY <1>2, <2>2, <2>3
<1>4. ASSUME Head(q) = a PROVE OnSocket(Tail(q), d)
  <2>1. 1 \in 1..Len(q) /\ q[1] = a
    BY <1>1, <1>4
  <2>2. PICK j \in 1..Len(q) : 1 < j /\ q[j] = d
    BY <2>1 DEF FollowedBy
  <2> QED
    BY <1>2, <2>2 DEF OnSocket
<1> QED
  BY <1>3, <1>4 DEF FollowedBy

\* A socket with nothing on it.
LEMMA EmptySocket ==
  ASSUME NEW a, NEW d
  PROVE  ~OnSocket(<<>>, a) /\ FollowedBy(<<>>, a, d)
  BY DEF OnSocket, FollowedBy

\* Frames differ by what they say and of which question.
LEMMA FramesDiffer ==
  ASSUME NEW q, NEW p, NEW k, NEW l
  PROVE  /\ Card!Frame(k, q).kind = k /\ Card!Frame(k, q).q = q
         /\ Card!Frame(k, q) = Card!Frame(l, p) <=> k = l /\ q = p
<1>1. Card!Frame(k, q).kind = k /\ Card!Frame(k, q).q = q /\ Card!Frame(l, p).kind = l /\ Card!Frame(l, p).q = p
  BY DEF Card!Frame
<1> QED
  BY <1>1 DEF Card!Frame

\* The cardinality an instance counts with is the one theorems are about.
LEMMA CardsAreCounted ==
  ASSUME NEW S
  PROVE  Card!Cardinality(S) = Cardinality(S)
  BY DEF Card!Cardinality, Cardinality

\* Nothing is asked at first.
LEMMA CardInit ==
  ASSUME Card!CardsAssumption, Card!Init
  PROVE  CardInv
<1> USE DEF Card!Init
<1>1. CardTypes
  BY DEF CardTypes
<1>2. AskedInTurn
  <2>1. Card!Asked = 1..0
    BY DEF Card!Asked
  <2> QED
    BY <2>1 DEF AskedInTurn, Card!CardsAssumption
<1>3. NoneTooEarly /\ AskedOrOnItsWay /\ SettledOnItsWay
  BY EmptySocket DEF NoneTooEarly, AskedOrOnItsWay, SettledOnItsWay
<1> QED
  BY <1>1, <1>2, <1>3 DEF CardInv

\* What a broadcast does to one socket.
LEMMA Broadcasts ==
  ASSUME CardInv, NEW kind \in {"asked", "decided"}, NEW p \in Card!Questions, Card!Broadcast(kind, p)
  PROVE  /\ frames' \in [Bodies -> Seq(CardFrames)]
         /\ \A b \in Bodies :
              /\ frames[b] \in Seq(CardFrames)
              /\ frames'[b] = Append(frames[b], Card!Frame(kind, p))
         /\ \A k \in {"asked", "decided"}, q \in Card!Questions : Card!Frame(k, q) \in CardFrames
         /\ \A b \in Bodies, k \in {"asked", "decided"}, q \in Card!Questions :
              OnSocket(frames'[b], Card!Frame(k, q)) <=>
                OnSocket(frames[b], Card!Frame(k, q)) \/ (k = kind /\ q = p)
<1>1. \A k \in {"asked", "decided"}, q \in Card!Questions : Card!Frame(k, q) \in CardFrames
  BY DEF Card!Frame, CardFrames
<1>2. frames \in [Bodies -> Seq(CardFrames)]
  BY DEF CardInv, CardTypes
<1>3. \A b \in Bodies : frames[b] \in Seq(CardFrames)
                        /\ frames'[b] = Append(frames[b], Card!Frame(kind, p))
  BY <1>2 DEF Card!Broadcast
<1>4. frames' \in [Bodies -> Seq(CardFrames)]
  BY <1>1, <1>2 DEF Card!Broadcast
<1>5. ASSUME NEW b \in Bodies, NEW k \in {"asked", "decided"}, NEW q \in Card!Questions
      PROVE  OnSocket(frames'[b], Card!Frame(k, q)) <=>
                OnSocket(frames[b], Card!Frame(k, q)) \/ (k = kind /\ q = p)
  <2>1. Card!Frame(kind, p) \in CardFrames /\ frames[b] \in Seq(CardFrames)
    BY <1>1, <1>3
  <2>2. OnSocket(Append(frames[b], Card!Frame(kind, p)), Card!Frame(k, q)) <=>
          OnSocket(frames[b], Card!Frame(k, q)) \/ Card!Frame(kind, p) = Card!Frame(k, q)
    BY <2>1, SocketAppended
  <2>3. frames'[b] = Append(frames[b], Card!Frame(kind, p))
    BY <1>3
  <2> QED
    BY <2>2, <2>3, FramesDiffer
<1> QED
  BY <1>1, <1>3, <1>4, <1>5

\* A question is asked of every body.
LEMMA CardAsks ==
  ASSUME Card!CardsAssumption, CardInv, NEW by, by \subseteq Bodies, Card!Ask(by)
  PROVE  CardInv'
<1>1. PICK n \in 0..MaxCards : Card!Asked = 1..n
  BY DEF CardInv, AskedInTurn
<1>2. MaxCards \in Nat /\ n \in Nat
  BY DEF Card!CardsAssumption
<1>3. Card!Cardinality(Card!Asked) = n
  <2>1. Cardinality(1..n) = n
    BY <1>2, FS_Interval
  <2> QED
    BY <1>1, <2>1, CardsAreCounted
<1> DEFINE p == n + 1
<1>a. n < MaxCards
  BY <1>3 DEF Card!Ask
<1>4. p \in Card!Questions /\ status[p] = "unasked"
  <2>1. p \in Card!Questions /\ p \notin Card!Asked
    BY <1>1, <1>2, <1>a DEF Card!Questions
  <2> QED
    BY <2>1 DEF Card!Asked
<1>5. /\ status' = [status EXCEPT ![p] = "open"]
      /\ Card!Broadcast("asked", p)
      /\ answers' = answers \cup [to : by, q : {p}]
      /\ UNCHANGED <<clicks, cardRuns, results, cards, late, blips, failures>>
  BY <1>3 DEF Card!Ask
<1> HIDE DEF p
<1>6. /\ status'[p] = "open" /\ \A q \in Card!Questions : q # p => status'[q] = status[q]
      /\ status' \in [Card!Questions -> {"unasked", "open", "running", "settled"}]
  BY <1>4, <1>5 DEF CardInv, CardTypes
<1>7. /\ frames' \in [Bodies -> Seq(CardFrames)]
      /\ \A b \in Bodies :
           /\ frames[b] \in Seq(CardFrames)
           /\ frames'[b] = Append(frames[b], Card!Frame("asked", p))
      /\ \A k \in {"asked", "decided"}, q \in Card!Questions : Card!Frame(k, q) \in CardFrames
      /\ \A b \in Bodies, k \in {"asked", "decided"}, q \in Card!Questions :
           OnSocket(frames'[b], Card!Frame(k, q)) <=>
             OnSocket(frames[b], Card!Frame(k, q)) \/ (k = "asked" /\ q = p)
  BY <1>4, <1>5, Broadcasts
<1>8. CardTypes'
  BY <1>4, <1>5, <1>6, <1>7 DEF CardInv, CardTypes
<1>9. AskedInTurn'
  <2>1. Card!Asked' = Card!Asked \cup {p}
    BY <1>4, <1>6 DEF Card!Asked
  <2>2. (1..n) \cup {p} = 1..(n + 1)
    BY <1>2 DEF p
  <2>3. n + 1 \in 0..MaxCards
    BY <1>2, <1>a
  <2> QED
    BY <1>1, <2>1, <2>2, <2>3 DEF AskedInTurn
<1>10. NoneTooEarly'
  <2>1. \A b \in Bodies, q \in Card!Questions :
          OnSocket(frames'[b], Card!Frame("decided", q)) => status'[q] = "settled"
    BY <1>4, <1>6, <1>7 DEF CardInv, NoneTooEarly
  <2>2. \A r \in results : r.ok => status'[r.q] = "settled"
    BY <1>4, <1>6 DEF CardInv, NoneTooEarly, CardTypes
  <2>3. \A c \in cardRuns : status'[c.q] = "running"
    BY <1>4, <1>6 DEF CardInv, NoneTooEarly, CardTypes
  <2> QED
    BY <1>5, <2>1, <2>2, <2>3 DEF CardInv, NoneTooEarly
<1>11. AskedOrOnItsWay'
  BY <1>5, <1>6, <1>7 DEF CardInv, AskedOrOnItsWay
<1>12. SettledOnItsWay'
  <2> SUFFICES ASSUME NEW b \in Bodies, NEW q \in Card!Questions, status'[q] = "settled"
               PROVE  /\ FollowedBy(frames'[b], Card!Frame("asked", q), Card!Frame("decided", q))
                      /\ blips = 0 /\ q \in cards[b] =>
                           OnSocket(frames'[b], Card!Frame("decided", q)) \/ [b |-> b, q |-> q] \in late
    BY <1>5 DEF SettledOnItsWay
  <2>1. q # p /\ status[q] = "settled"
    BY <1>6
  <2>2. Card!Frame("asked", p) # Card!Frame("asked", q)
    BY <2>1, FramesDiffer
  <2>3. FollowedBy(frames[b], Card!Frame("asked", q), Card!Frame("decided", q))
    BY <2>1 DEF CardInv, SettledOnItsWay
  <2>4. FollowedBy(frames'[b], Card!Frame("asked", q), Card!Frame("decided", q))
    BY <1>4, <1>7, <2>2, <2>3, OthersBehind
  <2> QED
    BY <1>7, <2>1, <2>4 DEF CardInv, SettledOnItsWay
<1> QED
  BY <1>8, <1>9, <1>10, <1>11, <1>12 DEF CardInv

\* A question is settled, and every body is told.
LEMMA CardSettles ==
  ASSUME Card!CardsAssumption, CardInv, NEW c, c \in clicks \cup cardRuns, status[c.q] \in {"open", "running"},
         status' = [status EXCEPT ![c.q] = "settled"], Card!Broadcast("decided", c.q),
         results' = results \cup {Card!Result(c, TRUE)},
         clicks' \subseteq clicks, cardRuns' \subseteq cardRuns,
         \A d \in cardRuns' : d.q # c.q,
         UNCHANGED <<answers, cards, late, blips, failures>>
  PROVE  CardInv'
<1> DEFINE p == c.q
<1>1. p \in Card!Questions /\ c.by \in Bodies
  BY DEF CardInv, CardTypes
<1>2. /\ status'[p] = "settled" /\ \A q \in Card!Questions : q # p => status'[q] = status[q]
      /\ status' \in [Card!Questions -> {"unasked", "open", "running", "settled"}]
  BY <1>1 DEF CardInv, CardTypes
<1>3. Card!Result(c, TRUE) \in [by : Bodies, q : Card!Questions, ok : BOOLEAN]
      /\ Card!Result(c, TRUE).q = p
  BY <1>1 DEF Card!Result
<1>4. /\ frames' \in [Bodies -> Seq(CardFrames)]
      /\ \A b \in Bodies :
           /\ frames[b] \in Seq(CardFrames)
           /\ frames'[b] = Append(frames[b], Card!Frame("decided", p))
      /\ \A k \in {"asked", "decided"}, q \in Card!Questions : Card!Frame(k, q) \in CardFrames
      /\ \A b \in Bodies, k \in {"asked", "decided"}, q \in Card!Questions :
           OnSocket(frames'[b], Card!Frame(k, q)) <=>
             OnSocket(frames[b], Card!Frame(k, q)) \/ (k = "decided" /\ q = p)
  BY <1>1, Broadcasts
<1> HIDE DEF p
<1>5. CardTypes'
  BY <1>2, <1>3, <1>4 DEF CardInv, CardTypes
<1>6. AskedInTurn'
  <2>1. Card!Asked' = Card!Asked
    BY <1>1, <1>2 DEF Card!Asked, p
  <2> QED
    BY <2>1 DEF CardInv, AskedInTurn
<1>7. NoneTooEarly'
  <2>1. \A b \in Bodies, q \in Card!Questions :
          OnSocket(frames'[b], Card!Frame("decided", q)) => status'[q] = "settled"
    BY <1>1, <1>2, <1>4 DEF CardInv, NoneTooEarly
  <2>2. \A r \in results' : r.ok => status'[r.q] = "settled"
    BY <1>1, <1>2, <1>3 DEF CardInv, NoneTooEarly, CardTypes
  <2>3. \A d \in cardRuns' : status'[d.q] = "running"
    BY <1>2 DEF CardInv, NoneTooEarly, CardTypes, p
  <2> QED
    BY <2>1, <2>2, <2>3 DEF CardInv, NoneTooEarly
<1>8. AskedOrOnItsWay'
  BY <1>2, <1>4 DEF CardInv, AskedOrOnItsWay
<1>9. SettledOnItsWay'
  <2> SUFFICES ASSUME NEW b \in Bodies, NEW q \in Card!Questions, status'[q] = "settled"
               PROVE  /\ FollowedBy(frames'[b], Card!Frame("asked", q), Card!Frame("decided", q))
                      /\ blips = 0 /\ q \in cards[b] =>
                           OnSocket(frames'[b], Card!Frame("decided", q)) \/ [b |-> b, q |-> q] \in late
    BY DEF SettledOnItsWay
  <2>1. CASE q = p
    <3>1. Card!Frame("asked", p) # Card!Frame("decided", p)
      BY FramesDiffer
    <3>2. FollowedBy(frames'[b], Card!Frame("asked", p), Card!Frame("decided", p))
      <4>1. /\ frames[b] \in Seq(CardFrames)
            /\ Card!Frame("asked", p) \in CardFrames /\ Card!Frame("decided", p) \in CardFrames
        BY <1>1, <1>4 DEF p
      <4>2. FollowedBy(Append(frames[b], Card!Frame("decided", p)), Card!Frame("asked", p), Card!Frame("decided", p))
        BY <3>1, <4>1, SettledBehind
      <4> QED
        BY <1>4, <4>2
    <3> QED
      BY <1>1, <1>4, <2>1, <3>2
  <2>2. CASE q # p
    <3>1. status[q] = "settled"
      BY <1>2, <2>2
    <3>2. Card!Frame("decided", p) # Card!Frame("asked", q)
      BY FramesDiffer
    <3>3. FollowedBy(frames[b], Card!Frame("asked", q), Card!Frame("decided", q))
      BY <3>1 DEF CardInv, SettledOnItsWay
    <3>4. FollowedBy(frames'[b], Card!Frame("asked", q), Card!Frame("decided", q))
      <4>1. /\ frames[b] \in Seq(CardFrames) /\ Card!Frame("decided", p) \in CardFrames
            /\ Card!Frame("asked", q) \in CardFrames /\ Card!Frame("decided", q) \in CardFrames
        BY <1>1, <1>4 DEF p
      <4>2. FollowedBy(Append(frames[b], Card!Frame("decided", p)), Card!Frame("asked", q), Card!Frame("decided", q))
        BY <3>2, <3>3, <4>1, OthersBehind
      <4> QED
        BY <1>4, <4>2
    <3> QED
      BY <1>4, <3>1, <3>4 DEF CardInv, SettledOnItsWay
  <2> QED
    BY <2>1, <2>2
<1> QED
  BY <1>5, <1>6, <1>7, <1>8, <1>9 DEF CardInv

\* An approved capability is run: its question is nobody else's any more.
LEMMA CardRuns ==
  ASSUME Card!CardsAssumption, CardInv, NEW c \in clicks, status[c.q] = "open",
         status' = [status EXCEPT ![c.q] = "running"], clicks' \subseteq clicks,
         cardRuns' = cardRuns \cup {c},
         UNCHANGED <<frames, answers, results, cards, late, blips, failures>>
  PROVE  CardInv'
<1>1. c.q \in Card!Questions /\ c \in [by : Bodies, q : Card!Questions, accept : BOOLEAN]
  BY DEF CardInv, CardTypes
<1>2. /\ status'[c.q] = "running" /\ \A q \in Card!Questions : q # c.q => status'[q] = status[q]
      /\ status' \in [Card!Questions -> {"unasked", "open", "running", "settled"}]
  BY <1>1 DEF CardInv, CardTypes
<1>3. CardTypes'
  BY <1>1, <1>2 DEF CardInv, CardTypes
<1>4. AskedInTurn'
  <2>1. Card!Asked' = Card!Asked
    BY <1>1, <1>2 DEF Card!Asked
  <2> QED
    BY <2>1 DEF CardInv, AskedInTurn
<1>5. NoneTooEarly'
  <2>1. \A q \in Card!Questions : status[q] = "settled" => status'[q] = "settled"
    BY <1>2
  <2>2. \A d \in cardRuns' : status'[d.q] = "running"
    BY <1>2 DEF CardInv, NoneTooEarly, CardTypes
  <2>3. \A r \in results : r.q \in Card!Questions
    BY DEF CardInv, CardTypes
  <2>4. \A d \in cardRuns : d.q # c.q
    BY DEF CardInv, NoneTooEarly
  <2> QED
    BY <2>1, <2>2, <2>3, <2>4 DEF CardInv, NoneTooEarly
<1>6. AskedOrOnItsWay' /\ SettledOnItsWay'
  BY <1>2 DEF CardInv, AskedOrOnItsWay, SettledOnItsWay
<1> QED
  BY <1>3, <1>4, <1>5, <1>6 DEF CardInv

\* Presses and answers under way say nothing new of a question.
LEMMA CardWaits ==
  ASSUME CardInv, UNCHANGED <<status, frames, answers, cardRuns, cards, late, blips>>,
         clicks' \subseteq [by : Bodies, q : Card!Questions, accept : BOOLEAN],
         results' \subseteq [by : Bodies, q : Card!Questions, ok : BOOLEAN],
         \A r \in results' \ results : ~r.ok
  PROVE  CardInv'
<1>1. CardTypes' /\ AskedInTurn'
  BY DEF CardInv, CardTypes, AskedInTurn, Card!Asked
<1>2. NoneTooEarly'
  BY DEF CardInv, NoneTooEarly
<1>3. AskedOrOnItsWay' /\ SettledOnItsWay'
  BY DEF CardInv, AskedOrOnItsWay, SettledOnItsWay
<1> QED
  BY <1>1, <1>2, <1>3 DEF CardInv

\* A frame reaches a body.
LEMMA CardHears ==
  ASSUME CardInv, NEW b \in Bodies, Card!Hear(b)
  PROVE  CardInv'
<1> DEFINE f == Head(frames[b])
<1>1. /\ frames[b] \in Seq(CardFrames) /\ frames[b] # <<>> /\ f \in CardFrames
      /\ Tail(frames[b]) \in Seq(CardFrames)
  BY DEF Card!Hear, CardInv, CardTypes
<1>2. f = Card!Frame(f.kind, f.q) /\ f.kind \in {"asked", "decided"} /\ f.q \in Card!Questions
  BY <1>1 DEF CardFrames, Card!Frame
<1>3. /\ frames' = [frames EXCEPT ![b] = Tail(@)]
      /\ cards' = [cards EXCEPT ![b] = IF f.kind = "asked" THEN @ \cup {f.q} ELSE @ \ {f.q}]
      /\ UNCHANGED <<status, answers, clicks, cardRuns, results, late, blips, failures>>
  BY DEF Card!Hear
<1>4. CardTypes /\ AskedInTurn /\ NoneTooEarly /\ AskedOrOnItsWay /\ SettledOnItsWay
  BY DEF CardInv
<1>5. /\ frames'[b] = Tail(frames[b])
      /\ cards'[b] = IF f.kind = "asked" THEN cards[b] \cup {f.q} ELSE cards[b] \ {f.q}
      /\ \A d \in Bodies : d # b => frames'[d] = frames[d] /\ cards'[d] = cards[d]
  BY <1>3, <1>4 DEF CardTypes
<1> HIDE DEF f
<1>6. CardTypes'
  BY <1>1, <1>2, <1>3, <1>4 DEF CardTypes
<1>7. AskedInTurn'
  BY <1>3, <1>4 DEF AskedInTurn, Card!Asked
<1>8. \A g : OnSocket(frames[b], g) <=> f = g \/ OnSocket(frames'[b], g)
  BY <1>1, <1>5, SocketShortened DEF f
<1>9. NoneTooEarly'
  BY <1>3, <1>4, <1>5, <1>8 DEF NoneTooEarly
<1>10. f.kind = "decided" => status[f.q] = "settled"
  BY <1>2, <1>4, <1>8 DEF NoneTooEarly
<1>11. AskedOrOnItsWay'
  <2> SUFFICES ASSUME blips = 0, NEW d \in Bodies, NEW q \in Card!Questions, status[q] \in {"open", "running"}
               PROVE  q \in cards'[d] \/ OnSocket(frames'[d], Card!Frame("asked", q))
    BY <1>3 DEF AskedOrOnItsWay
  <2>1. q \in cards[d] \/ OnSocket(frames[d], Card!Frame("asked", q))
    BY <1>4 DEF AskedOrOnItsWay
  <2>2. CASE d # b
    BY <1>5, <2>1, <2>2
  <2>3. CASE d = b
    <3>1. f = Card!Frame("asked", q) => f.kind = "asked" /\ f.q = q
      BY FramesDiffer
    <3>2. q \in cards[b] => q \in cards'[b]
      BY <1>2, <1>5, <1>10
    <3>3. f = Card!Frame("asked", q) => q \in cards'[b]
      BY <1>5, <3>1
    <3> QED
      BY <1>8, <2>1, <2>3, <3>2, <3>3
  <2> QED
    BY <2>2, <2>3
<1>12. SettledOnItsWay'
  <2> SUFFICES ASSUME NEW d \in Bodies, NEW q \in Card!Questions, status[q] = "settled"
               PROVE  /\ FollowedBy(frames'[d], Card!Frame("asked", q), Card!Frame("decided", q))
                      /\ blips = 0 /\ q \in cards'[d] =>
                           OnSocket(frames'[d], Card!Frame("decided", q)) \/ [b |-> d, q |-> q] \in late
    BY <1>3 DEF SettledOnItsWay
  <2>1. /\ FollowedBy(frames[d], Card!Frame("asked", q), Card!Frame("decided", q))
        /\ blips = 0 /\ q \in cards[d] =>
             OnSocket(frames[d], Card!Frame("decided", q)) \/ [b |-> d, q |-> q] \in late
    BY <1>4 DEF SettledOnItsWay
  <2>2. CASE d # b
    BY <1>5, <2>1, <2>2
  <2>3. CASE d = b
    <3>1. Card!Frame("asked", q) \in CardFrames /\ Card!Frame("decided", q) \in CardFrames
      BY DEF CardFrames, Card!Frame
    <3>2. FollowedBy(frames'[b], Card!Frame("asked", q), Card!Frame("decided", q))
          /\ (f = Card!Frame("asked", q) => OnSocket(frames'[b], Card!Frame("decided", q)))
      BY <1>1, <1>5, <2>1, <2>3, <3>1, TheRestFollows DEF f
    <3>3. CASE f = Card!Frame("asked", q)
      BY <2>3, <3>2, <3>3
    <3>4. CASE f = Card!Frame("decided", q)
      <4>1. f.kind = "decided" /\ f.q = q
        BY <3>4, FramesDiffer
      <4>2. q \notin cards'[b]
        BY <1>5, <4>1
      <4> QED
        BY <2>3, <3>2, <4>2
    <3>5. CASE f # Card!Frame("asked", q) /\ f # Card!Frame("decided", q)
      <4>1. f.q # q
        BY <1>2, <3>5
      <4>2. q \in cards'[b] => q \in cards[b]
        BY <1>5, <4>1
      <4> QED
        BY <1>8, <2>1, <2>3, <3>2, <3>5, <4>2
    <3> QED
      BY <3>3, <3>4, <3>5
  <2> QED
    BY <2>2, <2>3
<1> QED
  BY <1>6, <1>7, <1>9, <1>11, <1>12 DEF CardInv

\* The answer to a body's own event reaches it, late or not.
LEMMA CardIsAnswered ==
  ASSUME CardInv, NEW a \in answers, Card!Answered(a)
  PROVE  CardInv'
<1>1. a.to \in Bodies /\ a.q \in Card!Questions
  BY DEF CardInv, CardTypes
<1>2. /\ answers' \subseteq answers
      /\ cards' = [cards EXCEPT ![a.to] = @ \cup {a.q}]
      /\ late' = IF status[a.q] = "settled" /\ Card!Frame("decided", a.q) \notin Card!ToSet(frames[a.to])
                 THEN late \cup {[b |-> a.to, q |-> a.q]} ELSE late
      /\ UNCHANGED <<status, frames, clicks, cardRuns, results, blips, failures>>
  BY DEF Card!Answered
<1>3. \A b \in Bodies : cards[b] \subseteq cards'[b] /\ cards'[b] \subseteq cards[b] \cup {a.q}
                        /\ (b # a.to => cards'[b] = cards[b])
  BY <1>1, <1>2 DEF CardInv, CardTypes
<1>4. CardTypes'
  BY <1>1, <1>2 DEF CardInv, CardTypes
<1>5. AskedInTurn' /\ NoneTooEarly'
  BY <1>2 DEF CardInv, AskedInTurn, Card!Asked, NoneTooEarly
<1>6. AskedOrOnItsWay'
  BY <1>2, <1>3 DEF CardInv, AskedOrOnItsWay
<1>7. frames[a.to] \in Seq(CardFrames)
  BY <1>1 DEF CardInv, CardTypes
<1>8. Card!Frame("decided", a.q) \in Card!ToSet(frames[a.to]) => OnSocket(frames[a.to], Card!Frame("decided", a.q))
  BY <1>7 DEF Card!ToSet, OnSocket
<1>9. late \subseteq late' /\ (status[a.q] = "settled" =>
        OnSocket(frames[a.to], Card!Frame("decided", a.q)) \/ [b |-> a.to, q |-> a.q] \in late')
  BY <1>2, <1>8
<1>10. SettledOnItsWay'
  BY <1>1, <1>2, <1>3, <1>9 DEF CardInv, SettledOnItsWay
<1> QED
  BY <1>4, <1>5, <1>6, <1>10 DEF CardInv

\* The answer to a decision takes the card with it, if the decision was taken.
LEMMA CardIsDecided ==
  ASSUME CardInv, NEW r \in results, Card!Decided(r)
  PROVE  CardInv'
<1>1. r.by \in Bodies /\ r.q \in Card!Questions /\ (r.ok => status[r.q] = "settled")
  BY DEF CardInv, CardTypes, NoneTooEarly
<1>2. /\ results' \subseteq results
      /\ cards' = [cards EXCEPT ![r.by] = IF r.ok THEN @ \ {r.q} ELSE @]
      /\ UNCHANGED <<status, frames, answers, clicks, cardRuns, late, blips, failures>>
  BY DEF Card!Decided
<1>3. \A b \in Bodies : cards'[b] \subseteq cards[b]
                        /\ \A q \in cards[b] : status[q] # "settled" => q \in cards'[b]
  BY <1>1, <1>2 DEF CardInv, CardTypes
<1>4. CardTypes'
  BY <1>2 DEF CardInv, CardTypes
<1>5. AskedInTurn' /\ NoneTooEarly'
  BY <1>2 DEF CardInv, AskedInTurn, Card!Asked, NoneTooEarly
<1>6. AskedOrOnItsWay' /\ SettledOnItsWay'
  BY <1>2, <1>3 DEF CardInv, AskedOrOnItsWay, SettledOnItsWay
<1> QED
  BY <1>4, <1>5, <1>6 DEF CardInv

\* A socket is lost with what is on it.
LEMMA CardBlips ==
  ASSUME CardInv, NEW b \in Bodies, Card!Blip(b)
  PROVE  CardInv'
<1>1. /\ frames' = [frames EXCEPT ![b] = <<>>] /\ blips' = blips + 1 /\ blips \in Nat
      /\ UNCHANGED <<status, answers, clicks, cardRuns, results, cards, late, failures>>
  BY DEF Card!Blip, CardInv, CardTypes
<1>2. frames'[b] = <<>> /\ \A d \in Bodies : d # b => frames'[d] = frames[d]
  BY <1>1 DEF CardInv, CardTypes
<1>3. blips' # 0 /\ blips' \in Nat
  BY <1>1
<1>4. CardTypes'
  BY <1>1, <1>3 DEF CardInv, CardTypes
<1>5. AskedInTurn' /\ NoneTooEarly'
  BY <1>1, <1>2, EmptySocket DEF CardInv, AskedInTurn, Card!Asked, NoneTooEarly
<1>6. AskedOrOnItsWay' /\ SettledOnItsWay'
  BY <1>1, <1>2, <1>3, EmptySocket DEF CardInv, AskedOrOnItsWay, SettledOnItsWay
<1> QED
  BY <1>4, <1>5, <1>6 DEF CardInv

\* Every step of the bodies, the server and the network keeps the invariant.
LEMMA CardsKeepUp ==
  ASSUME Card!CardsAssumption, CardInv, [Card!Next]_(Card!vars)
  PROVE  CardInv'
<1>0. /\ clicks \subseteq [by : Bodies, q : Card!Questions, accept : BOOLEAN]
      /\ results \subseteq [by : Bodies, q : Card!Questions, ok : BOOLEAN]
      /\ cardRuns \subseteq [by : Bodies, q : Card!Questions, accept : BOOLEAN]
      /\ cards \in [Bodies -> SUBSET Card!Questions]
      /\ \A c \in cardRuns : status[c.q] = "running"
      /\ \A c, d \in cardRuns : c.q = d.q => c = d
  BY DEF CardInv, CardTypes, NoneTooEarly
<1>1. ASSUME NEW by \in {{}} \cup {{b} : b \in Bodies}, Card!Ask(by) PROVE CardInv'
  BY <1>1, CardAsks
<1>2. ASSUME NEW b \in Bodies, Card!Hear(b) PROVE CardInv'
  BY <1>2, CardHears
<1>3. ASSUME NEW b \in Bodies, Card!Blip(b) PROVE CardInv'
  BY <1>3, CardBlips
<1>4. ASSUME NEW b \in Bodies, NEW q \in Card!Questions, NEW accept \in BOOLEAN, Card!Decide(b, q, accept)
      PROVE CardInv'
  <2>1. clicks' \subseteq [by : Bodies, q : Card!Questions, accept : BOOLEAN]
    BY <1>0, <1>4 DEF Card!Decide
  <2> QED
    BY <1>0, <1>4, <2>1, CardWaits DEF Card!Decide
<1>5. ASSUME NEW a \in answers, Card!Answered(a) PROVE CardInv'
  BY <1>5, CardIsAnswered
<1>6. ASSUME NEW c \in clicks \cup results, Card!RequestFails(c) PROVE CardInv'
  <2>1. Card!Result(c, FALSE) \in [by : Bodies, q : Card!Questions, ok : BOOLEAN] /\ ~Card!Result(c, FALSE).ok
    BY <1>0 DEF Card!Result
  <2>2. clicks' \subseteq clicks /\ results' \subseteq results \cup {Card!Result(c, FALSE)}
        /\ UNCHANGED <<status, frames, answers, cardRuns, cards, late, blips>>
    BY <1>6 DEF Card!RequestFails
  <2> QED
    BY <1>0, <2>1, <2>2, CardWaits
<1>7. ASSUME NEW c \in clicks, Card!Take(c) PROVE CardInv'
  <2>1. CASE c.accept
    BY <1>7, <2>1, CardRuns DEF Card!Take
  <2>2. CASE ~c.accept
    <3>1. \A d \in cardRuns : d.q # c.q
      BY <1>0, <1>7 DEF Card!Take
    <3> QED
      BY <1>7, <2>2, <3>1, CardSettles DEF Card!Take
  <2> QED
    BY <2>1, <2>2
<1>8. ASSUME NEW c \in clicks, Card!TakeTooLate(c) PROVE CardInv'
  <2>1. Card!Result(c, FALSE) \in [by : Bodies, q : Card!Questions, ok : BOOLEAN] /\ ~Card!Result(c, FALSE).ok
    BY <1>0 DEF Card!Result
  <2>2. clicks' \subseteq clicks /\ results' = results \cup {Card!Result(c, FALSE)}
        /\ UNCHANGED <<status, frames, answers, cardRuns, cards, late, blips>>
    BY <1>8 DEF Card!TakeTooLate
  <2> QED
    BY <1>0, <2>1, <2>2, CardWaits
<1>9. ASSUME NEW c \in cardRuns, Card!Ran(c) PROVE CardInv'
  <2>1. cardRuns' = cardRuns \ {c} /\ \A d \in cardRuns' : d.q # c.q
    BY <1>0, <1>9 DEF Card!Ran
  <2> QED
    BY <1>0, <1>9, <2>1, CardSettles DEF Card!Ran
<1>10. ASSUME NEW r \in results, Card!Decided(r) PROVE CardInv'
  BY <1>10, CardIsDecided
<1>11. CASE UNCHANGED Card!vars
  BY <1>0, <1>11, CardWaits DEF Card!vars
<1> QED
  BY <1>1, <1>2, <1>3, <1>4, <1>5, <1>6, <1>7, <1>8, <1>9, <1>10, <1>11 DEF Card!Next

\* What leaves a screen was decided.
LEMMA DecidedCardsGo ==
  ASSUME CardInv, [Card!Next]_(Card!vars)
  PROVE  \A b \in Bodies : \A q \in cards[b] \ cards'[b] : status[q] \in {"running", "settled"}
<1> SUFFICES ASSUME NEW b \in Bodies, NEW q \in cards[b], q \notin cards'[b]
             PROVE  status[q] = "settled"
  OBVIOUS
<1>1. cards \in [Bodies -> SUBSET Card!Questions] /\ q \in Card!Questions
  BY DEF CardInv, CardTypes
<1>2. ASSUME NEW d \in Bodies, Card!Hear(d) PROVE status[q] = "settled"
  <2> DEFINE f == Head(frames[d])
  <2>1. frames[d] \in Seq(CardFrames) /\ frames[d] # <<>> /\ f \in CardFrames
    BY <1>2 DEF Card!Hear, CardInv, CardTypes
  <2>2. cards' = [cards EXCEPT ![d] = IF f.kind = "asked" THEN @ \cup {f.q} ELSE @ \ {f.q}]
    BY <1>2 DEF Card!Hear
  <2>3. d = b /\ f.kind # "asked" /\ f.q = q
    BY <1>1, <2>2
  <2>4. f = Card!Frame("decided", q)
    BY <2>1, <2>3 DEF CardFrames, Card!Frame
  <2>5. OnSocket(frames[b], Card!Frame("decided", q))
    BY <2>1, <2>3, <2>4, SocketShortened
  <2> QED
    BY <1>1, <2>5 DEF CardInv, NoneTooEarly
<1>3. ASSUME NEW r \in results, Card!Decided(r) PROVE status[q] = "settled"
  BY <1>1, <1>3 DEF Card!Decided, CardInv, NoneTooEarly
<1>4. ASSUME NEW a \in answers, Card!Answered(a) PROVE FALSE
  BY <1>1, <1>4 DEF Card!Answered
<1>5. cards' # cards
  OBVIOUS
<1>6. ASSUME NEW by, Card!Ask(by) PROVE FALSE
  BY <1>5, <1>6 DEF Card!Ask
<1>7. ASSUME NEW d, NEW p, NEW accept, Card!Decide(d, p, accept) PROVE FALSE
  BY <1>5, <1>7 DEF Card!Decide
<1>8. ASSUME NEW c, Card!Take(c) \/ Card!TakeTooLate(c) \/ Card!Ran(c) \/ Card!RequestFails(c) \/ Card!Blip(c)
      PROVE  FALSE
  BY <1>5, <1>8 DEF Card!Take, Card!TakeTooLate, Card!Ran, Card!RequestFails, Card!Blip
<1>9. CASE UNCHANGED Card!vars
  BY <1>5, <1>9 DEF Card!vars
<1> QED
  BY <1>2, <1>3, <1>4, <1>6, <1>7, <1>8, <1>9 DEF Card!Next

\* The invariant of a quiet network.
LEMMA QuietCardsFollow ==
  ASSUME CardInv
  PROVE  Card!EveryBodyIsAsked /\ Card!SettledCardsGo
<1>1. Card!Quiet => \A b \in Bodies : frames[b] = <<>>
  BY DEF Card!Quiet
<1>2. Card!EveryBodyIsAsked
  BY <1>1, EmptySocket DEF CardInv, AskedOrOnItsWay, Card!EveryBodyIsAsked
<1>3. Card!SettledCardsGo
  BY <1>1, EmptySocket DEF CardInv, CardTypes, SettledOnItsWay, Card!SettledCardsGo
<1> QED
  BY <1>2, <1>3

\* useRuntimeConnection and decideApproval over any bodies, questions, cut sockets and failed
\* requests: an open question is on every body and a card of it never goes, and a settled one
\* is on none once all is quiet, but for a socket that was cut or an answer that came late.
THEOREM CardsFollowTheirQuestions ==
  ASSUME Card!CardsAssumption
  PROVE  Card!Spec => CardsAreSettled
<1>1. Card!Init => CardInv
  BY CardInit
<1>2. CardInv /\ [Card!Next]_(Card!vars) => CardInv'
  BY CardsKeepUp
<1>3. CardInv => Card!EveryBodyIsAsked /\ Card!SettledCardsGo
  BY QuietCardsFollow
<1>4. CardInv /\ [Card!Next]_(Card!vars) =>
        [\A b \in Bodies : \A q \in cards[b] \ cards'[b] : status[q] \in {"running", "settled"}]_(Card!vars)
  BY DecidedCardsGo
<1> QED
  BY <1>1, <1>2, <1>3, <1>4, PTL DEF Card!Spec, CardsAreSettled, Card!CardsAreSettled, Card!OpenQuestionsStay
=============================================================================
