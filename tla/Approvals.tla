----------------------------- MODULE Approvals -----------------------------
(***************************************************************************)
(* Consent: what a decision wants to run and may not run on its own waits  *)
(* in two places, the record a person answers (ApprovalStore in            *)
(* packages/permission-engine/src/approvals.ts) and the plan that runs if  *)
(* the answer is yes (pendingExecutions in runtime-core/src/index.ts).     *)
(* Both are bounded, both are keyed by an id a model may choose again, and *)
(* several bodies can answer the same question.                            *)
(*                                                                         *)
(* Asking, approving and refusing are each one synchronous step; what is   *)
(* awaited after an approval is the capability itself, whose end changes   *)
(* nothing here.  A question is numbered by when it was asked, so that a   *)
(* second question under the same id can be told from the first.           *)
(***************************************************************************)
EXTENDS Naturals, FiniteSets, Sequences, SequencesExt

CONSTANTS
  ApprovalIds,            \* approval ids: session, decision and capability
  MaxApprovals,   \* MAX_APPROVALS
  MaxQuestions    \* bound: how many questions are asked

ASSUME ApprovalsAssumption ==
  /\ IsFiniteSet(ApprovalIds)
  /\ MaxApprovals \in Nat \ {0}
  /\ MaxQuestions \in Nat

NoPlan == 0

VARIABLES
  records,     \* ApprovalStore.items in the order of the Map
  plans,       \* pendingExecutions: the question whose plan waits under an id
  questions,   \* the id each question was asked under      (history)
  approved,    \* the questions that were answered with yes (history)
  refused,     \* the questions that were answered with no  (history)
  runs         \* the questions whose plan was run          (history)

vars == <<records, plans, questions, approved, refused, runs>>

-----------------------------------------------------------------------------
(* ApprovalStore *)

Record == [id : ApprovalIds, question : Nat \ {0}, status : {"pending", "approved"}]

Places(id) == {i \in 1..Len(records) : records[i].id = id}
Known(id) == Places(id) # {}
Place(id) == CHOOSE i \in Places(id) : TRUE   \* no id has two records
Pending(id) == \E i \in Places(id) : records[i].status = "pending"

\* evictOldest: the oldest decided record, or the oldest of any kind.
EvictedFirst == 1
Evicted ==
  LET decided == {i \in 1..Len(records) : records[i].status # "pending"}
  IN  IF decided = {} THEN 1 ELSE CHOOSE i \in decided : \A j \in decided : i <= j

\* create, for an id that has no record.
Created(record) ==
  Append(IF Len(records) >= MaxApprovals THEN RemoveAt(records, Evicted) ELSE records,
         record)

\* setStatus: only a pending record changes; a Map entry keeps its place.
Decided(id, status) ==
  [i \in 1..Len(records) |->
     IF i \in Places(id) /\ records[i].status = "pending"
     THEN [records[i] EXCEPT !.status = status] ELSE records[i]]

-----------------------------------------------------------------------------
(* RuntimeCore *)

Waiting(ps) == {id \in ApprovalIds : ps[id] # NoPlan}
IdsOf(rs) == {rs[i].id : i \in 1..Len(rs)}

\* Past the ceiling the plans whose question is gone go too.
Swept(ps, rs) ==
  IF Cardinality(Waiting(ps)) > MaxApprovals
  THEN [id \in ApprovalIds |-> IF id \in IdsOf(rs) THEN ps[id] ELSE NoPlan]
  ELSE ps

\* runIngest: a capability that needs approval, unless its id is already known.
Ask(id) ==
  LET n == Len(questions) + 1
  IN  /\ n <= MaxQuestions
      /\ ~Known(id)
      /\ records' = Created([id |-> id, question |-> n, status |-> "pending"])
      /\ plans' = Swept([plans EXCEPT ![id] = n], records')
      /\ questions' = Append(questions, id)
      /\ UNCHANGED <<approved, refused, runs>>

\* The questions an answer to this id decides: one at most.
Open(id) == {records[i].question : i \in {j \in Places(id) : records[j].status = "pending"}}

\* approve: run the plan, once; an answer with no plan or no record does not.
ApproveAgain(id) ==
  /\ approved' = approved \cup Open(id)
  /\ records' = Decided(id, "approved")
  /\ runs' = IF plans[id] # NoPlan /\ Known(id) THEN Append(runs, plans[id]) ELSE runs
  /\ UNCHANGED <<plans, questions, refused>>
Approve(id) ==
  /\ approved' = approved \cup Open(id)
  /\ records' = Decided(id, "approved")
  /\ IF plans[id] # NoPlan /\ Known(id)
     THEN /\ runs' = Append(runs, plans[id])
          /\ plans' = [plans EXCEPT ![id] = NoPlan]
     ELSE UNCHANGED <<runs, plans>>
  /\ UNCHANGED <<questions, refused>>

\* reject: the plan goes, and the record with it whatever it said.
Reject(id) ==
  /\ refused' = refused \cup Open(id)
  /\ plans' = [plans EXCEPT ![id] = NoPlan]
  /\ records' = IF Known(id) THEN RemoveAt(records, Place(id)) ELSE records
  /\ UNCHANGED <<questions, approved, runs>>

Init ==
  /\ records = <<>>
  /\ plans = [id \in ApprovalIds |-> NoPlan]
  /\ questions = <<>>
  /\ approved = {} /\ refused = {} /\ runs = <<>>

Next == \E id \in ApprovalIds : Ask(id) \/ Approve(id) \/ Reject(id)

Spec == Init /\ [][Next]_vars

-----------------------------------------------------------------------------
(* Properties *)

TypeOK ==
  /\ records \in Seq(Record)
  /\ plans \in [ApprovalIds -> Nat]
  /\ questions \in Seq(ApprovalIds)
  /\ approved \subseteq Nat /\ refused \subseteq Nat
  /\ runs \in Seq(Nat)

\* Consent is neither invented nor lost nor used twice: what ran is what was
\* approved, each question once, and nothing that was refused (STATUS.md: "run
\* only once however many times the answer arrives, not run after a refusal").
ConsentRunsOnce ==
  /\ ToSet(runs) = approved
  /\ \A i, j \in 1..Len(runs) : runs[i] = runs[j] => i = j
  /\ approved \cap refused = {}

\* A question still open can be answered: its own plan, and not an earlier one
\* asked under the same id, waits for the answer (index.ts:417-449: record and
\* plan are kept in two maps with two ceilings).
PendingHasItsPlan ==
  \A i \in 1..Len(records) :
    records[i].status = "pending" => plans[records[i].id] = records[i].question

\* Neither map grows past the ceiling, although plans are only swept when they
\* do: plans of forgotten questions never pile up (STATUS.md: "a plan waiting
\* for consent goes when the question does").
WithinCeilings ==
  /\ Len(records) <= MaxApprovals
  /\ Cardinality(IdsOf(records)) = Len(records)
  /\ Cardinality(Waiting(plans)) <= MaxApprovals

\* Consent is kept: what was asked can be answered, what was answered was done once or not at
\* all, and nothing piles up behind it (index.ts: approve, reject and the sweep of the plans).
ConsentIsKept == ConsentRunsOnce /\ PendingHasItsPlan /\ WithinCeilings

\* An open question is forgotten unanswered only when every record is an open
\* question (approvals.ts:7-8).
OpenQuestionsGoLast ==
  [][\A id \in ApprovalIds :
       Pending(id) /\ ~Known(id)' /\ refused' = refused
         => \A i \in 1..Len(records) : records[i].status = "pending"]_vars

\* approvals.ts:80-81: "A decision is final: only a pending request can be
\* decided. Answering an already-answered one gives back the answer that
\* stands".  So an approval stands until the ceiling needs its place.
ApprovalIsFinal ==
  [][\A id \in ApprovalIds :
       Known(id) /\ ~Pending(id) /\ ~Known(id)' => Len(records) = MaxApprovals]_vars
=============================================================================
