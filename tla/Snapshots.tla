----------------------------- MODULE Snapshots -----------------------------
(***************************************************************************)
(* The durable snapshots of one session (SessionRuntime.runIngest,         *)
(* persistReversal and resume in apps/runtime/src/runtime.ts) and the      *)
(* table that keeps them (PgSnapshotStore in packages/persistence).        *)
(*                                                                         *)
(* A morph saves the world, the body and the memory, one after another,    *)
(* while the session's lane waits.  An undo or a redo saves the memory and *)
(* then the body, and nobody waits: several may be under way at once, and  *)
(* beside the morph's.  A save is two statements, an insert that returns   *)
(* its serial id and a delete of what it replaces.  Statements are handed  *)
(* to a pool of connections in order, and of those in hand at once any may *)
(* run first; each may fail, and the process may die between any two.      *)
(*                                                                         *)
(* The data of a snapshot is named by the step that made it: a body by the *)
(* morph or reversal that left it so, a memory by the reversals that       *)
(* taught it something.  A lesson handed back is not modelled, and neither *)
(* is a snapshot that fails validation: hydrate takes what it is given.    *)
(***************************************************************************)
EXTENDS Naturals, FiniteSets, Sequences, SequencesExt

CONSTANTS
  Lane,         \* the saver the session's lane waits for
  Reversers,    \* savers nobody waits for
  Connections,  \* connections of the pool (4 in pg.ts)
  MaxSteps,     \* bound: morphs and reversals
  MaxLives,     \* bound: times the process is started
  MaxFailures   \* bound: statements that fail

SnapshotsAssumption ==
  /\ Lane \notin Reversers
  /\ Connections \in Nat \ {0}
  /\ MaxSteps \in Nat /\ MaxLives \in Nat \ {0} /\ MaxFailures \in Nat

Kinds == {"world", "ui", "memory"}
Savers == Reversers \cup {Lane}
Steps == 1..MaxSteps

VARIABLES
  life,        \* which start of the process this is
  step,        \* morphs and reversals so far, over all lives
  reversals,   \* the steps that were reversals              (history)
  taught,      \* the reversals that taught a lesson         (history)
  body,        \* the step that left the body as it is, 0 for a fresh one
  lessons,     \* the reversals the live memory remembers
  reversible,  \* there is something to undo or redo
  saver,       \* what each saver still has to do
  issued,      \* the savers whose statement is with the pool, in the order handed over
  rows,        \* the snapshots table
  lastId,      \* the serial last taken
  found,       \* what a resume under way has read
  failures,    \* statements that failed
  missed,      \* a save was cut short, by a failure or by a crash (history)
  overtaken    \* a statement ran before one handed over earlier   (history)

liveVars == <<life, step, reversals, taught, body, lessons, reversible>>
tableVars == <<rows, lastId, failures, missed, overtaken>>
vars == <<liveVars, tableVars, saver, issued, found>>

-----------------------------------------------------------------------------
(* Savers *)

Idle == [todo |-> <<>>, of |-> 0, lessons |-> {}, life |-> 0, id |-> 0]
\* A saver whose next statement is the insert of the first kind it has left.  A
\* memory is exported when its save is called; a body was taken when the step ended.
Inserting(todo, of) == [todo |-> todo, of |-> of, lessons |-> lessons', life |-> life, id |-> 0]
StartsAllAtOnce(s, todo) ==   \* a save that is not awaited
  /\ saver' = [saver EXCEPT ![s] = Inserting(todo, step')]
  /\ issued' = issued \o <<s, s>>
Starts(s, todo) ==
  /\ saver' = [saver EXCEPT ![s] = Inserting(todo, step')]
  /\ issued' = Append(issued, s)

\* A morph the guard let through.  The lane takes the next event when its saves end.
Ingest ==
  /\ saver[Lane] = Idle /\ step < MaxSteps
  /\ step' = step + 1 /\ body' = step + 1 /\ reversible' = TRUE
  /\ UNCHANGED lessons
  /\ Starts(Lane, <<"world", "ui", "memory">>)
  /\ UNCHANGED <<life, reversals, taught, tableVars, found>>

\* What a reversal saves, in its order.
ReversalSavesBodyFirst == <<"ui", "memory">>
ReversalSaves == <<"memory", "ui">>

\* undo or redo, which teaches or does not (learn: false, a redo).
TakeBack(r, teaches) ==
  /\ reversible /\ saver[r] = Idle /\ step < MaxSteps
  /\ step' = step + 1 /\ body' = step + 1
  /\ reversals' = reversals \cup {step + 1}
  /\ taught' = IF teaches THEN taught \cup {step + 1} ELSE taught
  /\ lessons' = IF teaches THEN lessons \cup {step + 1} ELSE lessons
  /\ Starts(r, ReversalSaves)
  /\ UNCHANGED <<life, reversible, tableVars, found>>

-----------------------------------------------------------------------------
(* The table *)

OfKind(k) == {r \in rows : r.kind = k}
\* The last row of a kind in id order, which is the one a resume reads.
Newest(k) == CHOOSE r \in OfKind(k) : \A q \in OfKind(k) : q.id <= r.id
\* The rows of a kind a save replaces.
Replaced(k, id) == {r \in OfKind(k) : r.id < id}

\* The i-th statement in hand is through with the pool.
Taken(i) == issued' = RemoveAt(issued, i)
InHand(i) == i \in 1..Len(issued) /\ i <= Connections
Overtakes(i) == overtaken' = IF i > 1 THEN TRUE ELSE overtaken

\* An insert takes its serial and is visible in one step; its delete goes to the pool.
Insert(i) ==
  /\ InHand(i) /\ saver[issued[i]].id = 0 /\ Overtakes(i)
  /\ LET s == issued[i] IN
     /\ lastId' = lastId + 1
     /\ rows' = rows \cup {[id |-> lastId', kind |-> Head(saver[s].todo), of |-> saver[s].of,
                            lessons |-> saver[s].lessons, life |-> saver[s].life]}
     /\ saver' = [saver EXCEPT ![s].id = lastId']
     /\ issued' = Append(RemoveAt(issued, i), s)
  /\ UNCHANGED <<liveVars, failures, missed, found>>

\* The delete of what the row replaces, and the call of the next save there is.
Delete(i) ==
  /\ InHand(i) /\ saver[issued[i]].id > 0 /\ Overtakes(i)
  /\ UNCHANGED <<liveVars, lastId, failures, missed, found>>
  /\ LET s == issued[i]
         rest == Tail(saver[s].todo) IN
     /\ rows' = rows \ Replaced(Head(saver[s].todo), saver[s].id)
     /\ IF rest = <<>>
        THEN saver' = [saver EXCEPT ![s] = Idle] /\ Taken(i)
        ELSE /\ saver' = [saver EXCEPT ![s] = Inserting(rest, @.of)]
             /\ issued' = Append(RemoveAt(issued, i), s)

\* A failed statement ends its saver: the catch logs, and the session goes on.
Fail(i) ==
  /\ InHand(i) /\ failures < MaxFailures /\ Overtakes(i)
  /\ failures' = failures + 1 /\ missed' = TRUE
  /\ saver' = [saver EXCEPT ![issued[i]] = Idle]
  /\ Taken(i)
  /\ UNCHANGED <<liveVars, rows, lastId, found>>

-----------------------------------------------------------------------------
(* Crash and resume *)

\* What was with the pool either ran before this or is lost.
Crash ==
  /\ life < MaxLives
  /\ life' = life + 1
  /\ body' = 0 /\ lessons' = {} /\ reversible' = FALSE
  /\ missed' = (missed \/ issued # <<>>)
  /\ saver' = [s \in Savers |-> Idle] /\ issued' = <<>> /\ found' = {}
  /\ UNCHANGED <<step, reversals, taught, rows, lastId, failures, overtaken>>

\* resume reads the latest row of each kind ...
ResumeList ==
  /\ found = {} /\ rows # {}
  /\ found' = {Newest(k) : k \in {j \in Kinds : OfKind(j) # {}}}
  /\ UNCHANGED <<liveVars, tableVars, saver, issued>>

\* ... and, once it has them, adds to the memory and replaces the body and its history.
ResumeHydrate ==
  /\ found # {}
  /\ LET uis == {r \in found : r.kind = "ui"}
         memories == {r \in found : r.kind = "memory"} IN
     /\ lessons' = lessons \cup UNION {r.lessons : r \in memories}
     /\ body' = IF uis = {} THEN body ELSE (CHOOSE r \in uis : TRUE).of
     /\ reversible' = (reversible /\ uis = {})
  /\ found' = {}
  /\ UNCHANGED <<life, step, reversals, taught, tableVars, saver, issued>>

-----------------------------------------------------------------------------
Init ==
  /\ life = 1 /\ step = 0 /\ reversals = {} /\ taught = {}
  /\ body = 0 /\ lessons = {} /\ reversible = FALSE
  /\ saver = [s \in Savers |-> Idle] /\ issued = <<>>
  /\ rows = {} /\ lastId = 0
  /\ found = {} /\ failures = 0 /\ missed = FALSE /\ overtaken = FALSE

Next ==
  \/ Ingest
  \/ \E r \in Reversers, teaches \in BOOLEAN : TakeBack(r, teaches)
  \/ \E i \in 1..Connections : Insert(i) \/ Delete(i) \/ Fail(i)
  \/ Crash \/ ResumeList \/ ResumeHydrate

Spec == Init /\ [][Next]_vars

-----------------------------------------------------------------------------
(* Properties *)

TypeOK ==
  /\ life \in 1..MaxLives /\ step \in 0..MaxSteps /\ body \in 0..MaxSteps
  /\ taught \subseteq reversals /\ reversals \subseteq Steps /\ lessons \subseteq taught
  /\ saver \in [Savers -> [todo : {<<>>} \cup UNION {[1..n -> Kinds] : n \in 1..3}, of : 0..MaxSteps,
                           lessons : SUBSET Steps, life : 0..MaxLives, id : 0..lastId]]
  /\ ToSet(issued) = {s \in Savers : saver[s] # Idle} /\ IsInjective(issued)
  /\ rows \subseteq [id : 1..lastId, kind : Kinds, of : Steps, lessons : SUBSET Steps, life : 1..MaxLives]

Quiet == \A s \in Savers : saver[s] = Idle

\* "Deleting by id rather than by timestamp means two saves in the same instant still
\* leave exactly one row" (pg.ts): when every save was let finish, each kind has at
\* most one row, in whatever order the statements of the savers ran.
OneRowPerKind ==
  Quiet /\ ~missed => \A r, q \in rows : r.kind = q.kind => r = q

\* No statement of any saver, failed or cut short, takes away the row a resume would
\* read: the newest row of a kind goes only when a newer one is there.
NewestIsKept ==
  [][rows # rows' =>
       \A k \in Kinds : OfKind(k) # {} => OfKind(k)' # {} /\ Newest(k)'.id >= Newest(k).id]_vars

\* "If the process dies in between, resume shows the old card but keeps the corrected
\* lesson" (persistReversal): while the process that took a card back lives, the body it
\* left is never stored without the lesson the reversal taught.
LessonIsKept ==
  \A r \in OfKind("ui") :
    r = Newest("ui") /\ r.life = life /\ r.of \in taught =>
      OfKind("memory") # {} /\ r.of \in Newest("memory").lessons

\* "Server undo also snapshots the UI so resume cannot resurrect a dismissed card"
\* (docs/STATUS.md): when every save has finished and the last step was a reversal, the
\* body a resume would show is the one that reversal left.
UndoneStaysUndone ==
  Quiet /\ ~missed /\ step \in reversals => OfKind("ui") # {} /\ Newest("ui").of = step
=============================================================================
