------------------------------ MODULE OnceOnly ------------------------------
(***************************************************************************)
(* What the intake promises each event, whatever the channel does: it is   *)
(* taken once, then either run or let go.  A copy that arrives while the   *)
(* event is in hand, or while it is remembered as run, changes nothing.    *)
(* The memory is bounded, so taking a new event may make the runtime       *)
(* forget one it has run - never one it still holds (seen.ts:15-18).       *)
(***************************************************************************)
EXTENDS Naturals

CONSTANT Events

VARIABLES
  status,   \* "out", "held" or "run"
  runs      \* how often each event was run

vars == <<status, runs>>

Init == status = [e \in Events |-> "out"] /\ runs = [e \in Events |-> 0]

\* A copy is accepted, and the memory may push out one event already run.
Take(e) ==
  /\ status[e] = "out"
  /\ \/ status' = [status EXCEPT ![e] = "held"]
     \/ \E old \in Events \ {e} :
          /\ status[old] = "run"
          /\ status' = [status EXCEPT ![e] = "held", ![old] = "out"]
  /\ UNCHANGED runs

\* What was taken once is run once, or let go without being run.
Run(e) ==
  /\ status[e] = "held"
  /\ status' = [status EXCEPT ![e] = "run"]
  /\ runs' = [runs EXCEPT ![e] = @ + 1]
LetGo(e) ==
  /\ status[e] = "held"
  /\ status' = [status EXCEPT ![e] = "out"]
  /\ UNCHANGED runs

Next == \E e \in Events : Take(e) \/ Run(e) \/ LetGo(e)

Spec == Init /\ [][Next]_vars
=============================================================================
