-------------------------------- MODULE Cards --------------------------------
(***************************************************************************)
(* The cards on which several bodies of one session are asked to approve a *)
(* capability: how a question reaches them, over the socket and in the     *)
(* answer to the event that caused it (apps/runtime), and what takes a     *)
(* card away (useRuntimeConnection and decideApproval in apps/web).        *)
(*                                                                         *)
(* A question is a number, in the order they were asked.  What the server  *)
(* does with an approved capability is the subject of module Approvals;    *)
(* here its run is the time between the claim and the announcement.        *)
(***************************************************************************)
EXTENDS Naturals, Sequences, SequencesExt, FiniteSets

CONSTANTS
  Bodies,
  MaxQuestions,   \* bound
  MaxBlips,       \* bound: times a socket loses what is on its way
  MaxFailures     \* bound: requests that fail on the way there or back

CardsAssumption ==
  /\ IsFiniteSet(Bodies) /\ MaxQuestions \in Nat /\ MaxBlips \in Nat /\ MaxFailures \in Nat

VARIABLES
  status,    \* of each question: "unasked", "open", "running", "settled"
  frames,    \* on the socket of each body, oldest first
  answers,   \* answers on their way: the question an event of a body was answered with
  clicks,    \* decisions on their way to the server
  runs,      \* the approved capabilities under way
  results,   \* answers to decisions on their way back
  cards,     \* on the screen of each body
  late,      \* a body's answer brought a question its socket had already settled (history)
  blips, failures

vars == <<status, frames, answers, clicks, runs, results, cards, late, blips, failures>>

Questions == 1..MaxQuestions
Asked == {q \in Questions : status[q] # "unasked"}
Frame(kind, q) == [kind |-> kind, q |-> q]
Broadcast(kind, q) == frames' = [b \in Bodies |-> Append(frames[b], Frame(kind, q))]

\* An event makes the runtime ask: every body hears of it, and the event's own sender
\* (a body, or a sensor that draws nothing) is answered with the question.
Ask(by) ==
  /\ Cardinality(Asked) < MaxQuestions
  /\ LET q == Cardinality(Asked) + 1 IN
     /\ status' = [status EXCEPT ![q] = "open"]
     /\ Broadcast("asked", q)
     /\ answers' = answers \cup [to : by, q : {q}]
  /\ UNCHANGED <<clicks, runs, results, cards, late, blips, failures>>

HearQuestionsOnly(b) ==
  /\ frames[b] # <<>>
  /\ frames' = [frames EXCEPT ![b] = Tail(@)]
  /\ LET f == Head(frames[b]) IN
     cards' = [cards EXCEPT ![b] = IF f.kind = "asked" THEN @ \cup {f.q} ELSE @]
  /\ UNCHANGED <<status, answers, clicks, runs, results, late, blips, failures>>
\* A frame reaches a body.
Hear(b) ==
  /\ frames[b] # <<>>
  /\ frames' = [frames EXCEPT ![b] = Tail(@)]
  /\ LET f == Head(frames[b]) IN
     cards' = [cards EXCEPT ![b] = IF f.kind = "asked" THEN @ \cup {f.q} ELSE @ \ {f.q}]
  /\ UNCHANGED <<status, answers, clicks, runs, results, late, blips, failures>>

\* The answer to a body's event reaches it.
Answered(a) ==
  /\ a \in answers /\ answers' = answers \ {a}
  /\ cards' = [cards EXCEPT ![a.to] = @ \cup {a.q}]
  /\ late' = IF status[a.q] = "settled" /\ Frame("decided", a.q) \notin ToSet(frames[a.to])
             THEN late \cup {[b |-> a.to, q |-> a.q]} ELSE late
  /\ UNCHANGED <<status, frames, clicks, runs, results, blips, failures>>

\* A person presses a button of a card.
Decide(b, q, accept) ==
  /\ q \in cards[b]
  /\ clicks' = clicks \cup {[by |-> b, q |-> q, accept |-> accept]}
  /\ UNCHANGED <<status, frames, answers, runs, results, cards, late, blips, failures>>

Result(c, ok) == [by |-> c.by, q |-> c.q, ok |-> ok]

TakeAgain(c) ==
  /\ c \in clicks /\ clicks' = clicks \ {c}
  /\ IF c.accept
     THEN status' = [status EXCEPT ![c.q] = "running"] /\ runs' = runs \cup {c} /\ UNCHANGED <<frames, results>>
     ELSE /\ status' = [status EXCEPT ![c.q] = "settled"] /\ Broadcast("decided", c.q)
          /\ results' = results \cup {Result(c, TRUE)} /\ UNCHANGED runs
  /\ UNCHANGED <<answers, cards, late, blips, failures>>
\* The server claims the question: a refusal settles it, an approval runs it.
Take(c) ==
  /\ c \in clicks /\ clicks' = clicks \ {c}
  /\ status[c.q] = "open"
  /\ IF c.accept
     THEN status' = [status EXCEPT ![c.q] = "running"] /\ runs' = runs \cup {c} /\ UNCHANGED <<frames, results>>
     ELSE /\ status' = [status EXCEPT ![c.q] = "settled"] /\ Broadcast("decided", c.q)
          /\ results' = results \cup {Result(c, TRUE)} /\ UNCHANGED runs
  /\ UNCHANGED <<answers, cards, late, blips, failures>>

\* A question somebody else has decided is answered 404.
TakeTooLate(c) ==
  /\ c \in clicks /\ clicks' = clicks \ {c}
  /\ status[c.q] # "open"
  /\ results' = results \cup {Result(c, FALSE)}
  /\ UNCHANGED <<status, frames, answers, runs, cards, late, blips, failures>>

Ran(c) ==
  /\ c \in runs /\ runs' = runs \ {c}
  /\ status' = [status EXCEPT ![c.q] = "settled"]
  /\ Broadcast("decided", c.q)
  /\ results' = results \cup {Result(c, TRUE)}
  /\ UNCHANGED <<answers, clicks, cards, late, blips, failures>>

\* The decision's answer: one that was not taken leaves the card where it was.
Decided(r) ==
  /\ r \in results /\ results' = results \ {r}
  /\ cards' = [cards EXCEPT ![r.by] = IF r.ok THEN @ \ {r.q} ELSE @]
  /\ UNCHANGED <<status, frames, answers, clicks, runs, late, blips, failures>>

\* A request fails before the server has it, or its answer is lost.
RequestFails(c) ==
  /\ failures < MaxFailures /\ failures' = failures + 1
  /\ \/ c \in clicks /\ clicks' = clicks \ {c} /\ results' = results \cup {Result(c, FALSE)}
     \/ c \in results /\ c.ok /\ results' = (results \ {c}) \cup {Result(c, FALSE)} /\ UNCHANGED clicks
  /\ UNCHANGED <<status, frames, answers, runs, cards, late, blips>>

\* The socket is lost with what is on it, and opened again: nothing is sent twice.
Blip(b) ==
  /\ blips < MaxBlips /\ blips' = blips + 1
  /\ frames' = [frames EXCEPT ![b] = <<>>]
  /\ UNCHANGED <<status, answers, clicks, runs, results, cards, late, failures>>

Init ==
  /\ status = [q \in Questions |-> "unasked"]
  /\ frames = [b \in Bodies |-> <<>>] /\ cards = [b \in Bodies |-> {}]
  /\ answers = {} /\ clicks = {} /\ runs = {} /\ results = {} /\ late = {}
  /\ blips = 0 /\ failures = 0

Next ==
  \/ \E by \in {{}} \cup {{b} : b \in Bodies} : Ask(by)
  \/ \E b \in Bodies : Hear(b) \/ Blip(b) \/ \E q \in Questions, accept \in BOOLEAN : Decide(b, q, accept)
  \/ \E a \in answers : Answered(a)
  \/ \E c \in clicks \cup results : RequestFails(c)
  \/ \E c \in clicks : Take(c) \/ TakeTooLate(c)
  \/ \E c \in runs : Ran(c)
  \/ \E r \in results : Decided(r)

Spec == Init /\ [][Next]_vars

-----------------------------------------------------------------------------
(* Properties *)

TypeOK ==
  /\ status \in [Questions -> {"unasked", "open", "running", "settled"}]
  /\ \A b \in Bodies : cards[b] \subseteq Asked /\ \A i \in 1..Len(frames[b]) : frames[b][i].q \in Asked
  /\ \A c \in clicks \cup runs : c.by \in Bodies /\ c.q \in Asked
  /\ \A c \in runs : status[c.q] = "running"

Quiet == frames = [b \in Bodies |-> <<>>] /\ answers = {} /\ clicks = {} /\ runs = {} /\ results = {}

\* "The runtime asks every body watching" (docs/STATUS.md): with nothing on its way and
\* no socket ever cut, an open question is on every body, whichever caused it.
EveryBodyIsAsked ==
  Quiet /\ blips = 0 => \A b \in Bodies, q \in Questions : status[q] = "open" => q \in cards[b]

\* A card of a question nobody has decided never goes: a press that was refused, lost or
\* cut off on the way leaves it where it was (decideApproval).
OpenQuestionsStay ==
  [][\A b \in Bodies : \A q \in cards[b] \ cards'[b] : status[q] \in {"running", "settled"}]_vars

\* A settled question is off every screen when all is quiet, unless a socket was cut, or
\* the answer to an event brought it to a body that had already been told.
SettledCardsGo ==
  Quiet /\ blips = 0 => \A b \in Bodies : \A q \in cards[b] :
    status[q] = "settled" => [b |-> b, q |-> q] \in late

\* Cards follow their questions: an open one is on every body and stays there, and a settled
\* one goes, but for the body whose own answer came late.
CardsAreSettled ==
  [](EveryBodyIsAsked /\ SettledCardsGo) /\ OpenQuestionsStay

\* "The body drops the card whoever answered it" (docs/STATUS.md): with no socket ever
\* cut and nothing on its way, no body shows a card of a settled question.
NoSettledCard ==
  Quiet /\ blips = 0 => \A b \in Bodies : \A q \in cards[b] : status[q] # "settled"
=============================================================================
