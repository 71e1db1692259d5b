-------------------------------- MODULE Routing --------------------------------
(* Which brain thinks, and what becomes of its answer: the providers an environment  *)
(* configures and the one the router picks (packages/intelligence/src/router.ts), a  *)
(* turn of that provider (anthropic.ts, openai.ts, http.ts), and the decision the    *)
(* engine makes of it (packages/decision-engine).  The declared browser sessions are *)
(* alike, and one stands for all; a local model is at an address of its own.         *)
EXTENDS Integers, Sequences, FiniteSets, SequencesExt

CONSTANTS
  None,       \* nothing
  Purposes    \* what may be asked: [capability, privacy]

RoutingAssumption == None \notin Purposes

VARIABLES
  env,       \* the environment: keys, a login, a local model, sessions
  request,   \* what is asked
  chosen,    \* the provider asked
  turn,      \* how its turn went
  decision   \* whose decision it is, and why if it is not the provider's
vars == <<env, request, chosen, turn, decision>>

----
(* The providers.                                                                   *)
Ids == {"anthropic", "openai", "local", "session", "mock"}
Deep == {"reason.general", "reason.deep", "code", "structured_generation"}
CapabilitiesOf ==
  [anthropic |-> Deep \cup {"vision"}, openai |-> Deep, local |-> Deep, session |-> {},
   mock |-> Deep \cup {"fast.classification", "vision"}]
Supports(id, capability) == capability \in CapabilitiesOf[id]

\* A variable of the environment: absent or empty, blanks only, or a value.
Values == {"absent", "blank", "set"}
Environments ==
  [key : Values, token : Values, openai : Values, local : BOOLEAN, session : BOOLEAN]

\* The credential: a key wins over a login, and blanks are no key.
Credential(e) == CASE e.key = "set" -> "key" [] e.key # "set" /\ e.token = "set" -> "login" [] OTHER -> "none"

KeyAccounts == {"anthropic", "openai"}
Given(id, e) == (IF id = "anthropic" THEN e.key ELSE e.openai) # "absent"

Configured(id, e) ==
  CASE id \in KeyAccounts -> Given(id, e)
    [] id = "local" -> e.local
    [] id = "session" -> e.session
    [] OTHER -> TRUE
BuildDefaultProviders(e) == {id \in Ids : Configured(id, e)}

Healthy(id, e) ==
  CASE id = "anthropic" -> Credential(e) # "none"
    [] id = "openai" -> e.openai # "absent"
    [] OTHER -> id # "session"

----
(* The router.                                                                      *)
TierRank == [mock |-> 0, local |-> 1, openai |-> 2, session |-> 2, anthropic |-> 3]
Cheapest(ids) == CHOOSE id \in ids : \A other \in ids : TierRank[id] <= TierRank[other]
MostCapable(ids) == CHOOSE id \in ids : \A other \in ids : TierRank[id] >= TierRank[other]
MinLocalPreferred(ids) == IF "local" \in ids THEN "local" ELSE Cheapest(ids)

Declared(capability, e) == {id \in BuildDefaultProviders(e) : Supports(id, capability)}
Able(capability, e) == {id \in BuildDefaultProviders(e) : Supports(id, capability) /\ Healthy(id, e)}

Route(asked, e) ==
  LET healthy == Able(asked.capability, e)
  IN CASE healthy = {} -> "mock"
       [] healthy # {} /\ asked.privacy -> MinLocalPreferred(healthy)
       [] healthy # {} /\ ~asked.privacy /\ asked.capability = "fast.classification" -> Cheapest(healthy)
       [] OTHER -> MostCapable(healthy)

(* The accounts as the person is shown them.                                        *)
Linked(id, e) == Given(id, e)
DescribeAccountLinks(e) ==
  [id \in KeyAccounts |-> [state |-> IF Linked(id, e) THEN "linked" ELSE "not_linked",
                           healthy |-> Linked(id, e) /\ Healthy(id, e)]]

----
(* A turn: an answer that ended or was cut short, with a decision, some other value  *)
(* or no value in its body; or no answer.                                            *)
Answers == [end : {"clean", "cut"}, body : {"decision", "value", "none"}]
Failure(code) == [end |-> "failed", body |-> code]
Silence == Failure("timeout")
Failures == {Failure("http"), Failure("provider_error")}

\* stopFailure: only one adapter reads how the turn ended.
Stopped(id, end) == id = "anthropic" /\ end # "clean"

\* What the provider's evaluate comes to: a value, or the failure it throws.
Evaluate(id, t) ==
  CASE t.end = "failed" -> t.body
    [] t.end # "failed" /\ Stopped(id, t.end) -> "incomplete_turn"
    [] t.end # "failed" /\ ~Stopped(id, t.end) /\ t.body = "none" -> "unparseable_output"
    [] OTHER -> t.body

Valid(came) == came = "decision"

Decide(id, t) ==
  LET came == Evaluate(id, t)
  IN IF Valid(came) THEN [by |-> id, reason |-> None]
     ELSE [by |-> "deterministic", reason |-> IF came = "value" THEN "invalid_output" ELSE came]

----
Init ==
  /\ env \in Environments
  /\ request = None /\ chosen = None /\ turn = None /\ decision = None

Ask ==
  /\ request = None
  /\ request' \in Purposes
  /\ chosen' = Route(request', env)
  /\ UNCHANGED <<env, turn, decision>>

\* The engine asks for deep reasoning, of anybody.
Deliberating == request # None /\ request.capability = "reason.deep" /\ ~request.privacy /\ decision = None

Settle(t) == turn' = t /\ decision' = Decide(chosen, t) /\ UNCHANGED <<env, request, chosen>>

\* The brain that needs nobody answers with a decision.
MockAnswers == Deliberating /\ chosen = "mock" /\ Settle([end |-> "clean", body |-> "decision"])
ProviderAnswers == Deliberating /\ chosen # "mock" /\ \E t \in Answers \cup Failures : Settle(t)

Armed(id) == id # "mock"
\* A provider that says nothing is given up on.
TimesOut == Deliberating /\ Armed(chosen) /\ Settle(Silence)

Next == Ask \/ MockAnswers \/ ProviderAnswers \/ TimesOut
Spec == Init /\ [][Next]_vars
\* The timer of a request fires, and the brain in this process answers.
FairSpec == Spec /\ WF_vars(TimesOut) /\ WF_vars(MockAnswers)

----
\* What is private is thought about here: by the local model if there is one, else by the
\* deterministic brain, whatever accounts are linked.
PrivateStaysHome == chosen # None /\ request.privacy => chosen \in {"local", "mock"}

\* The brain asked can do what is asked and is well, and a session is never asked; only what no
\* brain can do is put to the last resort regardless.
ChosenCanAnswer ==
  chosen # None =>
    \/ chosen \in BuildDefaultProviders(env) /\ Supports(chosen, request.capability) /\ Healthy(chosen, env)
    \/ chosen = "mock" /\ \A id \in Ids : ~Supports(id, request.capability)

\* What the person is shown of an account is true of the brains: an account is linked if there is
\* a brain for it, and deliberation never goes to a lesser brain than a linked one that is well.
LinksAreTrue ==
  \A id \in KeyAccounts :
    LET link == DescribeAccountLinks(env)[id]
    IN /\ link.state = "linked" <=> id \in BuildDefaultProviders(env)
       /\ link.healthy => TierRank[Route([capability |-> "reason.deep", privacy |-> FALSE], env)] >= TierRank[id]

\* Nothing decides but a decision: neither a value of another shape nor half an answer of a turn
\* that did not end.
OnlyADecisionDecides ==
  decision # None /\ decision.by # "deterministic" =>
    turn.body = "decision" /\ (chosen = "anthropic" => turn.end = "clean")

\* The trail tells the failures of Anthropic's turns apart: one that did not end, one that held
\* no value, one with a value that is no decision, and one there was not.
FailuresToldApart ==
  decision # None /\ chosen = "anthropic" /\ decision.by = "deterministic" =>
    decision.reason =
      CASE turn.end = "cut" -> "incomplete_turn"
        [] turn.end = "clean" /\ turn.body = "none" -> "unparseable_output"
        [] turn.end = "clean" /\ turn.body = "value" -> "invalid_output"
        [] OTHER -> turn.body

\* A provider that never answers is decided without.
EveryQuestionIsDecided == Deliberating ~> decision # None

\* (failure.ts) A turn the model never finished is told from one that answered in prose, whichever
\* provider it was.
UnfinishedIsNamed ==
  decision # None /\ decision.reason = "unparseable_output" => turn.end = "clean"

\* (.env.example) There are two ways in to Anthropic: a key, or a login's token.
LoginIsAWayIn ==
  Deliberating /\ Credential(env) # "none" => chosen = "anthropic"
================================================================================
