---------------------------- MODULE MCDecisions -----------------------------
(***************************************************************************)
(* What is decided and who consents: the questions a person is asked and   *)
(* the plans that wait for the answer (Approvals), the cards they are      *)
(* answered on (Cards), one event after another from the world to the body *)
(* with the brain in the process and with a provider's (Brain), which      *)
(* brain is asked (Routing), and what the tools of other servers become    *)
(* (Tools).  One component moves in each behaviour, see MCIntake.          *)
(***************************************************************************)
EXTENDS Approvals, TLC

CONSTANTS
  Bodies, MaxCards, MaxBlips, MaxFailures,   \* of Cards; MaxCards is its MaxQuestions
  None, Unsaved, Never, Nobody

VARIABLES
  part,  \* the component that moves in this behaviour
  \* the cards
  status, frames, answers, clicks, cardRuns, results, cards, late, blips, failures,
  \* one session from event to body
  world, presence, tree, level, back, sinceMorph, sinceMajor, retry, asked, last, overruled,
  count,
  \* the router
  env, request, chosen, turn, decision,
  \* the registry of tools
  registry, toolAnswers, heard

cardVars == <<status, frames, answers, clicks, cardRuns, results, cards, late, blips,
              failures>>
brainVars == <<world, presence, tree, level, back, sinceMorph, sinceMajor, retry, asked,
               last, overruled, count>>
routerVars == <<env, request, chosen, turn, decision>>
toolVars == <<registry, toolAnswers, heard>>

\* A tool of another server, found before the session began.
OneTool == ("mcp.read" :> [risk |-> "read", needs |-> {"mcp"}])

\* What may be asked of the router.
Purposes ==
  [capability : {"fast.classification", "reason.deep", "vision", "embedding"}, privacy : BOOLEAN]

\* The servers are "a", which was allowed, and "a.b"; their tools have names with dots, names
\* that say what they do not, a name of no character and one that is too long.
CharA == 97
CharB == 98
CharC == 99
Dot == 46
Offered(name, words, hint) == [name |-> name, words |-> words, hint |-> hint]
Offers ==
  {Offered(<<CharC>>, {"read"}, "none"), Offered(<<CharC>>, {"read"}, "destructive"),
   Offered(<<CharB, Dot, CharC>>, {}, "readOnly"), Offered(<<CharB>>, {"read", "mutation"}, "readOnly"),
   Offered(<<>>, {}, "none"), Offered(<<CharC, CharC, CharC, CharC>>, {"destructive"}, "none"),
   Offered(<<CharA>>, {"mutation"}, "none")}

\* Ids of questions differ in nothing but their names, so that they are named in the order in
\* which they are first asked; nobody answers an id that was never asked.
IdsInTurn == \A id \in ToSet(questions) : 1..id \subseteq ToSet(questions)

Card == INSTANCE Cards WITH
  MaxQuestions <- MaxCards, runs <- cardRuns

Reflex == INSTANCE Brain WITH
  Tools <- <<>>, Granted <- {}, Script <- {"troubles", "alerts", "returns"}, Provided <- FALSE,
  Levels <- <<2>>, Answering <- FALSE, MaxEvents <- 3, RecentLimit <- 2, HostLimit <- 2,
  KeyLimit <- 4, FileLimit <- 2, MaxSensors <- 2, NoveltyWindow <- 4, Returning <- 2,
  Idling <- 2, SwitchingKeys <- 4, Exploring <- 3, Cooldown <- 1, MajorDwell <- 2,
  MajorShare <- 2, MaxNodes <- 200

Model == INSTANCE Brain WITH
  Tools <- OneTool, Granted <- {}, Script <- {"alerts"}, Provided <- TRUE,
  Levels <- <<2, 1, 3, 4>>, Answering <- TRUE, MaxEvents <- 2, RecentLimit <- 2,
  HostLimit <- 2, KeyLimit <- 4, FileLimit <- 2, MaxSensors <- 2, NoveltyWindow <- 4,
  Returning <- 2, Idling <- 2, SwitchingKeys <- 4, Exploring <- 3, Cooldown <- 1,
  MajorDwell <- 2, MajorShare <- 2, MaxNodes <- 200

Router == INSTANCE Routing WITH
  Purposes <- Purposes

Tool == INSTANCE Tools WITH
  Servers <- {<<CharA>>, <<CharA, Dot, CharB>>}, Allowed <- {<<CharA>>}, Offers <- Offers,
  Override <- (<<CharA>> :> "read"), MaxName <- 3, MaxTools <- 2, MaxListing <- 3,
  MaxAnswers <- 2, answers <- toolAnswers

Unconfigured == [key |-> "absent", token |-> "absent", openai |-> "absent", local |-> FALSE, session |-> FALSE]

ASSUME PartsAssumption ==
  Card!CardsAssumption /\ Model!BrainAssumption /\ Router!RoutingAssumption /\ Tool!ToolsAssumption

AllInit ==
  /\ part \in {"consent", "cards", "brain", "model", "routing", "tools"}
  /\ Init
  /\ Card!Init
  /\ IF part = "model" THEN Model!Init ELSE Reflex!Init
  /\ Router!Init /\ (part # "routing" => env = Unconfigured)
  /\ Tool!Init

AllNext ==
  /\ UNCHANGED part
  /\ \/ /\ part = "consent" /\ Next /\ IdsInTurn'
        /\ UNCHANGED <<cardVars, brainVars, routerVars, toolVars>>
     \/ part = "cards" /\ Card!Next /\ UNCHANGED <<vars, brainVars, routerVars, toolVars>>
     \/ part = "brain" /\ Reflex!Next /\ UNCHANGED <<vars, cardVars, routerVars, toolVars>>
     \/ part = "model" /\ Model!Next /\ UNCHANGED <<vars, cardVars, routerVars, toolVars>>
     \/ part = "routing" /\ Router!Next /\ UNCHANGED <<vars, cardVars, brainVars, toolVars>>
     \/ part = "tools" /\ Tool!Next /\ UNCHANGED <<vars, cardVars, brainVars, routerVars>>

allVars == <<part, vars, cardVars, brainVars, routerVars, toolVars>>
AllSpec == AllInit /\ [][AllNext]_allVars

-----------------------------------------------------------------------------
\* With nothing on its way an open question is on every body and a settled one on none, but for
\* the body whose own answer came late (useRuntimeConnection); a press that was refused or lost
\* leaves the card where it was (decideApproval).
CardsAreSettled == Card!CardsAreSettled

\* From an event to the body: an incident is shown exactly while a problem is open, what a morph
\* brings in reads only what its own plan ran (resolvePatchBindings), and whatever a provider
\* plans, nothing reaches outside on its own below full autonomy nor without its permission
\* (permission.ts).
BrainServesTheWorld ==
  /\ [](part = "brain" => Reflex!BodyFollowsProblems)
  /\ [](part = "model" => Model!NothingUnaskedRuns)
  /\ Reflex!ShownIsLive

\* The brain that is asked is there, can answer and stays here with what is private (router.ts);
\* half an answer decides nothing and the trail says why (decision-engine, failure.ts).
RoutingIsSound ==
  part = "routing" => /\ Router!PrivateStaysHome /\ Router!ChosenCanAnswer /\ Router!LinksAreTrue
                      /\ Router!OnlyADecisionDecides /\ Router!FailuresToldApart

\* What other servers offer is found under ids of its own, whose meaning never changes; nothing
\* that says it changes something runs as a read, nor on a permission given to another server
\* (packages/mcp-adapter, CapabilityRegistry.register).
ToolsKeepTheirMeaning ==
  /\ [](part = "tools" => /\ Tool!NoToolIsLost /\ Tool!TwoToolsTwoIds
                          /\ Tool!ChangesAreNoReads /\ Tool!PermissionIsOneServers)
  /\ Tool!FirstMeaningHolds
=============================================================================
