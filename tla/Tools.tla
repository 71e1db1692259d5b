--------------------------------- MODULE Tools ---------------------------------
(* The tools other processes offer (packages/mcp-adapter) and the registry that      *)
(* holds them as capabilities (packages/capability-core/src/registry.ts): what a     *)
(* server says of a tool decides the id it is planned by, the risk it runs at and    *)
(* the permission it needs.  A name is its characters, by code, and what its words   *)
(* mean; a server is its characters.                                                 *)
EXTENDS Integers, Sequences, FiniteSets, SequencesExt, TLC

CONSTANTS
  Servers,      \* the servers asked
  Allowed,      \* the servers whose permission was granted
  Offers,       \* what one of them may offer: [name, words, hint]
  Override,     \* the caller's own word on a tool: [name -> risk]
  MaxName,      \* MAX_TOOL_NAME
  MaxTools,     \* MAX_TOOLS_PER_SERVER
  MaxListing,   \* bound: tools in one answer
  MaxAnswers    \* bound: answers heard

ToolsAssumption ==
  /\ Allowed \subseteq Servers
  /\ {MaxName, MaxTools, MaxListing, MaxAnswers} \subseteq Nat \ {0}

VARIABLES
  registry,  \* [id -> capability]
  answers,   \* how many were heard
  heard      \* the server last heard, and its listing
vars == <<registry, answers, heard>>

----
(* Ids.  A character that could be taken for a separator is written as its code, in  *)
(* hexadecimal and at least two digits.                                              *)
Between(c, a, b) == a <= c /\ c <= b
PlainOrDot(c) == Between(c, 45, 57) \/ Between(c, 65, 90) \/ Between(c, 97, 122) \/ c = 95
Plain(c) == Between(c, 48, 57) \/ Between(c, 65, 90) \/ Between(c, 97, 122) \/ c \in {45, 95}
Dot == 46
Percent == 37

HexDigit(d) == IF d < 10 THEN 48 + d ELSE 55 + d
Digits(c) == CHOOSE n \in 2 .. 4 : c < 16 ^ n /\ (n > 2 => c >= 16 ^ (n - 1))
Escaped(c) == <<Percent>> \o [i \in 1 .. Digits(c) |-> HexDigit((c \div 16 ^ (Digits(c) - i)) % 16)]
IdSegment(text) == FlattenSeq([i \in DOMAIN text |-> IF Plain(text[i]) THEN <<text[i]>> ELSE Escaped(text[i])])

\* mcp.<server>.<tool>, and mcp:<server>.
Id(server, name) == IdSegment(server) \o <<Dot>> \o IdSegment(name)
McpPermission(server) == IdSegment(server)

----
(* Risk.  The caller's word, then what the name says it does, then the server's hint.*)

InferRisk(tool) ==
  CASE tool.name \in DOMAIN Override -> Override[tool.name]
    [] tool.hint = "destructive" \/ "destructive" \in tool.words -> "destructive"
    [] "mutation" \in tool.words -> "external_effect"
    [] OTHER -> IF tool.hint = "readOnly" \/ "read" \in tool.words THEN "read" ELSE "external_effect"

McpToolToCapability(server, tool) ==
  [server |-> server, tool |-> tool, risk |-> InferRisk(tool), needs |-> McpPermission(server)]

----
(* The registry keeps the first claim on an id.                                      *)
Register(held, id, capability) == held @@ (id :> capability)

RegisterAll(held, capabilities) ==
  FoldLeft(LAMBDA reg, c : Register(reg, Id(c.server, c.tool.name), c), held, capabilities)

----
(* Discovery.  No list is no tools; a tool without a usable name costs itself only.  *)
ShortTool(tool) == Len(tool.name) <= MaxName
IsUsableTool(tool) == Len(tool.name) \in 1 .. MaxName

Kept(listing) ==
  LET usable == SelectSeq(listing, IsUsableTool)
  IN SubSeq(usable, 1, IF Len(usable) < MaxTools THEN Len(usable) ELSE MaxTools)

DiscoverMcpCapabilities(server, listing) ==
  [i \in DOMAIN Kept(listing) |-> McpToolToCapability(server, Kept(listing)[i])]

Init == registry = <<>> /\ answers = 0 /\ heard = [server |-> <<>>, listing |-> <<>>]

\* A server answers with its tools.
Discover(server) ==
  /\ answers < MaxAnswers
  /\ \E n \in 0 .. MaxListing : \E listing \in [1 .. n -> Offers] :
       /\ registry' = RegisterAll(registry, DiscoverMcpCapabilities(server, listing))
       /\ heard' = [server |-> server, listing |-> listing]
  /\ answers' = answers + 1

\* It cannot be reached, or answers with something that is not a list.
Unheard(server) ==
  /\ answers < MaxAnswers
  /\ answers' = answers + 1
  /\ heard' = [server |-> server, listing |-> <<>>]
  /\ UNCHANGED registry

Next == \E server \in Servers : Discover(server) \/ Unheard(server)
Spec == Init /\ [][Next]_vars

----
Usable(listing) == {i \in DOMAIN listing : IsUsableTool(listing[i])}
Place(i, listing) == Cardinality({j \in Usable(listing) : j <= i})
Changes(tool) == tool.hint = "destructive" \/ tool.words \cap {"mutation", "destructive"} # {}

\* Registered capabilities have a name, run at a risk there is, and were offered by somebody.
TypeOK ==
  /\ answers \in 0 .. MaxAnswers
  /\ \A id \in DOMAIN registry :
       /\ registry[id].risk \in {"read", "safe_write", "external_effect", "destructive"}
       /\ registry[id].server \in Servers /\ registry[id].tool \in {t \in Offers : t.name # <<>>}

\* What a server offers is found under its id: of its usable tools, as many as one server may
\* contribute, whatever stands between them in the listing.
NoToolIsLost ==
  \A i \in Usable(heard.listing) :
    Place(i, heard.listing) <= MaxTools =>
      Id(heard.server, heard.listing[i].name) \in DOMAIN registry

\* Two different tools are two capabilities: what is registered under the id of a tool a server
\* offers is that tool of that server, and not another that came to the same id.
TwoToolsTwoIds ==
  \A i \in Usable(heard.listing) :
    LET id == Id(heard.server, heard.listing[i].name)
    IN id \in DOMAIN registry =>
         registry[id].server = heard.server /\ registry[id].tool.name = heard.listing[i].name

\* Nothing that says it changes something outside runs as a read, however its server annotates it,
\* unless the caller itself said so.
ChangesAreNoReads ==
  \A id \in DOMAIN registry :
    Changes(registry[id].tool) /\ registry[id].risk = "read" => registry[id].tool.name \in DOMAIN Override

\* A permission is one server's: what needs a permission that was granted is a tool of a server
\* that was allowed.
PermissionIsOneServers ==
  \A id \in DOMAIN registry :
    registry[id].needs \in {McpPermission(s) : s \in Allowed} => registry[id].server \in Allowed

\* What an id means never changes once something was planned or consented to under it, though the
\* server is asked again and describes its tools otherwise.
FirstMeaningHolds ==
  [][\A id \in DOMAIN registry : id \in DOMAIN registry' /\ registry'[id] = registry[id]]_vars
================================================================================
