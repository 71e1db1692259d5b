------------------------------ MODULE MCScreen ------------------------------
(***************************************************************************)
(* What is read of what the person looks at: the pictures the desktop      *)
(* agent takes and the model that reads them (AgentScreen), and what the   *)
(* page layer of the browser extension says of a page (PageLayer).  One    *)
(* component moves in each behaviour, see MCIntake.                        *)
(***************************************************************************)
EXTENDS AgentScreen

VARIABLES
  part,  \* the component that moves in this behaviour
  \* the page layer
  page, read, shape, relayed

readerVars == <<page, read, shape, relayed>>

\* Pages of up to three boxes or four buttons.
Name(t, l, d, s) == [text |-> t, length |-> l, digits |-> d, secret |-> s]
Words == {Name("a", 2, 0, FALSE), Name("b", 4, 0, FALSE)}
Longer == {Name("", 0, 0, FALSE), Name("c", 9, 0, FALSE), Name("d", 6, 4, FALSE), Name("e", 11, 9, FALSE)}
UpTo(n, S) == UNION {[1 .. k -> S] : k \in 0 .. n}
Boxes == [seen : BOOLEAN, secret : BOOLEAN, label : Words \cup {Name("p", 3, 0, TRUE)}]
Buttons == [seen : {TRUE}, label : Words \cup Longer] \cup [seen : {FALSE}, label : Words]
BlankPage == [title |-> Name("", 0, 0, FALSE), fields |-> <<>>, actions |-> <<>>]
Pages ==
  [title : Words \cup Longer, fields : UpTo(3, Boxes), actions : {<<>>}]
  \cup [title : {Name("c", 9, 0, FALSE)}, fields : {<<>>}, actions : UpTo(4, Buttons)]

Reader == INSTANCE PageLayer WITH
  MaxName <- 9, Item <- 5, MaxFields <- 2, MaxActions <- 3, ScanLimit <- 3, Separator <- 1,
  Pages <- Pages

ASSUME PartsAssumption == Reader!PageLayerAssumption

AllInit ==
  /\ part \in {"screen", "page"}
  /\ Init
  /\ Reader!Init /\ (part # "page" => page = BlankPage)

AllNext ==
  /\ UNCHANGED part
  /\ \/ part = "screen" /\ Next /\ UNCHANGED readerVars
     \/ part = "page" /\ Reader!Next /\ UNCHANGED vars

allVars == <<part, vars, readerVars>>
AllSpec == AllInit /\ [][AllNext]_allVars

-----------------------------------------------------------------------------
\* Of a page nothing is named that may be a secret, and what is held back is counted, whichever of
\* the two places held it back; the names are whole and in order, what nobody can see costs none
\* of them, and shaping them again at the edge changes nothing (page.ts, shape.ts).
PageIsToldSafely ==
  part = "page" => /\ Reader!NothingSecretIsNamed /\ Reader!OmittedIsCounted
                   /\ Reader!WholeNamesInOrder /\ Reader!HiddenCostsNothing
                   /\ Reader!RelayChangesNothing
=============================================================================
