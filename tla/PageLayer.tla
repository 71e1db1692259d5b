------------------------------- MODULE PageLayer -------------------------------
(* What the page layer of the extension says of a page: read in page.ts, shaped in  *)
(* shape.ts, and shaped again where the worker relays it.  A name is known by its   *)
(* text, its length, the digits of the long number written in it (none mostly), and *)
(* whether its words speak of a password or a card; two names never become one by   *)
(* being cut.  Headings are read and listed as actions are.                         *)
EXTENDS Integers, Sequences, FiniteSets, SequencesExt, FiniteSetsExt

CONSTANTS
  MaxName,    \* MAX_NAME
  Item,       \* PAGE_LIMITS.item
  MaxFields,  \* PAGE_LIMITS.fields
  MaxActions, \* PAGE_LIMITS.actions
  ScanLimit,  \* SCAN_LIMIT
  Separator,  \* the length of what stands between two names
  Pages       \* the pages looked at

PageLayerAssumption ==
  {MaxName, Item, MaxFields, MaxActions, ScanLimit, Separator} \subseteq Nat \ {0}

VARIABLES page, read, shape, relayed
vars == <<page, read, shape, relayed>>

Nothing == <<>>

----
(* A name fit to send: its long number is one mark, and it is no longer than cap.   *)
Masked(name) == IF name.digits > 0 THEN [name EXCEPT !.length = @ - name.digits + 1, !.digits = 0] ELSE name
PageName(name, cap) == [Masked(name) EXCEPT !.length = Min({@, cap})]

\* One field of the payload: whole names, each once, until one does not fit.
Grown(list, name) == IF list.names = <<>> THEN name.length ELSE list.length + Separator + name.length
Skipped(list, name) == name.length = 0 \/ name \in ToSet(list.names)

WithName(list, name, max) ==
  CASE list.full \/ Skipped(list, name) -> list
    [] Len(list.names) >= max \/ Grown(list, name) > MaxName -> [list EXCEPT !.full = TRUE]
    [] OTHER -> [list EXCEPT !.names = Append(@, name), !.length = Grown(list, name)]

NameList(names, max) ==
  LET list == FoldLeft(LAMBDA l, raw : WithName(l, PageName(raw, Item), max),
                       [names |-> <<>>, length |-> 0, full |-> FALSE], names)
  IN [names |-> list.names, whole |-> TRUE]

----
(* The reading: the first boxes and buttons a person can see.  A box whose          *)
(* attributes speak of a secret is not labelled; its label is looked at in shape.ts.*)
SecretAttributes(box) == box.secret
IsSecretField(box) == box.secret \/ (box.label # Nothing /\ box.label.secret)

Take(elements) ==
  LET seen == SelectSeq(elements, LAMBDA el : el.seen)
  IN SubSeq(seen, 1, Min({Len(seen), ScanLimit}))

PageField(box) == [secret |-> box.secret, label |-> IF IsSecretField([box EXCEPT !.label = Nothing]) THEN Nothing ELSE box.label]

ReadPage(p) ==
  [title |-> p.title,
   fields |-> [i \in DOMAIN Take(p.fields) |-> PageField(Take(p.fields)[i])],
   actions |-> [i \in DOMAIN Take(p.actions) |-> Take(p.actions)[i].label]]

Omitted(fields) == Len(SelectSeq(fields, IsSecretField))

PageShape(r) ==
  LET described == SelectSeq(r.fields, LAMBDA box : ~IsSecretField(box))
  IN [title |-> PageName(r.title, MaxName),
      fields |-> NameList([i \in DOMAIN described |-> described[i].label], MaxFields),
      actions |-> NameList(r.actions, MaxActions),
      omitted |-> Omitted(r.fields)]

----
(* The worker builds the message again.  A list is one name to it: masked name by   *)
(* name, since a separator ends a number, and cut where it is too long.             *)
Joined(names) == FoldLeft(LAMBDA n, name : n + name.length + (IF n = 0 THEN 0 ELSE Separator), 0, names)
Again(list) ==
  LET names == [i \in DOMAIN list.names |-> Masked(list.names[i])]
  IN [names |-> names, whole |-> Joined(names) <= MaxName]

RelayPayload(s) ==
  [title |-> PageName(s.title, MaxName), fields |-> Again(s.fields), actions |-> Again(s.actions), omitted |-> s.omitted]

Init == page \in Pages /\ read = Nothing /\ shape = Nothing /\ relayed = Nothing

Reads == read = Nothing /\ read' = ReadPage(page) /\ UNCHANGED <<page, shape, relayed>>
Shapes == read # Nothing /\ shape = Nothing /\ shape' = PageShape(read) /\ UNCHANGED <<page, read, relayed>>
Relays == shape # Nothing /\ relayed = Nothing /\ relayed' = RelayPayload(shape) /\ UNCHANGED <<page, read, shape>>

Next == Reads \/ Shapes \/ Relays
Spec == Init /\ [][Next]_vars

----
Seen(elements) == SelectSeq(elements, LAMBDA el : el.seen)
Secret(box) == box.secret \/ box.label.secret

\* Two places keep the rule, each on what it can see: nothing that is named is the label of a
\* box that may hold a secret, by its attributes or by the words beside it, or of a box nobody
\* can see.
NothingSecretIsNamed ==
  shape # Nothing =>
    \A name \in ToSet(shape.fields.names) :
      \E i \in DOMAIN page.fields :
        page.fields[i].seen /\ ~Secret(page.fields[i]) /\ page.fields[i].label.text = name.text

\* What was held back is counted, a box for a box, whichever of the two places held it back: a
\* login page is told from a page without boxes.
OmittedIsCounted ==
  shape # Nothing /\ Len(Seen(page.fields)) <= ScanLimit =>
    shape.omitted = Cardinality({i \in DOMAIN page.fields : page.fields[i].seen /\ Secret(page.fields[i])})

\* The list sent is the longest run of the distinct names of the page, from the first, that
\* is whole and within the bounds: no name is passed over for a later one.
WholeNamesInOrder ==
  shape # Nothing =>
    LET labels == [i \in DOMAIN read.actions |-> PageName(read.actions[i], Item)]
        first == {i \in DOMAIN labels : labels[i].length > 0 /\ \A j \in 1 .. i - 1 : labels[j] # labels[i]}
        names == [n \in 1 .. Cardinality(first) |-> labels[CHOOSE i \in first : Cardinality({j \in first : j <= i}) = n]]
        fits == {k \in 0 .. Len(names) : k <= MaxActions /\ Joined(SubSeq(names, 1, k)) <= MaxName}
    IN shape.actions.names = SubSeq(names, 1, Max(fits))

\* What nobody can see costs nothing: a page with its hidden elements taken out reads the same.
HiddenCostsNothing ==
  shape # Nothing =>
    shape = PageShape(ReadPage([page EXCEPT !.fields = Seen(@), !.actions = Seen(@)]))

\* The shaping at the edge repeats the shaping of the page and finds nothing left to do.
RelayChangesNothing == relayed # Nothing => relayed = shape
================================================================================
