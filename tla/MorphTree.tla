------------------------------ MODULE MorphTree ------------------------------
(***************************************************************************)
(* applyPatch (packages/morph-engine/src/apply.ts): a patch is a sequence  *)
(* of operations on a tree of components; applying it gives the next tree  *)
(* and the inverse patch that undoes it, or fails and gives neither.       *)
(*                                                                         *)
(* A tree is a record of its root, the children of each of its ids in      *)
(* order, and how each id looks.  A component is a tree: what add and      *)
(* replace bring in and what remove and replace take out is a whole        *)
(* subtree.  A look is a node's content - type, props, bindings and        *)
(* actions as one value - and the signals the engine keeps in reserved     *)
(* props.                                                                  *)
(***************************************************************************)
EXTENDS Naturals, Sequences, FiniteSets, SequencesExt

CONSTANT MaxNodes   \* MAX_TREE_NODES (a hundred levels of depth are out of scale)

Ids(t) == DOMAIN t.kids
Leaf(n, content) ==
  [root |-> n, kids |-> [x \in {n} |-> <<>>],
   look |-> [x \in {n} |-> [content |-> content, signals |-> {}]]]

\* subtreeIds: n and everything below it.
Below(t, n) ==
  LET below[m \in Ids(t)] == {m} \cup UNION {below[c] : c \in ToSet(t.kids[m])}
  IN  below[n]

\* findParentAndIndex, for an id of the tree that is not its root.
ParentOf(t, n) == CHOOSE p \in Ids(t) : Contains(t.kids[p], n)
PositionIn(list, n) == CHOOSE i \in 1..Len(list) : list[i] = n
IndexOf(t, n) == PositionIn(t.kids[ParentOf(t, n)], n)

\* The ids given, under one of them.
Part(t, root, ids) ==
  [root |-> root, kids |-> [m \in ids |-> t.kids[m]], look |-> [m \in ids |-> t.look[m]]]
Subtree(t, n) == Part(t, n, Below(t, n))

\* splice(index, 1) at n's parent; a list left empty is no list (pruneIfEmptied).
Cut(t, n) ==
  [Part(t, t.root, Ids(t) \ Below(t, n)) EXCEPT
     !.kids[ParentOf(t, n)] = RemoveAt(@, PositionIn(@, n))]

\* splice(index, 0, c): an index past the end inserts at the end.
Graft(t, p, index, c) ==
  LET at == IF index > Len(t.kids[p]) + 1 THEN Len(t.kids[p]) + 1 ELSE index
      ids == Ids(t) \cup Ids(c)
  IN  [root |-> t.root,
       kids |-> [m \in ids |->
                   IF m = p THEN InsertAt(t.kids[p], at, c.root)
                   ELSE IF m \in Ids(c) THEN c.kids[m] ELSE t.kids[m]],
       look |-> [m \in ids |-> IF m \in Ids(c) THEN c.look[m] ELSE t.look[m]]]

-----------------------------------------------------------------------------
(* Operations, with positions counted from 1 *)

AddOp(p, i, c) == [op |-> "add", parent |-> p, index |-> i, component |-> c]
RemoveOp(n) == [op |-> "remove", target |-> n]
ReplaceOp(n, c) == [op |-> "replace", target |-> n, component |-> c]
MoveOp(n, p, i) == [op |-> "move", target |-> n, parent |-> p, index |-> i]
\* updateProps and updateBinding
RewriteOp(n, content) == [op |-> "rewrite", target |-> n, content |-> content]
SignalOp(name, n) == [op |-> name, target |-> n]
SignalOps == {"collapse", "expand", "highlight", "focus"}
StructuralOps == {"add", "remove", "replace", "move"}

Signalled(signals, name) ==
  CASE name = "collapse" -> (signals \ {"expand"}) \cup {"collapse"}
    [] name = "expand" -> (signals \ {"collapse"}) \cup {"expand"}
    [] OTHER -> signals \cup {name}

\* What makes each operation possible; anything else throws MorphApplyError.
Possible(t, op) ==
  CASE op.op = "add" ->
         op.parent \in Ids(t) /\ Ids(op.component) \cap Ids(t) = {}
    [] op.op = "remove" -> op.target \in Ids(t) \ {t.root}
    [] op.op = "replace" ->
         /\ op.target \in Ids(t)
         /\ op.target # t.root =>
              Ids(op.component) \cap (Ids(t) \ Below(t, op.target)) = {}
    [] op.op = "move" ->
         /\ op.target \in Ids(t) \ {t.root}
         /\ op.parent \in Ids(t) \ Below(t, op.target)
    [] OTHER -> op.target \in Ids(t)

Result(t, op) ==
  CASE op.op = "add" -> Graft(t, op.parent, op.index, op.component)
    [] op.op = "remove" -> Cut(t, op.target)
    [] op.op = "replace" ->
         IF op.target = t.root THEN op.component
         ELSE Graft(Cut(t, op.target), ParentOf(t, op.target), IndexOf(t, op.target),
                    op.component)
    [] op.op = "move" ->
         Graft(Cut(t, op.target), op.parent, op.index, Subtree(t, op.target))
    [] op.op = "rewrite" -> [t EXCEPT !.look[op.target].content = op.content]
    [] OTHER -> [t EXCEPT !.look[op.target].signals = Signalled(@, op.op)]

\* A rewrite or a signal is undone by putting the whole node back as it was.
Inverse1(t, op) ==
  CASE op.op = "add" -> RemoveOp(op.component.root)
    [] op.op = "remove" ->
         AddOp(ParentOf(t, op.target), IndexOf(t, op.target), Subtree(t, op.target))
    [] op.op = "replace" -> ReplaceOp(op.component.root, Subtree(t, op.target))
    [] op.op = "move" -> MoveOp(op.target, ParentOf(t, op.target), IndexOf(t, op.target))
    [] OTHER -> ReplaceOp(op.target, Subtree(t, op.target))

\* One operation of a patch; the inverses pile up in reverse.
StepForward(sofar, op) ==
  IF sofar.ok /\ Possible(sofar.tree, op)
  THEN [ok |-> TRUE, tree |-> Result(sofar.tree, op),
        inverse |-> Append(sofar.inverse, Inverse1(sofar.tree, op))]
  ELSE [sofar EXCEPT !.ok = FALSE]
Step(sofar, op) ==
  IF sofar.ok /\ Possible(sofar.tree, op)
  THEN [ok |-> TRUE, tree |-> Result(sofar.tree, op),
        inverse |-> <<Inverse1(sofar.tree, op)>> \o sofar.inverse]
  ELSE [sofar EXCEPT !.ok = FALSE]

\* applyPatch: all of the operations or none, and no tree past the limits.
WithinLimits(done) == [done EXCEPT !.ok = @ /\ Cardinality(Ids(done.tree)) <= MaxNodes]
ApplyPatch(t, patch) ==
  LET sofar[n \in 0..Len(patch)] ==
        IF n = 0 THEN [ok |-> TRUE, tree |-> t, inverse |-> <<>>]
        ELSE Step(sofar[n - 1], patch[n])
  IN  WithinLimits(sofar[Len(patch)])
=============================================================================
