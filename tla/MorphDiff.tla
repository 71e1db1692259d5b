------------------------------ MODULE MorphDiff ------------------------------
(***************************************************************************)
(* computeDiff (packages/morph-engine/src/diff.ts): the patch that turns   *)
(* one body into another, as additions, moves, updates and removals in     *)
(* this order, each found in the order of a walk over one of the trees.    *)
(* A node's content is its type and its props, a function of their names.  *)
(* Checked on every pair of small bodies over the ids given.               *)
(***************************************************************************)
EXTENDS MorphTree

CONSTANTS
  Roots, Others,   \* the ids a root and the rest may have
  Types, Values    \* the types of nodes, and the values of their one prop

VARIABLES current, desired, landed
vars == <<current, desired, landed>>

Content(type, props) == [type |-> type, props |-> props]

\* index: the ids in the order of the walk, the root first.
Walk(t) ==
  LET walk[n \in Ids(t)] == <<n>> \o FlattenSeq([i \in DOMAIN t.kids[n] |-> walk[t.kids[n][i]]])
  IN  walk[t.root]

UpdateOp(n, props) == [op |-> "updateProps", target |-> n, props |-> props]

\* pruneExisting: an added subtree without what arrives by a move.
PruneExisting(c, there) ==
  LET gone == UNION {Below(c, n) : n \in (Ids(c) \ {c.root}) \cap there}
      kept == Ids(c) \ gone
  IN  [root |-> c.root,
       kids |-> [n \in kept |-> SelectSeq(c.kids[n], LAMBDA k : k \in kept)],
       look |-> [n \in kept |-> c.look[n]]]

\* The top-most of what only the desired tree has.
Adds(cur, des) ==
  LET new == SelectSeq(Walk(des), LAMBDA n : n \notin Ids(cur) /\ ParentOf(des, n) \in Ids(cur))
      Add(n) == AddOp(ParentOf(des, n), IndexOf(des, n), PruneExisting(Subtree(des, n), Ids(cur)))
  IN  [i \in DOMAIN new |-> Add(new[i])]

Survives(cur, des, n) == n \in Ids(cur) \cap Ids(des)
SameType(cur, des, n) == cur.look[n].content.type = des.look[n].content.type
Moves(cur, des) ==
  LET moved == SelectSeq(Walk(des),
        LAMBDA n : /\ Survives(cur, des, n) /\ n # des.root /\ SameType(cur, des, n)
                   /\ \/ ParentOf(cur, n) # ParentOf(des, n)
                      \/ IndexOf(cur, n) # IndexOf(des, n))
  IN  [i \in DOMAIN moved |-> MoveOp(moved[i], ParentOf(des, moved[i]), IndexOf(des, moved[i]))]
\* Another type replaces the node with all that stands in it.
Updates(cur, des) ==
  LET changed == SelectSeq(Walk(des),
        LAMBDA n : Survives(cur, des, n) /\ cur.look[n].content # des.look[n].content)
      Update(n) == IF SameType(cur, des, n) THEN UpdateOp(n, des.look[n].content.props)
                   ELSE ReplaceOp(n, Subtree(des, n))
  IN  [i \in DOMAIN changed |-> Update(changed[i])]
\* The top-most of what only the current tree has.
Removes(cur, des) ==
  LET old == SelectSeq(Walk(cur),
        LAMBDA n : n \notin Ids(des) /\ n # cur.root /\ ParentOf(cur, n) \in Ids(des))
  IN  [i \in DOMAIN old |-> RemoveOp(old[i])]

ComputeDiff(cur, des) ==
  IF cur.root # des.root THEN <<ReplaceOp(cur.root, des)>>
  ELSE Adds(cur, des) \o Moves(cur, des) \o Updates(cur, des) \o Removes(cur, des)

\* updateProps merges: a prop that is not named stays as it is.
Merged(t, op) ==
  IF op.op # "updateProps" THEN op
  ELSE IF op.target \notin Ids(t) THEN RewriteOp(op.target, op.props)
  ELSE RewriteOp(op.target,
         [t.look[op.target].content EXCEPT !.props =
            [k \in DOMAIN @ \cup DOMAIN op.props |->
               IF k \in DOMAIN op.props THEN op.props[k] ELSE @[k]]])
Landed(t, patch) ==
  FoldLeft(LAMBDA sofar, op : Step(sofar, Merged(sofar.tree, op)),
           [ok |-> TRUE, tree |-> t, inverse |-> <<>>], patch)

-----------------------------------------------------------------------------
Contents == {Content(type, props) : type \in Types, props \in UNION {[ks -> Values] : ks \in SUBSET {"k"}}}
\* Trees of a root and at most k others, in every order.
Trees[k \in 0..Cardinality(Others)] ==
  IF k = 0 THEN {Leaf(r, Content(CHOOSE type \in Types : TRUE, [x \in {} |-> 0])) : r \in Roots}
  ELSE UNION {{t} \cup {Graft(t, p, i, Leaf(n, c)) :
                  p \in Ids(t), i \in 1..(k + 1), n \in Others \ Ids(t), c \in Contents} :
              t \in Trees[k - 1]}
Bodies == Trees[Cardinality(Others)]

\* What became of the patch, once: a sequence of at most one result.
Init == current \in Bodies /\ desired \in Bodies /\ landed = <<>>
Apply ==
  /\ landed = <<>>
  /\ landed' = <<Landed(current, ComputeDiff(current, desired))>>
  /\ UNCHANGED <<current, desired>>
Next == Apply
Spec == Init /\ [][Next]_vars

\* The walk of what stays, in the order of each tree: no simultaneous reorder.
Staying(t, u) == SelectSeq(Walk(t), LAMBDA n : n \in Ids(u))
SameOrder == \A n \in Ids(current) \cap Ids(desired) :
  SelectSeq(current.kids[n], LAMBDA k : Contains(desired.kids[n], k))
    = SelectSeq(desired.kids[n], LAMBDA k : Contains(current.kids[n], k))
NothingDropped == \A n \in Ids(current) \cap Ids(desired) :
  DOMAIN current.look[n].content.props \subseteq DOMAIN desired.look[n].content.props
SameTypes == \A n \in Ids(current) \cap Ids(desired) : SameType(current, desired, n)

\* "Whatever it returns has to land on the tree it was asked about" (diff.test.ts), for
\* additions, removals, reparenting and props: every id, its parent and its content.
SameUpToOrder(t, u) ==
  /\ Ids(t) = Ids(u) /\ t.root = u.root
  /\ \A n \in Ids(t) : ToSet(t.kids[n]) = ToSet(u.kids[n]) /\ t.look[n] = u.look[n]
DiffLands ==
  landed # <<>> /\ SameTypes /\ NothingDropped => landed[1].ok /\ SameUpToOrder(landed[1].tree, desired)

\* And in the order that was asked for, when nothing that stays changes places.
OrderLands ==
  landed # <<>> /\ SameTypes /\ NothingDropped /\ SameOrder => landed[1].tree = desired
=============================================================================
