----------------------------- MODULE PooledTree -----------------------------
(***************************************************************************)
(* The calls of KDTree (kd_tree_impl.cpp) on the tree as it lies in        *)
(* memory, and what a call leaves behind when an allocation fails in its   *)
(* middle: the exception ends the call where it stands, what was done      *)
(* stays done, and the client may go on calling.                           *)
(*                                                                         *)
(* Steps and batches are those of KDTree.                                  *)
(***************************************************************************)
EXTENDS NodePool

CONSTANTS
  sq_resolution, MaxBatch, MaxTotal,  \* as in KDTree
  MaxRecords  \* bound on the records a new call may find left behind

VARIABLES
  tree,  \* the members of KDTreeImpl, see NewTree
  call   \* the call in progress, and whether the one before it threw

vars == <<tree, call>>

Idle(threw) == [op |-> "none", used |-> 0, count |-> 0, threw |-> threw]

Init == tree = NewTree /\ call = Idle(FALSE)

-----------------------------------------------------------------------------
(* The shape of a call.                                                    *)

\* After rebuild_all() has thrown the root may be a node without a box, or beyond
\* the pool.  What another call than rebuild_all() then does is undefined in the
\* code (it indexes leaf_bboxes_ or nodes_ out of range), and left out.
Usable(t) ==
  t.root # INVALID =>
    /\ t.root \in DOMAIN t.nodes
    /\ \A x \in Reachable(t, t.root) :
         t.nodes[x].is_leaf => t.nodes[x].leaf_bbox_idx \in DOMAIN t.leaf_bboxes

Begin(op) ==
  /\ call.op = "none"
  /\ Usable(tree)
  /\ Len(tree.modified_nodes) <= MaxRecords
  /\ call' = [Idle(FALSE) EXCEPT !.op = op]
  /\ UNCHANGED tree

\* The call goes on with one of the outcomes of its next step, or throws.
Take(outcomes, next) ==
  \E o \in outcomes : tree' = o.tree /\ call' = IF o.threw THEN Idle(TRUE) ELSE next

\* The next element of the batch.
Element(op) == call.op = op /\ call.used < MaxBatch

Consumed(k) == [call EXCEPT !.used = @ + 1, !.count = @ + k]

-----------------------------------------------------------------------------
(* insert().                                                               *)

\* A search reads the pool as the tree of nodes that hold their children.
RECURSIVE Unfold(_, _)
Unfold(t, x) ==
  LET n == t.nodes[x]
  IN  IF n.is_leaf
      THEN [ is_leaf             |-> TRUE,
             subtree_live_count  |-> n.subtree_live_count,
             subtree_total_count |-> n.subtree_total_count,
             bucket              |-> ToSet(view(t, n)),
             bucket_capacity     |-> n.bucket_capacity,
             leaf_bbox           |-> IF n.leaf_bbox_idx = INVALID THEN EmptyBox
                                     ELSE t.leaf_bboxes[n.leaf_bbox_idx] ]
      ELSE [n EXCEPT !.left = Unfold(t, n.left), !.right = Unfold(t, n.right)]

Duplicate(p) ==
  /\ tree.root # INVALID
  /\ Nested!any_within(tree.store, Unfold(tree, tree.root), p, sq_resolution)

InsertDuplicate(p) ==
  /\ Element("insert")
  /\ Duplicate(p)
  /\ call' = Consumed(0)
  /\ UNCHANGED tree

\* The slot is acquired before anything is allocated.
InsertPoint(p) ==
  LET acquired == [tree EXCEPT !.store = Acquired(@, p)]
      i        == AcquiredSlot(tree.store)
  IN  /\ Element("insert")
      /\ ~ Duplicate(p)
      /\ tree.root # INVALID => tree.nodes[tree.root].subtree_total_count < MaxTotal
      /\ Take(IF tree.root = INVALID THEN rebuild(acquired, {i}) ELSE insert_index(acquired, i),
              Consumed(1))

InsertReturn ==
  /\ call.op = "insert"
  /\ Take(IF call.count > 0 THEN maybe_partial_rebuild_full(tree) ELSE {Done(tree)}, Idle(FALSE))

-----------------------------------------------------------------------------
(* remove(), box_delete(), radius_crop().                                  *)

DeleteReturn(op) ==
  /\ call.op = op
  /\ Take(IF call.count > 0 THEN maybe_partial_rebuild(tree) ELSE {Done(tree)}, Idle(FALSE))

\* Each match is tombstoned, then released.
RECURSIVE clear_matches(_, _)
clear_matches(t, matches) ==
  IF matches = <<>> THEN {Done(t)}
  ELSE Then(tombstone_index(t, Head(matches)), LAMBDA o :
         clear_matches([o.tree EXCEPT !.store = Released(@, Head(matches))], Tail(matches)))

\* The list of matches is allocated too.
RemoveQuery(q) ==
  LET found == IF tree.root = INVALID THEN {}
               ELSE Nested!collect_indices_within(tree.store, Unfold(tree, tree.root),
                                                  q, sq_resolution)
  IN  /\ Element("remove")
      /\ Take((IF found = {} THEN {} ELSE Throws(tree))
                \cup clear_matches(tree, InQueueOrder(tree.store, found)),
              Consumed(Cardinality(found)))

RemoveReturn == DeleteReturn("remove")

DeleteRegion(op, g) ==
  /\ Element(op)
  /\ \E o \in IF tree.root = INVALID THEN {Done(tree)}
              ELSE delete_recurse(tree, tree.root, tree.root_bbox, g) :
       Take({o}, Consumed(o.cleared))

BoxDelete(box) == DeleteRegion("box_delete", BoxRegion(box))

BoxDeleteReturn == DeleteReturn("box_delete")

RadiusCrop(ball) ==
  /\ call.used = 0
  /\ DeleteRegion("radius_crop", OutsideBall(ball.center, ball.sq_radius))

RadiusCropReturn ==
  /\ call.used = 1
  /\ DeleteReturn("radius_crop")

-----------------------------------------------------------------------------
(* rebuild_all(): the pools are empty before the new tree is built in them, *)
(* and root_ is assigned after it is.                                      *)

\* The memory of the emptied pools is soon used up again by subtrees that are
\* replaced; from the end of the call on the model takes it to be.
UsedUp(t) ==
  [t EXCEPT !.reserved.nodes = 0, !.reserved.data = 0, !.reserved.leaf_bboxes = 0]

\* Fault: the live slots are taken from the old tree, not from the store.
RebuildFromTree ==
  LET emptied == Emptied(Emptied(Emptied(tree, "nodes"), "data"), "leaf_bboxes")
      live    == IF tree.root \in DOMAIN tree.nodes THEN LiveIndices(tree, tree.root) ELSE {}
      built   == IF live = {} THEN {Done([emptied EXCEPT !.root = INVALID])}
                 ELSE rebuild(emptied, live)
  IN  /\ call.op = "none"
      /\ Take({[o EXCEPT !.tree = UsedUp(@)] : o \in built}, Idle(FALSE))

RebuildAll ==
  LET emptied == Emptied(Emptied(Emptied(tree, "nodes"), "data"), "leaf_bboxes")
      live    == LiveSlots(tree.store)
      built   == IF live = {} THEN {Done([emptied EXCEPT !.root = INVALID])}
                 ELSE rebuild(emptied, live)
  IN  /\ call.op = "none"
      /\ Take({[o EXCEPT !.tree = UsedUp(@)] : o \in built}, Idle(FALSE))

-----------------------------------------------------------------------------

Next ==
  \/ \E op \in {"insert", "remove", "box_delete", "radius_crop"} : Begin(op)
  \/ \E p \in Point : InsertPoint(p)
  \/ \E p \in Point : InsertDuplicate(p)
  \/ InsertReturn
  \/ \E q \in Point : RemoveQuery(q)
  \/ RemoveReturn
  \/ \E b \in Boxes : BoxDelete(b)
  \/ BoxDeleteReturn
  \/ \E b \in Balls : RadiusCrop(b)
  \/ RadiusCropReturn
  \/ RebuildAll

Spec == Init /\ [][Next]_vars

-----------------------------------------------------------------------------
(* Properties.                                                             *)

Reached(t) == IF t.root \in DOMAIN t.nodes THEN Reachable(t, t.root) ELSE {}

ReachedLeaves(t) == {x \in Reached(t) : t.nodes[x].is_leaf}

\* The slots a search can come to, and the live ones that none can.
Findable(t) == UNION {Nested!ValidSlots(t.store, ToSet(view(t, t.nodes[x]))) : x \in ReachedLeaves(t)}

Lost(t) == LiveSlots(t.store) \ Findable(t)

\* What the root leads to is a tree in which nothing is shared: no node has two
\* parents, no two leaves own overlapping slices or the same box, and slices and
\* boxes lie inside their arrays, although every rebuild leaves a second copy of
\* its root in the pool and a failed one leaves more.
NothingShared ==
  Usable(tree) =>
    LET leaves   == ReachedLeaves(tree)
        Node(x)  == tree.nodes[x]
        Owned(x) == Node(x).bucket_offset + 1 .. Node(x).bucket_offset + Node(x).bucket_capacity
    IN  /\ leaves # {} => Cardinality(Reached(tree)) = 2 * Cardinality(leaves) - 1
        /\ \A x \in leaves : Owned(x) \subseteq DOMAIN tree.data
        /\ \A x, y \in leaves : x # y => /\ Owned(x) \cap Owned(y) = {}
                                        /\ Node(x).leaf_bbox_idx # Node(y).leaf_bbox_idx

\* A live slot is found through one entry only, whatever calls were cut short: the
\* delete that meets it releases it once.
NoEntryTwice ==
  LET entries == {<<x, k>> \in ReachedLeaves(tree) \X (1 .. MaxTotal + 1) :
                    /\ k <= tree.nodes[x].bucket_size
                    /\ Nested!Valid(tree.store, view(tree, tree.nodes[x])[k])}
  IN  Cardinality(entries) = Cardinality(Findable(tree))

\* A record that a failed call leaves in modified_nodes_ still names a node of the
\* pool when a later sweep may read it, although rebuild_all() on an empty store
\* empties the pool and keeps the records.
RecordsNameNodes ==
  tree.root # INVALID /\ Usable(tree) => ToSet(tree.modified_nodes) \subseteq DOMAIN tree.nodes

\* A call that throws, a sweep, a removal or a spatial delete among them, makes no
\* point unfindable but the one it was about to insert.  (rebuild_all() may lose
\* every point: see RebuildRestores.)
FailuresStayLocal ==
  [][call.op # "none" =>
       \A i \in Lost(tree') \ Lost(tree) :
         call.op = "insert" /\ tree'.store.generations[i] # tree.store.generations[i]]_vars

\* rebuild_all() repairs: when it returns, every live point can be found, whatever
\* was lost before it.
RebuildRestores ==
  [][call.op = "none" /\ call'.op = "none" /\ ~ call'.threw
       => Lost(tree') = {} /\ Usable(tree')]_vars

-----------------------------------------------------------------------------
(* What the source says, also of a tree on which calls have thrown.        *)

RECURSIVE LeafFor(_, _)
LeafFor(x, p) ==
  LET n == tree.nodes[x]
  IN  IF n.is_leaf THEN n ELSE LeafFor(Toward(n, p), p)

\* assert(ok && "LeafBucket::push failed despite eager split") (tree_builder.cpp:550):
\* the leaf to which the next insertion of the batch is sent has room for it.
PushNeverFails ==
  \A p \in Point :
    Element("insert") /\ tree.root # INVALID /\ ~ Duplicate(p) =>
      LeafFor(tree.root, p).bucket_size < LeafFor(tree.root, p).bucket_capacity

\* "Resolution-based dedup against the live set" (README.md:57).
LivePointsApart ==
  \A i, j \in LiveSlots(tree.store) :
    i # j => Nested!sq_dist(tree.store.points[i], tree.store.points[j]) >= sq_resolution

\* leaf_bbox_idx is an "Index into the per-tree leaf BBox vector" (tree_node.hpp:92).
LeavesHaveBoxes ==
  \A x \in ReachedLeaves(tree) : tree.nodes[x].leaf_bbox_idx \in DOMAIN tree.leaf_bboxes

=============================================================================
