------------------------------ MODULE NodePool ------------------------------
(***************************************************************************)
(* The tree as it lies in memory (tree_node.hpp, leaf_bucket.cpp,          *)
(* tree_builder.cpp): nodes in a pool that refer to each other by index,   *)
(* bucket entries in slices of one array, leaf boxes in another.  Nothing  *)
(* is taken out of the pools: a subtree is rebuilt by appending its        *)
(* successor and copying the new root over the old one.                    *)
(*                                                                         *)
(* TreeBuilder describes the same operations on trees whose nodes hold     *)
(* their children; here are the indices, slices and copies it leaves out,  *)
(* and what it leaves out besides: every one of these operations allocates, *)
(* and an allocation may throw.  An operator maps the tree to the set of   *)
(* its outcomes.  An outcome that threw carries the tree as the exception  *)
(* leaves it.                                                              *)
(*                                                                         *)
(* Indices count from 1, those of the code from 0.  A slice is written in  *)
(* the order of the eviction queue, one of the orders nth_element allows.  *)
(***************************************************************************)
EXTENDS PointStore, Regions, Sequences, FiniteSets, SequencesExt

CONSTANTS
  leaf_bucket_size, alpha, tombstone_threshold, CountMod, BucketMod,
  MayFail  \* whether an allocation may fail

ASSUME MayFailAssumption == MayFail \in BOOLEAN

\* The same operations on trees whose nodes hold their children, and the searches.
Nested == INSTANCE SearchKernel

\* TreeNode::INVALID: the index of no node, and of no leaf box.
INVALID == 0

\* The members of KDTreeImpl and TreeBuilder that change, and the sizes to which
\* their vectors are known to grow without an allocation.
NewTree ==
  [ store          |-> NewStore,
    nodes          |-> <<>>,
    data           |-> <<>>,
    leaf_bboxes    |-> <<>>,
    root           |-> INVALID,
    root_bbox      |-> ZeroBox,
    modified_nodes |-> <<>>,
    reserved       |-> [nodes |-> 0, data |-> 2 * Capacity, leaf_bboxes |-> 0, modified_nodes |-> 0] ]

-----------------------------------------------------------------------------
(* Outcomes.                                                               *)

Done(t) == [tree |-> t, threw |-> FALSE, cleared |-> 0]

Throws(t) == IF MayFail THEN {[tree |-> t, threw |-> TRUE, cleared |-> 0]} ELSE {}

\* A vector can grow by k elements, or fail to when it has never been that long.
Grows(t, vector, k) ==
  IF Len(t[vector]) + k > t.reserved[vector] THEN Throws(t) ELSE {}

\* A vector that is emptied keeps its memory.
Emptied(t, vector) ==
  [t EXCEPT ![vector] = <<>>, !.reserved[vector] = Upper(@, Len(t[vector]))]

\* What follows an operation is not reached when it threw.
Then(outcomes, Next(_)) == UNION {IF o.threw THEN {o} ELSE Next(o) : o \in outcomes}

-----------------------------------------------------------------------------
(* Nodes, slices and boxes.                                                *)

\* TreeNode's constructor: an empty leaf, with no bucket and no box.
NewNode ==
  [ is_leaf             |-> TRUE,
    subtree_live_count  |-> 0,
    subtree_total_count |-> 0,
    bucket_offset       |-> 0,
    bucket_size         |-> 0,
    bucket_capacity     |-> 0,
    leaf_bbox_idx       |-> INVALID ]

\* LeafBucket::view(): the entries of a leaf.
view(t, n) == SubSeq(t.data, n.bucket_offset + 1, n.bucket_offset + n.bucket_size)

\* Fault: the entries are appended without the room left for later ones.
allocate_tight(t, entries, capacity) == [t EXCEPT !.data = @ \o entries]

\* LeafBucket::allocate(): a slice at the end of data_, then written from its start.
allocate(t, entries, capacity) ==
  [t EXCEPT !.data = @ \o entries \o
     [k \in 1 .. capacity - Len(entries) |-> [index |-> 0, gen |-> 0]]]

\* LeafBucket::push(): a full bucket refuses the entry.
push(t, x, e) ==
  LET n == t.nodes[x]
  IN  IF n.bucket_size = n.bucket_capacity THEN t
      ELSE [t EXCEPT !.data[n.bucket_offset + n.bucket_size + 1] = e,
                     !.nodes[x].bucket_size = @ + 1]

\* Slots in the order in which they are queued for eviction.
InQueueOrder(s, slots) == SelectSeq(Visited(s), LAMBDA i : i \in slots)

RECURSIVE Reachable(_, _)
Reachable(t, x) ==
  {x} \cup IF t.nodes[x].is_leaf THEN {}
           ELSE Reachable(t, t.nodes[x].left) \cup Reachable(t, t.nodes[x].right)

\* collect_live_indices_in_subtree().
RECURSIVE LiveIndices(_, _)
LiveIndices(t, x) ==
  LET n == t.nodes[x]
  IN  IF n.is_leaf THEN Nested!ValidSlots(t.store, ToSet(view(t, n)))
      ELSE LiveIndices(t, n.left) \cup LiveIndices(t, n.right)

-----------------------------------------------------------------------------
(* Building.                                                               *)

\* The node at x, already in the pool, becomes a leaf over some slots.
BuildLeaf(t, x, slots) ==
  LET order    == InQueueOrder(t.store, slots)
      capacity == (2 * leaf_bucket_size) % BucketMod
      written  == allocate(t, [k \in 1 .. Len(order) |-> Nested!Entry(t.store, order[k])], capacity)
      boxed    == [written EXCEPT !.leaf_bboxes = Append(@, Nested!Hull(t.store, slots))]
  IN  Grows(t, "data", capacity) \cup Grows(written, "leaf_bboxes", 1) \cup
      {Done([boxed EXCEPT !.nodes[x] =
         [ is_leaf             |-> TRUE,
           subtree_live_count  |-> Len(order),
           subtree_total_count |-> Len(order),
           bucket_offset       |-> Len(t.data),
           bucket_size         |-> Len(order),
           bucket_capacity     |-> capacity,
           leaf_bbox_idx       |-> Len(boxed.leaf_bboxes) ]])}

\* The node at x becomes the parent of two nodes built after it.
Split(t, x, dim, value, left, right) ==
  [t EXCEPT !.nodes[x] =
     [ is_leaf             |-> FALSE,
       subtree_live_count  |-> (t.nodes[left].subtree_live_count
                                  + t.nodes[right].subtree_live_count) % CountMod,
       subtree_total_count |-> (t.nodes[left].subtree_total_count
                                  + t.nodes[right].subtree_total_count) % CountMod,
       split_dim           |-> dim,
       split_value         |-> value,
       left                |-> left,
       right               |-> right ]]

\* The root of what is built is the first node it appends.
RECURSIVE build_recursive(_, _)
build_recursive(t, slots) ==
  LET x   == Len(t.nodes) + 1
      t1  == [t EXCEPT !.nodes = Append(@, NewNode)]
      dim == Nested!WidestAxis(t.store, slots)
      Halves(low) ==
        Then(build_recursive(t1, low), LAMBDA l :
          Then(build_recursive(l.tree, slots \ low), LAMBDA r :
            {Done(Split(r.tree, x, dim, Nested!Min(Nested!Coords(t.store, slots \ low, dim)),
                        x + 1, Len(l.tree.nodes) + 1))}))
  IN  Grows(t, "nodes", 1) \cup
      IF Cardinality(slots) <= leaf_bucket_size
      THEN BuildLeaf(t1, x, slots)
      ELSE UNION {Halves(low) : low \in Nested!LowerHalves(t.store, slots, dim)}

\* Fault: the old root is overwritten before its successor is complete.
rebuild_subtree_early(t, x) ==
  Then(build_recursive([t EXCEPT !.nodes[x] = NewNode], LiveIndices(t, x)), LAMBDA o :
    {Done([o.tree EXCEPT !.nodes[x] = o.tree.nodes[Len(t.nodes) + 1]])})

\* Fault: the node built last is taken for the root of what was built.
rebuild_subtree_last(t, x) ==
  Throws(t) \cup
  Then(build_recursive(t, LiveIndices(t, x)), LAMBDA o :
    {Done([o.tree EXCEPT !.nodes[x] = Last(o.tree.nodes)])})

\* The successor of the subtree at x is appended and its root copied over x.
rebuild_subtree_in_place(t, x) ==
  Throws(t) \cup
  Then(build_recursive(t, LiveIndices(t, x)), LAMBDA o :
    {Done([o.tree EXCEPT !.nodes[x] = o.tree.nodes[Len(t.nodes) + 1]])})

\* Fault: the records of modified nodes are kept.
rebuild_keeps_records(t, slots) ==
  Then(build_recursive([t EXCEPT !.root_bbox = Nested!Hull(t.store, slots)], slots), LAMBDA o :
    {Done([o.tree EXCEPT !.root = Len(t.nodes) + 1])})

\* TreeBuilder::rebuild(), whose caller makes the result the root.
rebuild(t, slots) ==
  Then(build_recursive([Emptied(t, "modified_nodes")
                          EXCEPT !.root_bbox = Nested!Hull(t.store, slots)], slots), LAMBDA o :
    {Done([o.tree EXCEPT !.root = Len(t.nodes) + 1])})

-----------------------------------------------------------------------------
(* insert_index() and tombstone_index().                                   *)

Toward(n, p) == IF Nested!GoesLeft(n, p) THEN n.left ELSE n.right

RECURSIVE insert_below(_, _, _)
insert_below(t, x, i) ==
  LET n       == t.nodes[x]
      counted == [t EXCEPT !.nodes[x].subtree_total_count = Nested!Up(@),
                           !.nodes[x].subtree_live_count = Nested!Up(@)]
      filed   == [push(counted, x, Nested!Entry(t.store, i))
                    EXCEPT !.leaf_bboxes[n.leaf_bbox_idx] = expand(@, t.store.points[i])]
  IN  IF ~ n.is_leaf THEN insert_below(counted, Toward(n, t.store.points[i]), i)
      ELSE IF filed.nodes[x].bucket_size = n.bucket_capacity
      THEN rebuild_subtree_in_place(filed, x)
      ELSE {Done(filed)}

insert_index(t, i) ==
  insert_below([t EXCEPT !.root_bbox = expand(@, t.store.points[i])], t.root, i)

\* A node's count goes down before its record is made.
RECURSIVE tombstone_below(_, _, _)
tombstone_below(t, x, p) ==
  LET n       == t.nodes[x]
      counted == [t EXCEPT !.nodes[x].subtree_live_count = Nested!Down(@, 1)]
  IN  IF n.is_leaf THEN {Done(counted)}
      ELSE Grows(counted, "modified_nodes", 1) \cup
           tombstone_below([counted EXCEPT !.modified_nodes = Append(@, x)], Toward(n, p), p)

tombstone_index(t, i) == tombstone_below(t, t.root, t.store.points[i])

-----------------------------------------------------------------------------
(* The partial rebuild.                                                    *)

is_violator(t, x) ==
  LET n == t.nodes[x]
  IN  /\ ~ n.is_leaf
      /\ Nested!is_violator([n EXCEPT !.left = t.nodes[n.left], !.right = t.nodes[n.right]])

\* sweep_scoped(); sweep_full() is the same with every node dirty.
RECURSIVE sweep(_, _, _)
sweep(t, x, dirty) ==
  LET n == t.nodes[x]
      Child(u, c) == IF c \in dirty THEN sweep(u, c, dirty) ELSE {Done(u)}
  IN  IF n.is_leaf
      THEN IF n.bucket_size > 2 * leaf_bucket_size
           THEN rebuild_subtree_in_place(t, x)
           ELSE {Done(t)}
      ELSE IF is_violator(t, x)
      THEN rebuild_subtree_in_place(t, x)
      ELSE Then(Child(t, n.left), LAMBDA l :
             Then(Child(l.tree, n.right), LAMBDA r :
               IF is_violator(r.tree, x)
               THEN rebuild_subtree_in_place(r.tree, x)
               ELSE {Done(r.tree)}))

Forget(t) == Emptied(t, "modified_nodes")

\* The records are sorted before a scoped sweep, and dropped after either sweep.
maybe_partial_rebuild(t) ==
  LET dirty  == ToSet(t.modified_nodes)
      sorted == [Forget(t) EXCEPT !.modified_nodes = SetToSortSeq(dirty, LAMBDA i, j : i < j)]
  IN  IF t.root = INVALID \/ t.modified_nodes = <<>>
      THEN {Done(Forget(t))}
      ELSE Then(IF Len(t.modified_nodes) >= Len(t.nodes)
                THEN sweep(t, t.root, DOMAIN t.nodes)
                ELSE sweep(sorted, t.root, dirty), LAMBDA o : {Done(Forget(o.tree))})

maybe_partial_rebuild_full(t) ==
  IF t.root = INVALID THEN {Done(Forget(t))}
  ELSE sweep(Forget(t), t.root, DOMAIN t.nodes)

-----------------------------------------------------------------------------
(* box_delete() and radius_crop().                                         *)

\* The entries of a leaf are looked at in turn; those of points to release are.
ReleaseWhere(s, entries, Gone(_)) ==
  FoldLeft(LAMBDA u, e : IF Nested!Valid(u, e) /\ Gone(u.points[e.index])
                         THEN Released(u, e.index) ELSE u, s, entries)

Discount(t, x, k) == [t EXCEPT !.nodes[x].subtree_live_count = Nested!Down(@, k)]

\* The leaf at x after its scan, discounted.
ScanLeaf(t, x, Gone(_)) ==
  LET s == ReleaseWhere(t.store, view(t, t.nodes[x]), Gone)
      k == t.store.live - s.live
  IN  [Done(Discount([t EXCEPT !.store = s], x, k)) EXCEPT !.cleared = k]

\* It allocates nothing, so it has one outcome and does not throw.
RECURSIVE release_subtree(_, _)
release_subtree(t, x) ==
  LET n == t.nodes[x]
      l == release_subtree(t, n.left)
      r == release_subtree(l.tree, n.right)
      k == l.cleared + r.cleared
  IN  IF n.is_leaf THEN ScanLeaf(t, x, LAMBDA p : TRUE)
      ELSE [r EXCEPT !.tree = Discount(@, x, k), !.cleared = k]

\* A node below which something was cleared is recorded last, when its count has
\* already gone down.
Recorded(o, x) ==
  IF o.cleared = 0 THEN {o}
  ELSE Grows(o.tree, "modified_nodes", 1) \cup {[o EXCEPT !.tree.modified_nodes = Append(@, x)]}

RECURSIVE delete_recurse(_, _, _, _)
delete_recurse(t, x, partition, g) ==
  LET n == t.nodes[x]
      Both(l, r) == [r EXCEPT !.tree    = Discount(@, x, l.cleared + r.cleared),
                              !.cleared = l.cleared + r.cleared]
  IN  IF Misses(g, partition) THEN {Done(t)}
      ELSE IF Swallows(g, partition) THEN Recorded(release_subtree(t, x), x)
      ELSE IF n.is_leaf
      THEN IF Misses(g, t.leaf_bboxes[n.leaf_bbox_idx]) THEN {Done(t)}
           ELSE IF Swallows(g, t.leaf_bboxes[n.leaf_bbox_idx])
           THEN {release_subtree(t, x)}
           ELSE {ScanLeaf(t, x, LAMBDA p : Hits(g, p))}
      ELSE Then(delete_recurse(t, n.left, LeftCell(partition, n.split_dim, n.split_value), g),
                LAMBDA l :
             Then(delete_recurse(l.tree, n.right,
                                 RightCell(partition, n.split_dim, n.split_value), g),
                  LAMBDA r : Recorded(Both(l, r), x)))

=============================================================================
