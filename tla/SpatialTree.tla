---------------------------- MODULE SpatialTree -----------------------------
(***************************************************************************)
(* The tree as a partition of the plane (tree_builder.cpp): which points   *)
(* insertions, rebuilds and deletes put where, for trees of every size.    *)
(*                                                                         *)
(* A node is named by the path that leads to it from the root, so that a   *)
(* node lies under another when its path starts with the other's.  A       *)
(* bucket is the set of live slots it leads to: leftovers are the subject  *)
(* of StampedEntries.  The counters are left out: when a bucket is split   *)
(* and which subtrees a sweep rebuilds is arbitrary, what a rebuild makes  *)
(* of a subtree is not.  So is the eviction queue: acquire() may take any  *)
(* slot.                                                                   *)
(***************************************************************************)
EXTENDS Neighbors, Regions, Sequences

CONSTANT leaf_bucket_size

VARIABLES
  points,  \* points_: what each slot holds, live or not
  live,    \* the slots whose live bit is set
  tree,    \* the split planes, buckets and boxes of the nodes under root_
  cells    \* the partition that a spatial delete hands each node; the root's is root_bbox_

vars == <<points, live, tree, cells>>

-----------------------------------------------------------------------------
(* Paths.                                                                  *)

Left(y) == Append(y, "left")

Right(y) == Append(y, "right")

\* y is x, or one of the nodes on the way to x.
Above(y, x) == Len(y) <= Len(x) /\ \A k \in DOMAIN y : y[k] = x[k]

Inner(t) == DOMAIN t.planes

Leaf(t) == DOMAIN t.buckets

Node(t) == Inner(t) \cup Leaf(t)

\* root_ is INVALID.
NoTree == [planes |-> <<>>, buckets |-> <<>>, boxes |-> <<>>]

\* Every node but the root is a child of an inner node, which has two.
Shaped(t) ==
  /\ Inner(t) \cap Leaf(t) = {}
  /\ DOMAIN t.boxes = Leaf(t)
  /\ Node(t) # {} => <<>> \in Node(t)
  /\ \A x \in Node(t) : x \in Seq({"left", "right"})
  /\ \A x \in Node(t) : \A k \in 0 .. Len(x) - 1 : SubSeq(x, 1, k) \in Inner(t)
  /\ \A y \in Inner(t) : Left(y) \in Node(t) /\ Right(y) \in Node(t)

\* The slots in the buckets under a node.
Under(t, y) == UNION {t.buckets[x] : x \in {z \in Leaf(t) : Above(y, z)}}

-----------------------------------------------------------------------------
(* Building.                                                               *)

\* A box folded from EmptyBox by expand().
IsHull(b, pts, slots) ==
  IF slots = {} THEN b = EmptyBox
  ELSE /\ b \in Cells
       /\ \A i \in slots : contains_point(b, pts[i])
       /\ \A a \in Axis : \E i, j \in slots :
            b.min_corner[a] = pts[i][a] /\ b.max_corner[a] = pts[j][a]

\* The halves on either side of the median, whose coordinate is the split value: a
\* tie with it may be in either half.
IsSplit(plane, pts, low, high) ==
  /\ plane.split_dim \in Axis
  /\ \A i \in low, j \in high : pts[i][plane.split_dim] <= pts[j][plane.split_dim]
  /\ \E m \in high : plane.split_value = pts[m][plane.split_dim]
  /\ \A j \in high : plane.split_value <= pts[j][plane.split_dim]

\* What build_recursive() makes of one node.  On which axis it splits is left open.
BuiltHere(t, pts, y) ==
  LET slots == Under(t, y)
  IN  IF Cardinality(slots) <= leaf_bucket_size
      THEN y \in Leaf(t) /\ IsHull(t.boxes[y], pts, slots)
      ELSE /\ y \in Inner(t)
           /\ Cardinality(Under(t, Left(y))) = Cardinality(slots) \div 2
           /\ Under(t, Right(y)) = slots \ Under(t, Left(y))
           /\ IsSplit(t.planes[y], pts, Under(t, Left(y)), Under(t, Right(y)))

\* The subtree at a node is one that build_recursive() makes of some slots.
BuiltFrom(t, pts, r, slots) ==
  /\ r \in Node(t)
  /\ Under(t, r) = slots
  /\ \A y \in Node(t) : Above(r, y) => BuiltHere(t, pts, y)

\* A node is as it was.
Same(t, u, y) ==
  \/ y \in Leaf(t) \cap Leaf(u) /\ u.buckets[y] = t.buckets[y] /\ u.boxes[y] = t.boxes[y]
  \/ y \in Inner(t) \cap Inner(u) /\ u.planes[y] = t.planes[y]

\* y is one of the nodes `roots`, or below one.
Beneath(roots, y) == \E r \in roots : Above(r, y)

\* rebuild_subtree_in_place() at the nodes `roots` of t, and nothing else, gives u.
Rebuilt(t, u, pts, roots) ==
  /\ Shaped(u)
  /\ \A r \in roots : BuiltFrom(u, pts, r, Under(t, r))
  /\ \A y \in Node(t) \cup Node(u) : Beneath(roots, y) \/ Same(t, u, y)

\* Each child is handed its half of its parent's partition.
Partitions(c, t) ==
  /\ DOMAIN c = Node(t)
  /\ \A y \in Inner(t) :
       /\ c[Left(y)] = LeftCell(c[y], t.planes[y].split_dim, t.planes[y].split_value)
       /\ c[Right(y)] = RightCell(c[y], t.planes[y].split_dim, t.planes[y].split_value)

-----------------------------------------------------------------------------

Init ==
  /\ points \in [Slot -> Point]
  /\ live = {}
  /\ tree = NoTree
  /\ cells = <<>>

\* TreeBuilder::rebuild() over the live slots, of which there are some.
BuildAll ==
  /\ Shaped(tree')
  /\ BuiltFrom(tree', points', <<>>, live')
  /\ IsHull(cells'[<<>>], points', live')

\* The point goes to slot i, which an eviction may have freed before.
Acquire(i, p) ==
  /\ points' = [points EXCEPT ![i] = p]
  /\ live' = live \cup {i}

\* insert() into a tree that has never held a point, or lost all in a rebuild.
InsertFirst(i, p) ==
  /\ tree = NoTree
  /\ Acquire(i, p)
  /\ BuildAll
  /\ Partitions(cells', tree')

\* Fault: a tie goes left, as its neighbours may have when the node was built.
GoesLeftOnTie(plane, p) == p[plane.split_dim] <= plane.split_value

GoesLeft(plane, p) == p[plane.split_dim] < plane.split_value

\* insert_index() and tombstone_index() take the point from the root down through x.
OnRoute(t, p, x) ==
  \A y \in Inner(t) :
    Above(y, x) /\ y # x => (GoesLeft(t.planes[y], p) <=> Above(Left(y), x))

Without(t, gone) ==
  [ planes  |-> t.planes,
    buckets |-> [z \in Leaf(t) |-> t.buckets[z] \ gone],
    boxes   |-> t.boxes ]

\* Fault: the leaf's box is not grown.
FiledUngrown(t, i, p, x) ==
  [Without(t, {i}) EXCEPT !.buckets[x] = @ \cup {i}]

\* The slot's old bucket, if it was evicted, leads to it no more.
Filed(t, i, p, x) ==
  [ planes  |-> t.planes,
    buckets |-> [z \in Leaf(t) |-> IF z = x THEN t.buckets[z] \cup {i} ELSE t.buckets[z] \ {i}],
    boxes   |-> [z \in Leaf(t) |-> IF z = x THEN expand(t.boxes[z], p) ELSE t.boxes[z]] ]

\* The point goes to the leaf x, which is rebuilt at once when that fills it: `roots` is
\* {x} then.
InsertPoint(i, p, x, roots) ==
  /\ OnRoute(tree, p, x)
  /\ Acquire(i, p)
  /\ Rebuilt(Filed(tree, i, p, x), tree', points', roots)
  /\ Partitions(cells', tree')
  /\ cells'[<<>>] = expand(cells[<<>>], p)

\* remove(): some slots are tombstoned and released.
Remove(gone) ==
  /\ UNCHANGED <<points, cells>>
  /\ live' = live \ gone
  /\ tree' = Without(tree, gone)

\* The partial rebuild at the end of a call, of the subtrees at `roots`.
Sweep(roots) ==
  /\ UNCHANGED <<points, live>>
  /\ Rebuilt(tree, tree', points, roots)
  /\ Partitions(cells', tree')
  /\ cells'[<<>>] = cells[<<>>]

RebuildAll ==
  /\ UNCHANGED <<points, live>>
  /\ IF live = {}
     THEN tree' = NoTree /\ cells' = <<>>
     ELSE BuildAll /\ Partitions(cells', tree')

-----------------------------------------------------------------------------
(* box_delete() and radius_crop().                                         *)

\* The descent calls itself on y: no node on the way was discarded or swallowed.
Entered(t, c, g, y) ==
  \A z \in Node(t) : Above(z, y) /\ z # y => ~ Misses(g, c[z]) /\ ~ Swallows(g, c[z])

\* What the scan of a leaf releases, after a look at the leaf's own box.
ScanReleases(t, pts, g, x) ==
  IF Misses(g, t.boxes[x]) THEN {}
  ELSE IF Swallows(g, t.boxes[x]) THEN t.buckets[x]
  ELSE {i \in t.buckets[x] : Hits(g, pts[i])}

\* What the call on y releases, those it makes left aside.
Releases(t, c, pts, g, y) ==
  IF Misses(g, c[y]) THEN {}
  ELSE IF Swallows(g, c[y]) THEN Under(t, y)
  ELSE IF y \in Leaf(t) THEN ScanReleases(t, pts, g, y)
  ELSE {}

Gone(t, c, pts, g) ==
  UNION {Releases(t, c, pts, g, y) : y \in {z \in Node(t) : Entered(t, c, g, z)}}

DeleteRegion(g) ==
  /\ UNCHANGED <<points, cells>>
  /\ LET gone == Gone(tree, cells, points, g)
     IN  live' = live \ gone /\ tree' = Without(tree, gone)

Deletes ==
  {BoxRegion(b) : b \in Boxes} \cup {OutsideBall(b.center, b.sq_radius) : b \in Balls}

-----------------------------------------------------------------------------

Next ==
  \/ \E gone \in SUBSET live : Remove(gone)
  \/ \E g \in Deletes : DeleteRegion(g)
  \/ \E roots \in SUBSET Node(tree) : Sweep(roots)
  \/ RebuildAll
  \/ \E i \in Slot, p \in Point :
       \/ InsertFirst(i, p)
       \/ \E x \in Leaf(tree) : \E roots \in SUBSET {x} : InsertPoint(i, p, x, roots)

Spec == Init /\ [][Next]_vars

-----------------------------------------------------------------------------
(* Properties.                                                             *)

TypeOK ==
  /\ points \in [Slot -> Point]
  /\ live \subseteq Slot
  /\ \A y \in Inner(tree) : tree.planes[y].split_dim \in Axis /\ tree.planes[y].split_value \in Int
  /\ \A x \in Leaf(tree) : tree.buckets[x] \subseteq live /\ tree.boxes[x] \in Cells
  /\ Node(tree) # {} => cells[<<>>] \in Cells

\* Each live slot is in a bucket, and the children of a node share none.
SharedOut(t, slots) ==
  /\ \A i \in slots : \E x \in Leaf(t) : i \in t.buckets[x]
  /\ \A y \in Inner(t) : Under(t, Left(y)) \cap Under(t, Right(y)) = {}

\* No point lies beyond a split plane from the side its leaf is on.
Separated(t, pts) ==
  \A y \in Inner(t) :
    LET plane == t.planes[y]
    IN  /\ \A i \in Under(t, Left(y)) : pts[i][plane.split_dim] <= plane.split_value
        /\ \A i \in Under(t, Right(y)) : plane.split_value <= pts[i][plane.split_dim]

\* The boxes of the leaves, which are grown or folded, cover their points.
BoxesHold(t, pts) ==
  \A x \in Leaf(t) : \A i \in t.buckets[x] : contains_point(t.boxes[x], pts[i])

\* So does the root's.
RootHolds(c, pts, slots) == \A i \in slots : contains_point(c[<<>>], pts[i])

\* After any calls, of any length and on a tree of any size, every live point is in
\* one bucket, on the right side of every plane above it, and in the boxes that are
\* looked at in its place.
SpatialInv ==
  /\ TypeOK
  /\ Shaped(tree)
  /\ SharedOut(tree, live)
  /\ Separated(tree, points)
  /\ BoxesHold(tree, points)
  /\ Partitions(cells, tree)
  /\ RootHolds(cells, points, live)

\* A spatial delete, whenever it is called, releases the live points in its region and
\* no others, whatever subtrees it discards or swallows unseen.
DeletesExact ==
  \A g \in Deletes : Gone(tree, cells, points, g) = {i \in live : Hits(g, points[i])}

=============================================================================
