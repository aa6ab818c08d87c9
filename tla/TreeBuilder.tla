---------------------------- MODULE TreeBuilder -----------------------------
(***************************************************************************)
(* The tree over the slots of a store (tree_node.hpp, leaf_bucket.cpp,     *)
(* tree_builder.cpp): building, inserting, tombstoning, partial rebuilds   *)
(* and spatial deletes.                                                    *)
(*                                                                         *)
(* A node is a record that holds its children; the index of a node in the  *)
(* nodes_ pool is modelled by the path that leads to it from the root.     *)
(* What the pool keeps of nodes that have been replaced is not reachable   *)
(* again: only their number is, because maybe_partial_rebuild() reads it.  *)
(* An operator that follows a choice the code leaves to the library (how   *)
(* nth_element orders equal coordinates) returns the set of its outcomes.  *)
(***************************************************************************)
EXTENDS BucketEntries, Regions, Sequences, FiniteSets, FiniteSetsExt, SequencesExt

CONSTANTS
  leaf_bucket_size,     \* Config, required > 0
  alpha,                \* Config, a fraction <<numerator, denominator>> in (1/2, 1)
  tombstone_threshold,  \* Config, a fraction in [0, 1]
  CountMod,             \* subtree counts are kept modulo this; 2^32 in the code
  BucketMod             \* bucket capacities are kept modulo this; 2^16 in the code

ASSUME BucketAssumption == leaf_bucket_size \in Nat \ {0}

ASSUME AlphaAssumption ==
  /\ alpha \in Nat \X (Nat \ {0})
  /\ alpha[2] < 2 * alpha[1] /\ alpha[1] < alpha[2]

ASSUME ThresholdAssumption ==
  /\ tombstone_threshold \in Nat \X (Nat \ {0})
  /\ tombstone_threshold[1] <= tombstone_threshold[2]

ASSUME WidthAssumption == CountMod \in Nat \ {0} /\ BucketMod \in Nat \ {0}

-----------------------------------------------------------------------------
(* Building a subtree over a set of slots.                                 *)

RECURSIVE Hull(_, _)
Hull(s, slots) ==
  IF slots = {} THEN EmptyBox
  ELSE LET i == CHOOSE j \in slots : TRUE
       IN  expand(Hull(s, slots \ {i}), s.points[i])

LeafNode(s, slots) ==
  [ is_leaf             |-> TRUE,
    subtree_live_count  |-> Cardinality(slots),
    subtree_total_count |-> Cardinality(slots),
    bucket              |-> {Entry(s, i) : i \in slots},
    bucket_capacity     |-> (2 * leaf_bucket_size) % BucketMod,
    leaf_bbox           |-> Hull(s, slots) ]

SplitNode(dim, value, l, r) ==
  [ is_leaf             |-> FALSE,
    subtree_live_count  |-> (l.subtree_live_count + r.subtree_live_count) % CountMod,
    subtree_total_count |-> (l.subtree_total_count + r.subtree_total_count) % CountMod,
    split_dim           |-> dim,
    split_value         |-> value,
    left                |-> l,
    right               |-> r ]

Coords(s, slots, a) == {s.points[i][a] : i \in slots}

Extent(s, slots, a) == Max(Coords(s, slots, a)) - Min(Coords(s, slots, a))

\* The axis of widest extent, the first of them when they are equally wide.
WidestAxis(s, slots) ==
  CHOOSE a \in Axis : \A b \in Axis :
    \/ Extent(s, slots, a) > Extent(s, slots, b)
    \/ Extent(s, slots, a) = Extent(s, slots, b) /\ a <= b

\* What nth_element may put before the middle: half of the slots, none of them
\* above any of the others on the axis.  Slots that tie with the middle one may
\* fall on either side.
LowerHalves(s, slots, a) ==
  {low \in kSubset(Cardinality(slots) \div 2, slots) :
     \A i \in low, j \in slots \ low : s.points[i][a] <= s.points[j][a]}

RECURSIVE build_recursive(_, _)
build_recursive(s, slots) ==
  IF Cardinality(slots) <= leaf_bucket_size
  THEN {LeafNode(s, slots)}
  ELSE LET dim == WidestAxis(s, slots)
       IN  UNION {{SplitNode(dim, Min(Coords(s, slots \ low, dim)), l, r) :
                     l \in build_recursive(s, low),
                     r \in build_recursive(s, slots \ low)} :
                  low \in LowerHalves(s, slots, dim)}

\* How many nodes building a tree appends to the pool.
RECURSIVE NodeCount(_)
NodeCount(n) == IF n.is_leaf THEN 1 ELSE 1 + NodeCount(n.left) + NodeCount(n.right)

\* Fault: what the right child holds is left out.
RECURSIVE LiveIndicesOnLeft(_, _)
LiveIndicesOnLeft(s, n) ==
  IF n.is_leaf THEN ValidSlots(s, n.bucket) ELSE LiveIndicesOnLeft(s, n.left)

\* The live slots below a node.
RECURSIVE LiveIndices(_, _)
LiveIndices(s, n) ==
  IF n.is_leaf
  THEN ValidSlots(s, n.bucket)
  ELSE LiveIndices(s, n.left) \cup LiveIndices(s, n.right)

\* A subtree as an operation leaves it, and the number of nodes it has added to
\* the pool.
Grown(n, made) == [node |-> n, made |-> made]

\* A subtree built anew from its live slots takes the place of its root.
rebuild_subtree_in_place(s, n) ==
  {Grown(t, NodeCount(t)) : t \in build_recursive(s, LiveIndices(s, n))}

-----------------------------------------------------------------------------
(* insert_index() and tombstone_index().                                   *)

\* Points on the split plane are sent right.
GoesLeft(n, p) == p[n.split_dim] < n.split_value

Up(count) == (count + 1) % CountMod

\* Fault: the counter is not kept modulo its width.
DownUnwrapped(count, k) == count - k

Down(count, k) == (count - k) % CountMod

\* LeafBucket::push(): a full bucket refuses the entry.
push(n, e) ==
  IF Cardinality(n.bucket) = n.bucket_capacity THEN n.bucket ELSE n.bucket \cup {e}

\* Every node on the way down counts the point; the leaf takes its entry, and is
\* rebuilt at once when that fills it.
RECURSIVE insert_index(_, _, _)
insert_index(s, n, i) ==
  LET p == s.points[i]
      m == [n EXCEPT !.subtree_total_count = Up(@), !.subtree_live_count = Up(@)]
  IN  IF n.is_leaf
      THEN LET leaf == [m EXCEPT !.bucket    = push(n, Entry(s, i)),
                                 !.leaf_bbox = expand(@, p)]
           IN  IF Cardinality(leaf.bucket) = leaf.bucket_capacity
               THEN rebuild_subtree_in_place(s, leaf)
               ELSE {Grown(leaf, 0)}
      ELSE IF GoesLeft(n, p)
           THEN {Grown([m EXCEPT !.left = g.node], g.made) : g \in insert_index(s, n.left, i)}
           ELSE {Grown([m EXCEPT !.right = g.node], g.made) : g \in insert_index(s, n.right, i)}

\* Every node on the way down to where insert_index() would put the point loses
\* one live point.
RECURSIVE tombstone_index(_, _)
tombstone_index(n, p) ==
  LET m == [n EXCEPT !.subtree_live_count = Down(@, 1)]
  IN  IF n.is_leaf THEN m
      ELSE IF GoesLeft(n, p)
           THEN [m EXCEPT !.left = tombstone_index(n.left, p)]
           ELSE [m EXCEPT !.right = tombstone_index(n.right, p)]

\* The internal nodes it passes are recorded as modified, from the root down.
RECURSIVE TombstoneTrail(_, _, _)
TombstoneTrail(n, p, path) ==
  IF n.is_leaf THEN <<>>
  ELSE <<path>> \o IF GoesLeft(n, p)
                   THEN TombstoneTrail(n.left, p, Append(path, "left"))
                   ELSE TombstoneTrail(n.right, p, Append(path, "right"))

-----------------------------------------------------------------------------
(* The partial rebuild.                                                    *)

Unbalanced(n) ==
  Upper(n.left.subtree_total_count, n.right.subtree_total_count) * alpha[2]
    > alpha[1] * n.subtree_total_count

Tombstoned(n) ==
  /\ n.subtree_total_count > n.subtree_live_count
  /\ (n.subtree_total_count - n.subtree_live_count) * tombstone_threshold[2]
       >= tombstone_threshold[1] * n.subtree_total_count

is_violator(n) ==
  /\ ~ n.is_leaf
  /\ n.subtree_total_count # 0
  /\ Unbalanced(n) \/ Tombstoned(n)

\* The paths of all nodes of a subtree.
RECURSIVE Paths(_, _)
Paths(n, path) ==
  {path} \cup IF n.is_leaf THEN {}
              ELSE Paths(n.left, Append(path, "left"))
                     \cup Paths(n.right, Append(path, "right"))

\* Rebuild the violators from the root down, entering only the children whose
\* paths are in `dirty`, and look at each node again once its children are done.
RECURSIVE sweep_scoped(_, _, _, _)
sweep_scoped(s, n, path, dirty) ==
  LET Child(c, side) ==
        IF Append(path, side) \in dirty
        THEN sweep_scoped(s, c, Append(path, side), dirty)
        ELSE {Grown(c, 0)}
      Settled(m, made) ==
        IF is_violator(m)
        THEN {Grown(g.node, made + g.made) : g \in rebuild_subtree_in_place(s, m)}
        ELSE {Grown(m, made)}
  IN  IF n.is_leaf
      THEN IF Cardinality(n.bucket) > 2 * leaf_bucket_size
           THEN rebuild_subtree_in_place(s, n)
           ELSE {Grown(n, 0)}
      ELSE IF is_violator(n)
           THEN rebuild_subtree_in_place(s, n)
           ELSE UNION {Settled([n EXCEPT !.left = l.node, !.right = r.node], l.made + r.made) :
                         l \in Child(n.left, "left"), r \in Child(n.right, "right")}

\* Fault: only the root is looked at.
sweep_root(s, n) == sweep_scoped(s, n, <<>>, {})

\* The same, entering every child.
sweep_full(s, n) == sweep_scoped(s, n, <<>>, Paths(n, <<>>))

\* maybe_partial_rebuild(): the full sweep when there are as many records as
\* nodes in the pool, the scoped one otherwise.
maybe_partial_rebuild(s, root, modified, nodes_size) ==
  IF modified = <<>> THEN {Grown(root, 0)}
  ELSE IF Len(modified) >= nodes_size
       THEN sweep_full(s, root)
       ELSE sweep_scoped(s, root, <<>>, ToSet(modified))

-----------------------------------------------------------------------------
(* box_delete() and radius_crop(): one descent for a region.               *)

\* What a delete leaves of a subtree and of the store, and what it reports.
Pruned(n, s, cleared, modified) ==
  [node |-> n, store |-> s, cleared |-> cleared, modified |-> modified]

Discount(n, k) == [n EXCEPT !.subtree_live_count = Down(@, k)]

\* A bucket is scanned in an order the model does not keep.
RECURSIVE ReleaseEach(_, _)
ReleaseEach(s, slots) ==
  IF slots = {} THEN {s}
  ELSE UNION {ReleaseEach(Released(s, i), slots \ {i}) : i \in slots}

ReleaseFromLeaf(n, s, slots) ==
  {Pruned(Discount(n, Cardinality(slots)), t, Cardinality(slots), <<>>) :
     t \in ReleaseEach(s, slots)}

\* Two descents, the right one from the store the left one leaves.
RECURSIVE release_subtree(_, _)
release_subtree(n, s) ==
  IF n.is_leaf
  THEN ReleaseFromLeaf(n, s, ValidSlots(s, n.bucket))
  ELSE UNION {{Pruned(Discount([n EXCEPT !.left = l.node, !.right = r.node],
                               l.cleared + r.cleared),
                      r.store, l.cleared + r.cleared, <<>>) :
                 r \in release_subtree(n.right, l.store)} :
              l \in release_subtree(n.left, s)}

\* Fault: a node that lost a single point is not recorded.
RecordMany(path, cleared) == IF cleared <= 1 THEN <<>> ELSE <<path>>

\* A node is recorded as modified when something was cleared below it.
Record(path, cleared) == IF cleared = 0 THEN <<>> ELSE <<path>>

RECURSIVE delete_recurse(_, _, _, _, _)
delete_recurse(n, s, partition, g, path) ==
  IF Misses(g, partition) THEN {Pruned(n, s, 0, <<>>)}
  ELSE IF Swallows(g, partition)
  THEN {[d EXCEPT !.modified = Record(path, d.cleared)] : d \in release_subtree(n, s)}
  ELSE IF n.is_leaf
  THEN IF Misses(g, n.leaf_bbox) THEN {Pruned(n, s, 0, <<>>)}
       ELSE IF Swallows(g, n.leaf_bbox) THEN release_subtree(n, s)
       ELSE ReleaseFromLeaf(n, s, {i \in ValidSlots(s, n.bucket) : Hits(g, s.points[i])})
  ELSE UNION {{LET cleared == l.cleared + r.cleared
               IN  Pruned(Discount([n EXCEPT !.left = l.node, !.right = r.node], cleared),
                          r.store, cleared,
                          l.modified \o r.modified \o Record(path, cleared)) :
                 r \in delete_recurse(n.right, l.store,
                                      RightCell(partition, n.split_dim, n.split_value),
                                      g, Append(path, "right"))} :
              l \in delete_recurse(n.left, s,
                                   LeftCell(partition, n.split_dim, n.split_value),
                                   g, Append(path, "left"))}

=============================================================================
