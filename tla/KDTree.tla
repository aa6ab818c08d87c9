------------------------------- MODULE KDTree -------------------------------
(***************************************************************************)
(* The tree as its client uses it (kd_tree.hpp, kd_tree_impl.cpp): calls   *)
(* of insert, remove, box_delete, radius_crop and rebuild_all, one after   *)
(* the other, on the store and the tree over it.                           *)
(*                                                                         *)
(* A call that takes a batch is a step per element and a step for the      *)
(* partial rebuild at its end, so every invariant also speaks of the tree  *)
(* half-way through a batch.  The batch is chosen as it is consumed; it    *)
(* holds at most MaxBatch elements.                                        *)
(***************************************************************************)
EXTENDS SearchKernel

CONSTANTS
  sq_resolution,  \* Config::resolution squared: closer points are duplicates
  MaxBatch,       \* bound on the length of a batch
  MaxTotal,       \* bound on the root's count of insertions since it was built
  INVALID         \* the root of a tree that has never held a point

\* The square of a positive float may be 0: the square of one below 2^-75 is.
ASSUME ResolutionAssumption == sq_resolution \in Nat

ASSUME BatchAssumption == MaxBatch \in Nat \ {0} /\ MaxTotal \in Nat \ {0}

VARIABLES
  store,       \* points_
  root,        \* the tree under root_, or INVALID
  root_bbox,   \* root_bbox_
  nodes_size,  \* nodes_.size(): the nodes of the tree and those it has left behind
  modified,    \* modified_nodes_, as paths
  call         \* the call in progress: its name, elements used and running count

vars == <<store, root, root_bbox, nodes_size, modified, call>>

NoCall == [op |-> "none", used |-> 0, count |-> 0]

Init ==
  /\ store = NewStore
  /\ root = INVALID
  /\ root_bbox = ZeroBox
  /\ nodes_size = 0
  /\ modified = <<>>
  /\ call = NoCall

Begin(op) ==
  /\ call.op = "none"
  /\ call' = [NoCall EXCEPT !.op = op]
  /\ UNCHANGED <<store, root, root_bbox, nodes_size, modified>>

\* The next element of the batch, which adds k to the count the call returns.
Consume(op, k) ==
  /\ call.op = op
  /\ call.used < MaxBatch
  /\ call' = [call EXCEPT !.used = @ + 1, !.count = @ + k]

Return(op) ==
  /\ call.op = op
  /\ call' = NoCall

\* The tree g.node takes the place of the root's.
Adopt(g) ==
  /\ root' = g.node
  /\ nodes_size' = nodes_size + g.made

\* TreeBuilder::rebuild() over some slots of s, with `kept` nodes in the pool.
Rebuild(s, slots, kept) ==
  /\ modified' = <<>>
  /\ root_bbox' = Hull(s, slots)
  /\ \E t \in build_recursive(s, slots) :
       root' = t /\ nodes_size' = kept + NodeCount(t)

-----------------------------------------------------------------------------
(* insert().                                                               *)

Duplicate(p) == root # INVALID /\ any_within(store, root, p, sq_resolution)

InsertDuplicate(p) ==
  /\ Duplicate(p)
  /\ Consume("insert", 0)
  /\ UNCHANGED <<store, root, root_bbox, nodes_size, modified>>

InsertPoint(p) ==
  /\ ~ Duplicate(p)
  /\ root # INVALID => root.subtree_total_count < MaxTotal
  /\ Consume("insert", 1)
  /\ store' = Acquired(store, p)
  /\ IF root = INVALID
     THEN Rebuild(store', {AcquiredSlot(store)}, nodes_size)
     ELSE /\ root_bbox' = expand(root_bbox, p)
          /\ \E g \in insert_index(store', root, AcquiredSlot(store)) : Adopt(g)
          /\ UNCHANGED modified

InsertReturn ==
  /\ Return("insert")
  /\ IF call.count > 0
     THEN modified' = <<>> /\ \E g \in sweep_full(store, root) : Adopt(g)
     ELSE UNCHANGED <<modified, root, nodes_size>>
  /\ UNCHANGED <<store, root_bbox>>

-----------------------------------------------------------------------------
(* remove(), box_delete(), radius_crop().                                  *)

\* The sweep at the end of a call that has cleared something.
DeleteReturn(op) ==
  /\ Return(op)
  /\ IF call.count > 0
     THEN /\ modified' = <<>>
          /\ \E g \in maybe_partial_rebuild(store, root, modified, nodes_size) : Adopt(g)
     ELSE UNCHANGED <<modified, root, nodes_size>>
  /\ UNCHANGED <<store, root_bbox>>

\* Each match is tombstoned, then released.
RECURSIVE ClearMatches(_, _, _, _)
ClearMatches(s, n, log, matches) ==
  IF matches = {} THEN {Pruned(n, s, 0, log)}
  ELSE UNION {ClearMatches(Released(s, i), tombstone_index(n, s.points[i]),
                           log \o TombstoneTrail(n, s.points[i], <<>>),
                           matches \ {i}) : i \in matches}

\* On a tree that has never held a point nothing matches.
RemoveQuery(q) ==
  LET matches == IF root = INVALID THEN {}
                 ELSE collect_indices_within(store, root, q, sq_resolution)
  IN  /\ Consume("remove", Cardinality(matches))
      /\ \E d \in ClearMatches(store, root, modified, matches) :
           store' = d.store /\ root' = d.node /\ modified' = d.modified
      /\ UNCHANGED <<root_bbox, nodes_size>>

RemoveReturn == DeleteReturn("remove")

\* One descent for a region, from the root's box.
DeleteRegion(op, g) ==
  \E d \in IF root = INVALID THEN {Pruned(root, store, 0, <<>>)}
           ELSE delete_recurse(root, store, root_bbox, g, <<>>) :
    /\ Consume(op, d.cleared)
    /\ store' = d.store
    /\ root' = d.node
    /\ modified' = modified \o d.modified
    /\ UNCHANGED <<root_bbox, nodes_size>>

BoxDelete(box) == DeleteRegion("box_delete", BoxRegion(box))

BoxDeleteReturn == DeleteReturn("box_delete")

RadiusCrop(ball) ==
  /\ call.used = 0
  /\ DeleteRegion("radius_crop", OutsideBall(ball.center, ball.sq_radius))

RadiusCropReturn ==
  /\ call.used = 1
  /\ DeleteReturn("radius_crop")

-----------------------------------------------------------------------------
(* rebuild_all(): the pools are emptied and the tree is built from scratch. *)
(* root_bbox_ and modified_nodes_ are left alone when the store is empty.   *)

RebuildAll ==
  /\ call = NoCall
  /\ IF LiveSlots(store) = {}
     THEN root' = INVALID /\ nodes_size' = 0 /\ UNCHANGED <<root_bbox, modified>>
     ELSE Rebuild(store, LiveSlots(store), 0)
  /\ UNCHANGED <<store, call>>

-----------------------------------------------------------------------------
(* The searches change nothing: what they return in the current state.     *)

\* Beyond every squared distance, and more than every number of points.
InfiniteSqDist == 8 * Far * Far

Unlimited == Capacity + 1

hybrid_search(query, k, sq_radius) ==
  IF root = INVALID THEN {} ELSE search(store, root, query, k, sq_radius)

knn_search(query, k) == hybrid_search(query, k, InfiniteSqDist)

radius_search(query, sq_radius) == hybrid_search(query, Unlimited, sq_radius)

-----------------------------------------------------------------------------

Next ==
  \/ \E op \in {"insert", "remove", "box_delete", "radius_crop"} : Begin(op)
  \/ \E p \in Point : InsertPoint(p)
  \/ \E p \in Point : InsertDuplicate(p)
  \/ InsertReturn
  \/ \E q \in Point : RemoveQuery(q)
  \/ RemoveReturn
  \/ \E b \in Boxes : BoxDelete(b)
  \/ BoxDeleteReturn
  \/ \E b \in Balls : RadiusCrop(b)
  \/ RadiusCropReturn
  \/ RebuildAll

Spec == Init /\ [][Next]_vars

-----------------------------------------------------------------------------
(* Properties.                                                             *)

\* The nodes of a subtree, each with its path and the cell the splits above it
\* leave it.
RECURSIVE NodesBelow(_, _, _)
NodesBelow(n, cell, path) ==
  {[node |-> n, cell |-> cell, path |-> path]} \cup
  IF n.is_leaf THEN {}
  ELSE NodesBelow(n.left, LeftCell(cell, n.split_dim, n.split_value), Append(path, "left"))
         \cup NodesBelow(n.right, RightCell(cell, n.split_dim, n.split_value),
                         Append(path, "right"))

Nodes == IF root = INVALID THEN {} ELSE NodesBelow(root, root_bbox, <<>>)

Leaves == {x \in Nodes : x.node.is_leaf}

Internals == Nodes \ Leaves

\* The variables have the types their declarations give them.
TypeOK ==
  /\ store \in Store
  /\ nodes_size \in Nat
  /\ modified \in Seq(Seq({"left", "right"}))
  /\ call \in [op    : {"none", "insert", "remove", "box_delete", "radius_crop"},
               used  : 0 .. MaxBatch,
               count : 0 .. (MaxBatch * (Capacity + 1))]
  /\ \A x \in Nodes : /\ x.node.subtree_live_count \in 0 .. (CountMod - 1)
                      /\ x.node.subtree_total_count \in 0 .. (CountMod - 1)

\* A call of insert() that changed the tree leaves no node out of balance or with too
\* many tombstones, by the counters the tree keeps: neither one it has made nor one that
\* earlier deletes have left.
InsertLeavesNoViolator ==
  [][call.op = "insert" /\ call'.op = "none" /\ call.count > 0
       => \A x \in Nodes' : ~ is_violator(x.node)]_vars

-----------------------------------------------------------------------------
(* What comments of the source say of the counters.                        *)

\* "Live points in the subtree (excludes tombstones)" (tree_node.hpp:22), between
\* two calls.
LiveCountsExact ==
  call.op = "none" =>
    \A x \in Nodes : x.node.subtree_live_count = Cardinality(LiveIndices(store, x.node))

\* "always >= subtree_live_count" (tree_node.hpp:23), between two calls.
TotalAtLeastLive ==
  call.op = "none" =>
    \A x \in Nodes : x.node.subtree_total_count >= x.node.subtree_live_count

\* "bucket_size <= bucket_capacity" (tree_node.hpp:34), in every configuration the
\* constructor accepts.
BucketWithinCapacity ==
  \A x \in Leaves : Cardinality(x.node.bucket) <= x.node.bucket_capacity

\* "hold memory flat under an unbounded stream" (README.md:28): the node pool does
\* not outgrow, four times over, a tree with a leaf for each point it may hold.
PoolStaysFlat == nodes_size <= 4 * (2 * Capacity - 1)

\* The calls that sweep only what they have recorded.
Deletes == {"remove", "box_delete", "radius_crop"}

\* maybe_partial_rebuild() "rebuilds every violator subtree in place"
\* (tree_builder.hpp:46).
DeleteLeavesNoViolator ==
  [][call.op \in Deletes /\ call'.op = "none" /\ call.count > 0
       => \A x \in Nodes' : ~ is_violator(x.node)]_vars

\* What holds of it: a violator that is there when a delete returns, below a partition
\* that its region swallowed or out of reach of the records of a remove() elsewhere, has
\* no live point below it, so searches meet an oversized or lopsided subtree only where
\* there is nothing to find.
DeleteLeavesDeadViolators ==
  [][call.op \in Deletes /\ call'.op = "none" /\ call.count > 0
       => \A x \in Nodes' : is_violator(x.node) => LiveIndices(store', x.node) = {}]_vars

\* "Remove every live point within Config::resolution of each query" (kd_tree.hpp:83):
\* of the points no farther from the query than 0, at the least.
RemoveClearsQuery ==
  [][\A q \in Point : RemoveQuery(q) => q \notin LivePoints(store')]_vars

=============================================================================
