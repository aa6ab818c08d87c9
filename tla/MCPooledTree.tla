---------------------------- MODULE MCPooledTree ----------------------------
(***************************************************************************)
(* TLC instances of the pooled tree.                                       *)
(***************************************************************************)
EXTENDS PooledTree

CONSTANT NoTree  \* the root of KDTree that has never held a point

P(x, y) == <<x, y>>

Origin == P(0, 0)

Box(x1, y1, x2, y2) == [min_corner |-> P(x1, y1), max_corner |-> P(x2, y2)]

Ball(x, y, r2) == [center |-> P(x, y), sq_radius |-> r2]

Alpha == <<7, 10>>

Quarter == <<1, 4>>

\* Ties on both axes.
Square4 == {P(0, 0), P(0, 2), P(2, 0), P(2, 2)}

\* A tie on each axis.
Corner3 == {P(0, 0), P(0, 2), P(2, 0)}

\* A row with a tie at its start.
Row4 == {P(0, 0), P(0, 2), P(3, 0), P(5, 0)}

\* Half of the points, one point, and everything.
SomeBoxes == {Box(0, 0, 1, 2), Box(2, 0, 2, 0), Box(-5, -5, 7, 5)}

\* One point and everything.
TwoBoxes == {Box(0, 0, 1, 1), Box(-5, -5, 7, 5)}

\* A ball that keeps a single point.
OneBall == {Ball(0, 0, 0)}

\* A ball with points on its border, and one that keeps a single point.
SomeBalls == {Ball(0, 0, 4), Ball(0, 0, 0)}

-----------------------------------------------------------------------------
(* Two states behave alike when they differ only in the numbering of slots, *)
(* nodes, slices and boxes, in the values of stamps, or in what of the pools *)
(* cannot be reached.  A slot is shown as its place in the eviction queue,   *)
(* or 0 when its entry is a leftover.                                        *)

PlaceOf(e) ==
  IF Nested!Valid(tree.store, e)
  THEN 1 + ((tree.store.buf_pos[e.index] + Capacity - tree.store.buf_head) % Capacity)
  ELSE 0

RECURSIVE Shape(_)
Shape(x) ==
  LET n == tree.nodes[x]
      counts == <<n.subtree_live_count, n.subtree_total_count,
                  {k \in 1 .. Len(tree.modified_nodes) : tree.modified_nodes[k] = x} # {}>>
  IN  IF n.is_leaf
      THEN <<counts, [k \in 1 .. n.bucket_size |-> PlaceOf(view(tree, n)[k])],
             IF n.leaf_bbox_idx \in DOMAIN tree.leaf_bboxes
             THEN tree.leaf_bboxes[n.leaf_bbox_idx] ELSE 0>>
      ELSE <<counts, n.split_dim, n.split_value, Shape(n.left), Shape(n.right)>>

\* More records than a call finds and makes.
ManyNodes == MaxRecords + MaxBatch * (2 * Capacity + 2)

View ==
  << [k \in 1 .. tree.store.live |-> tree.store.points[Visited(tree.store)[k]]],
     IF tree.root = INVALID THEN <<tree.modified_nodes>>
     ELSE IF tree.root \in DOMAIN tree.nodes THEN Shape(tree.root) ELSE <<0>>,
     tree.root_bbox, Lower(Len(tree.nodes), ManyNodes), Len(tree.modified_nodes),
     Lower(Len(tree.data), tree.reserved.data),
     tree.reserved.modified_nodes, call >>

-----------------------------------------------------------------------------
(* Without failures: the pooled tree is the tree.                          *)

\* The way from the root to a node.
RECURSIVE PathTo(_, _)
PathTo(x, y) ==
  LET n == tree.nodes[x]
  IN  IF x = y THEN <<>>
      ELSE IF y \in Reachable(tree, n.left) THEN <<"left">> \o PathTo(n.left, y)
      ELSE <<"right">> \o PathTo(n.right, y)

Records ==
  IF tree.root = INVALID THEN <<>>
  ELSE [k \in DOMAIN tree.modified_nodes |-> PathTo(tree.root, tree.modified_nodes[k])]

Tree ==
  INSTANCE KDTree WITH
    INVALID    <- NoTree,
    store      <- tree.store,
    root       <- IF tree.root \in DOMAIN tree.nodes THEN Unfold(tree, tree.root) ELSE NoTree,
    root_bbox  <- tree.root_bbox,
    nodes_size <- Len(tree.nodes),
    modified   <- Records,
    call       <- [op |-> call.op, used |-> call.used, count |-> call.count]

\* Indices, slices and copies over old roots amount to the tree of nodes that hold
\* their children: each step of the pool is the step of KDTree, the nodes a sweep
\* finds through its list of indices are those whose paths were recorded, and the
\* pool is as large as KDTree counts it.
ImplementsTree == Tree!Spec

=============================================================================
