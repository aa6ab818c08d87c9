------------------------------ MODULE MCKDTree ------------------------------
(***************************************************************************)
(* TLC instances of the tree.                                              *)
(***************************************************************************)
EXTENDS KDTree

CONSTANTS
  Queries,  \* where the searches are asked
  Radii,    \* their squared radii
  Ks        \* their neighbour caps

P(x, y) == <<x, y>>

Origin == P(0, 0)

Box(x1, y1, x2, y2) == [min_corner |-> P(x1, y1), max_corner |-> P(x2, y2)]

Ball(x, y, r2) == [center |-> P(x, y), sq_radius |-> r2]

\* The default configuration's 0.7 and 0.25, and other legal ones.
Alpha == <<7, 10>>

ThreeFifths == <<3, 5>>

FourFifths == <<4, 5>>

Quarter == <<1, 4>>

Whole == <<1, 1>>

\* Corners and centre of a square: ties on both axes, and neighbours of the centre
\* that are exactly at the resolution when its square is 2.
Square5 == {P(0, 0), P(0, 2), P(1, 1), P(2, 0), P(2, 2)}

\* The corners alone.
Square4 == Square5 \ {P(1, 1)}

\* A row along the x axis, split on x again and again, with a duplicate at its end
\* and a tie at its start.
Row5 == {P(0, 0), P(0, 2), P(3, 0), P(5, 0), P(6, 0)}

\* Four points, two of which tie on x, the axis to split.
Tie4 == {P(0, 0), P(0, 2), P(2, 0), P(4, 0)}

\* Three points on the left, two on the right.
Wide5 == {P(0, 0), P(0, 2), P(2, 1), P(4, 1), P(6, 1)}

\* Half of the points, one point, and an inverted box.
SomeBoxes == {Box(0, 0, 1, 2), Box(2, 0, 2, 0), Box(2, 2, 0, 0)}

\* The first and the last of them.
TwoBoxes == {Box(0, 0, 1, 2), Box(2, 2, 0, 0)}

HalfBox == {Box(0, 0, 1, 2)}

LeftBox == {Box(0, 0, 4, 2)}

\* A ball with points on its border, one that keeps a single point, one that keeps none.
SomeBalls == {Ball(0, 0, 2), Ball(1, 1, 0), Ball(9, 9, 4)}

TwoBalls == {Ball(0, 0, 2), Ball(9, 9, 4)}

KeepAll == {Ball(0, 0, 900)}

SomeQueries == {P(0, 0), P(2, 1), P(-1, 3)}

-----------------------------------------------------------------------------
(* Two states that differ in the numbering of slots, in the values of       *)
(* stamps, in which slot a leftover entry was for or in how far the pool    *)
(* exceeds every possible number of records behave alike.                   *)

RECURSIVE Shape(_)
Shape(n) ==
  IF n.is_leaf
  THEN <<n.subtree_live_count, n.subtree_total_count, Cardinality(n.bucket),
         {store.points[i] : i \in ValidSlots(store, n.bucket)}, n.leaf_bbox>>
  ELSE <<n.subtree_live_count, n.subtree_total_count, n.split_dim, n.split_value,
         Shape(n.left), Shape(n.right)>>

\* More records than one call can make.
ManyNodes == MaxBatch * (2 * Capacity + 2)

View ==
  << [k \in 1 .. store.live |-> store.points[Visited(store)[k]]],
     IF root = INVALID THEN <<>> ELSE Shape(root),
     root_bbox, Lower(nodes_size, ManyNodes), Len(modified), ToSet(modified), call >>

-----------------------------------------------------------------------------

\* The point set the tree stands for.
Client ==
  INSTANCE PointSet WITH
    members <- LivePoints(store),
    op      <- call.op,
    count   <- call.count

\* What each element of a batch does is what the abstract call does for that very
\* element: a delete that clears nothing must have had nothing to clear.
ElementsMatch ==
  /\ \A p \in Point : /\ InsertPoint(p) => Client!Insert(p)
                      /\ InsertDuplicate(p) => Client!Reject(p)
                      /\ RemoveQuery(p) => Client!Remove(p)
  /\ \A b \in Boxes : BoxDelete(b) => Client!BoxDelete(b)
  /\ \A b \in Balls : RadiusCrop(b) => Client!RadiusCrop(b)

\* Every call adds and removes exactly the points its documentation says, and
\* returns their number, whatever tree it finds; nothing else, a sweep or a
\* rebuild, changes the set.
ImplementsPointSet == Client!Spec /\ [][ElementsMatch]_vars

\* What the nodes of a tree hold, each under its path.
Named(nodes, Field(_)) ==
  LET all == nodes
  IN  [y \in {x.path : x \in all} |-> Field(CHOOSE x \in all : x.path = y)]

\* The tree as TreeCalls sees it.
Calls ==
  INSTANCE TreeCalls WITH
    points   <- store.points,
    live     <- LiveSlots(store),
    tree     <- [ planes  |-> Named(Internals, LAMBDA x : [split_dim   |-> x.node.split_dim,
                                                           split_value |-> x.node.split_value]),
                  buckets |-> Named(Leaves, LAMBDA x : ValidSlots(store, x.node.bucket)),
                  boxes   |-> Named(Leaves, LAMBDA x : x.node.leaf_bbox) ],
    cells    <- Named(Nodes, LAMBDA x : x.cell),
    stamp    <- store.generations,
    filled   <- Named(Leaves, LAMBDA x : x.node.bucket),
    total    <- Named(Nodes, LAMBDA x : x.node.subtree_total_count),
    modified <- ToSet(modified)

\* Each step is the step of TreeCalls for the same call, and the same element of it.
StepsMatch ==
  /\ \A p \in Point :
       /\ InsertPoint(p) => \E i \in Slot :
            \/ Calls!InsertIntoNone(i, p)
            \/ \E x \in {y.path : y \in Leaves} : Calls!InsertInto(i, p, x)
       /\ InsertDuplicate(p) => Calls!InsertDuplicate(p)
       /\ RemoveQuery(p) => Calls!RemoveQuery(p)
  /\ InsertReturn => Calls!InsertReturn
  /\ RemoveReturn => Calls!RemoveReturn
  /\ \A b \in Boxes : BoxDelete(b) => Calls!BoxDelete(b)
  /\ BoxDeleteReturn => Calls!BoxDeleteReturn
  /\ \A b \in Balls : RadiusCrop(b) => Calls!RadiusCrop(b)
  /\ RadiusCropReturn => Calls!RadiusCropReturn
  /\ RebuildAll => Calls!RebuildCall

\* Every step does to the partition, the stamps and entries, the total counts and the
\* records what TreeCalls says: the median splits, the routes of insertions, the descents
\* of spatial deletes and the subtrees a sweep rebuilds are those.
ImplementsTreeCalls == Calls!CallsSpec /\ [][StepsMatch]_vars

\* Between two calls, when a client may search, every search finds exactly what a scan
\* of all live points would, in any tree that a sequence of calls can leave.
SearchesExact ==
  call = NoCall =>
    \A q \in Queries :
      /\ \A k \in Ks : Nearest(store, q, k, InfiniteSqDist, knn_search(q, k))
      /\ \A r \in Radii :
           /\ Nearest(store, q, Unlimited, r, radius_search(q, r))
           /\ \A k \in Ks : Nearest(store, q, k, r, hybrid_search(q, k, r))
           /\ root # INVALID =>
                /\ any_within(store, root, q, r) = (Within(store, q, r) # {})
                /\ collect_indices_within(store, root, q, r) = Within(store, q, r)

=============================================================================
