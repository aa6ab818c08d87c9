------------------------------- MODULE MCViz --------------------------------
(***************************************************************************)
(* TLC instances of the structure viewer, and the viewer of the public     *)
(* interface it amounts to.                                                *)
(***************************************************************************)
EXTENDS StructureViz

P(x, y) == <<x, y>>

Origin == P(0, 0)

Box(x1, y1, x2, y2) == [min_corner |-> P(x1, y1), max_corner |-> P(x2, y2)]

Ball(x, y, r2) == [center |-> P(x, y), sq_radius |-> r2]

Alpha == <<7, 10>>

Quarter == <<1, 4>>

Corner3 == {P(0, 0), P(0, 2), P(2, 0)}

\* Two points, in each order, and a batch with a duplicate.
SomeBatches == {<<P(0, 0), P(2, 0)>>, <<P(2, 0), P(0, 2)>>, <<P(0, 0), P(0, 0)>>}

\* The left half, everything, and a box with its corners the wrong way round.
SomeBoxes == {Box(0, 0, 0, 2), Box(0, 0, 2, 2), Box(2, 2, 0, 0)}

SomeBalls == {Ball(0, 0, 3)}

SomeQueries == {P(2, 1)}

-----------------------------------------------------------------------------
(* States that differ in slots, stamps or leftovers behave alike.          *)

RECURSIVE Shape(_)
Shape(n) ==
  IF n.is_leaf
  THEN <<n.subtree_live_count, n.subtree_total_count, Cardinality(n.bucket),
         {tree.points.points[i] : i \in ValidSlots(tree.points, n.bucket)}, n.leaf_bbox>>
  ELSE <<n.subtree_live_count, n.subtree_total_count, n.split_dim, n.split_value,
         Shape(n.left), Shape(n.right)>>

View ==
  << [k \in 1 .. tree.points.live |-> tree.points.points[Visited(tree.points)[k]]],
     IF tree.root = INVALID THEN <<>> ELSE Shape(tree.root), tree.root_bbox, tree.nodes,
     animate, pending_insert, pending_delete, scene, overlays, turn, asked >>

-----------------------------------------------------------------------------
(* The public viewer.                                                      *)

\* What a frame drains is part of what was queued.
Chunks == UNION {[1 .. n -> Point] : n \in 1 .. 2}

Bands == Boxes \cup {Slice(b, i) : b \in Boxes, i \in 0 .. Slices - 1}

PublicViewer ==
  INSTANCE PublicViz WITH
    Batches       <- Chunks,
    Boxes         <- Bands,
    CloudCenter   <- Origin,
    CloudSqRadius <- Everywhere,
    members       <- LivePoints(tree.points),
    cloud         <- {p[1] : p \in scene.points},
    overlays      <- overlays

\* The library's parts put together by the demo behave as the tree behind the public
\* interface: at every frame the screen shows what the public viewer would show for
\* the same buttons, or for a chunk or a band of what was queued.
ImplementsPublicViz == PublicViewer!Spec

\* "a stale highlight never lingers past the query it belongs to"
\* (structure_viz.cpp:128): in the middle of an animation too, what is highlighted is
\* what the query would find among the points now drawn.
HighlightsCurrent == PublicViewer!HighlightsCurrent

=============================================================================
