------------------------------ MODULE Regions -------------------------------
(***************************************************************************)
(* The regions of the spatial deletes (tree_builder.cpp): box_delete()     *)
(* releases the points in a box, radius_crop() those outside a ball.  The  *)
(* two functions differ in the tests here alone, which judge a point, or a *)
(* box with all of its points at once.                                     *)
(***************************************************************************)
EXTENDS Geometry

CONSTANTS
  Boxes,  \* the boxes a client may pass to box_delete()
  Balls   \* the balls [center, sq_radius] it may pass to radius_crop()

ASSUME RegionAssumption ==
  /\ Boxes \subseteq Cells
  /\ Balls \subseteq [center : Plane, sq_radius : Int]

BoxRegion(box) == [kind |-> "box", box |-> box]

OutsideBall(center, sq_radius) ==
  [kind |-> "outside ball", center |-> center, sq_radius |-> sq_radius]

\* A point is to be released.
Hits(g, p) ==
  \/ g.kind = "box" /\ contains_point(g.box, p)
  \/ g.kind = "outside ball" /\ sq_dist(p, g.center) > g.sq_radius

\* Fault: the nearest corner is compared, not the farthest.
MissesByNearest(g, b) ==
  \/ g.kind = "box" /\ disjoint(g.box, b)
  \/ g.kind = "outside ball" /\ min_sq_dist(b, g.center) <= g.sq_radius

\* No point of the box can be hit.
Misses(g, b) ==
  \/ g.kind = "box" /\ disjoint(g.box, b)
  \/ g.kind = "outside ball" /\ max_sq_dist(b, g.center) <= g.sq_radius

\* Every point of the box is hit.
Swallows(g, b) ==
  \/ g.kind = "box" /\ contains_box(g.box, b)
  \/ g.kind = "outside ball" /\ min_sq_dist(b, g.center) > g.sq_radius

=============================================================================
