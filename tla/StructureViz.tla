---------------------------- MODULE StructureViz ----------------------------
(***************************************************************************)
(* The structure viewer (structure_viz.cpp).  Polyscope calls              *)
(* user_callback() once a frame: a step of the animation, then the panel,  *)
(* of which the user presses at most one button.  With "animate" on an     *)
(* insertion or a deletion is queued, and drained over many frames while   *)
(* other buttons are pressed.                                              *)
(***************************************************************************)
EXTENDS InspectableKdTree

CONSTANTS
  Batches,                 \* what the buttons insert
  Queries, Ks, Radii,      \* what the sliders of a query may be set to
  Chunk,                   \* inserts drained in a frame; 60 in the code
  Slices,                  \* deletes queued for a box; 12 in the code
  MaxPending               \* bound on each queue when a button adds to it

ASSUME VizAssumption == {Chunk, Slices, MaxPending} \subseteq Nat \ {0}

VARIABLES
  tree,            \* *g_tree
  animate,         \* g_animate
  pending_insert,  \* g_pending_insert
  pending_delete,  \* g_pending_delete
  scene,           \* the structures "live points" and "leaf cells"
  overlays,        \* the highlights of a query
  turn,            \* what the frame does next: "animate" or "panel"
  asked            \* for the properties: the boxes whose deletion was asked for since
                   \* the last insertion was, and did not overtake it

vars == <<tree, animate, pending_insert, pending_delete, scene, overlays, turn, asked>>

-----------------------------------------------------------------------------
(* Drawing.                                                                *)

\* The buckets of the leaves in the order of walk(), which numbers them.
RECURSIVE walk(_)
walk(n) == IF n.is_leaf THEN <<n.bucket>> ELSE walk(n.left) \o walk(n.right)

\* Live points with the number of their leaf, and the boxes of leaves that have any.
snapshot(t) ==
  LET leaves   == IF t.root = INVALID THEN <<>> ELSE walk(t.root)
      Slots(k) == ValidSlots(t.points, leaves[k])
  IN  [ points |-> UNION {{<<t.points.points[i], k>> : i \in Slots(k)} : k \in DOMAIN leaves},
        cells  |-> {Hull(t.points, Slots(k)) : k \in {j \in DOMAIN leaves : Slots(j) # {}}} ]

\* Fault: the highlights stay.
refresh_cloud == scene' = snapshot(tree') /\ UNCHANGED overlays

refresh == scene' = snapshot(tree') /\ overlays' = {}

\* main() inserts the first batch and draws it.
Init ==
  /\ \E batch \in Batches : tree \in insert(NewTree, batch)
  /\ animate = FALSE
  /\ pending_insert = <<>> /\ pending_delete = <<>>
  /\ scene = snapshot(tree)
  /\ overlays = {}
  /\ turn = "animate"
  /\ asked = {}

-----------------------------------------------------------------------------
(* step_animation(): inserts before deletes, each queue from its end.      *)

Animate ==
  /\ turn = "animate"
  /\ turn' = "panel"
  /\ UNCHANGED <<animate, asked>>

DrainInserts ==
  LET rest == Upper(Len(pending_insert) - Chunk, 0)
  IN  /\ Animate
      /\ pending_insert # <<>>
      /\ tree' \in insert(tree, SubSeq(pending_insert, rest + 1, Len(pending_insert)))
      /\ pending_insert' = SubSeq(pending_insert, 1, rest)
      /\ refresh
      /\ UNCHANGED pending_delete

\* Fault: a deletion does not wait for the inserts.
DrainDeleteAtOnce ==
  /\ Animate
  /\ pending_delete # <<>>
  /\ tree' \in box_delete(tree, Last(pending_delete))
  /\ pending_delete' = Front(pending_delete)
  /\ refresh
  /\ UNCHANGED pending_insert

\* Fault: the slice is not taken from the queue.
DrainDeleteAgain ==
  /\ Animate
  /\ pending_insert = <<>>
  /\ pending_delete # <<>>
  /\ tree' \in box_delete(tree, Last(pending_delete))
  /\ refresh
  /\ UNCHANGED <<pending_insert, pending_delete>>

DrainDelete ==
  /\ Animate
  /\ pending_insert = <<>>
  /\ pending_delete # <<>>
  /\ tree' \in box_delete(tree, Last(pending_delete))
  /\ pending_delete' = Front(pending_delete)
  /\ refresh
  /\ UNCHANGED pending_insert

NothingQueued ==
  /\ Animate
  /\ pending_insert = <<>> /\ pending_delete = <<>>
  /\ UNCHANGED <<tree, pending_insert, pending_delete, scene, overlays>>

-----------------------------------------------------------------------------
(* The panel.                                                              *)

Panel ==
  /\ turn = "panel"
  /\ turn' = "animate"

NoButton ==
  /\ Panel
  /\ UNCHANGED <<tree, animate, pending_insert, pending_delete, scene, overlays, asked>>

AnimateBox ==
  /\ Panel
  /\ animate' = ~ animate
  /\ UNCHANGED <<tree, pending_insert, pending_delete, scene, overlays, asked>>

InsertNow(batch) ==
  /\ Panel
  /\ ~ animate
  /\ tree' \in insert(tree, batch)
  /\ refresh
  /\ asked' = {}
  /\ UNCHANGED <<animate, pending_insert, pending_delete>>

InsertQueued(batch) ==
  /\ Panel
  /\ animate
  /\ Len(pending_insert) < MaxPending
  /\ pending_insert' = pending_insert \o batch
  /\ asked' = {}
  /\ UNCHANGED <<tree, animate, pending_delete, scene, overlays>>

\* The i-th band of a box along x, for widths that Slices divides.
Slice(b, i) ==
  LET Cut(j) == b.min_corner[1] + ((b.max_corner[1] - b.min_corner[1]) * j) \div Slices
  IN  [b EXCEPT !.min_corner[1] = Cut(i), !.max_corner[1] = Cut(i + 1)]

\* Inserts still queued from before "animate" was switched off come after it.
DeleteNow(b) ==
  /\ Panel
  /\ ~ animate
  /\ tree' \in box_delete(tree, b)
  /\ refresh
  /\ asked' = IF pending_insert = <<>> THEN asked \cup {b} ELSE asked
  /\ UNCHANGED <<animate, pending_insert, pending_delete>>

\* The last band is queued first: the queue is drained from its end.
DeleteQueued(b) ==
  /\ Panel
  /\ animate
  /\ Len(pending_delete) < MaxPending
  /\ pending_delete' = pending_delete \o [j \in 1 .. Slices |-> Slice(b, Slices - j)]
  /\ asked' = asked \cup {b}
  /\ UNCHANGED <<tree, animate, pending_insert, scene, overlays>>

Crop(b) ==
  /\ Panel
  /\ tree' \in radius_crop(tree, b.center, b.sq_radius)
  /\ refresh
  /\ UNCHANGED <<animate, pending_insert, pending_delete, asked>>

\* Fault: the screen is not drawn again.
RebuildUnseen ==
  /\ Panel
  /\ tree' \in rebuild_all(tree)
  /\ UNCHANGED <<animate, pending_insert, pending_delete, scene, overlays, asked>>

RebuildAll ==
  /\ Panel
  /\ tree' \in rebuild_all(tree)
  /\ refresh
  /\ UNCHANGED <<animate, pending_insert, pending_delete, asked>>

\* The overlays are cleared before the new one is registered.
Search(name, query, k, sq_radius) ==
  /\ Panel
  /\ overlays' = {[name |-> name, query |-> query, k |-> k, sq_radius |-> sq_radius,
                   hits |-> Found(tree, query, k, sq_radius)]}
  /\ UNCHANGED <<tree, animate, pending_insert, pending_delete, scene, asked>>

\* No ball reaches farther, and no search asks for more.
Everywhere == 8 * Far * Far

All == Capacity

Knn(q, k) == Search("knn hits", q, k, Everywhere)

Radius(q, r) == Search("radius hits", q, All, r)

Hybrid(q, k, r) == Search("hybrid hits", q, k, r)

-----------------------------------------------------------------------------

StepAnimation == DrainInserts \/ DrainDelete \/ NothingQueued

Buttons ==
  \/ NoButton \/ AnimateBox
  \/ \E batch \in Batches : InsertNow(batch) \/ InsertQueued(batch)
  \/ \E b \in Boxes : DeleteNow(b) \/ DeleteQueued(b)
  \/ \E b \in Balls : Crop(b)
  \/ RebuildAll
  \/ \E q \in Queries, k \in Ks : Knn(q, k)
  \/ \E q \in Queries, r \in Radii : Radius(q, r)
  \/ \E q \in Queries, k \in Ks, r \in Radii : Hybrid(q, k, r)

Next == StepAnimation \/ Buttons

Spec == Init /\ [][Next]_vars

\* Every step is one half of a frame.
Frame == turn' = IF turn = "animate" THEN "panel" ELSE "animate"

\* Polyscope's loop calls user_callback() frame after frame.
FairSpec == Spec /\ WF_turn(Frame)

-----------------------------------------------------------------------------
(* Properties.                                                             *)

NothingPending == pending_insert = <<>> /\ pending_delete = <<>>

\* Once nothing is queued any more, no point is left in a box whose deletion was
\* asked for after the last insertion was: not one of the points that were still
\* queued when the deletion was, nor one between two bands.
DeletesPrevail ==
  NothingPending =>
    \A b \in asked, p \in LivePoints(tree.points) : ~ contains_point(b, p)

\* When the user stops adding to the queues they are drained for good, whatever
\* other buttons are pressed, switching "animate" off among them.
Drains ==
  <>[][/\ Len(pending_insert') <= Len(pending_insert)
       /\ Len(pending_delete') <= Len(pending_delete)]_vars
    => <>[]NothingPending

\* The screen is never behind the tree, in its cells either, which a rebuild moves
\* without adding or removing a point; and walk() comes by every live point once.
SceneIsTree ==
  /\ scene = snapshot(tree)
  /\ Cardinality(scene.points) = tree.points.live

=============================================================================
