----------------------------- MODULE PublicViz ------------------------------
(***************************************************************************)
(* The viewer that uses the public interface alone (public_viz.cpp): what  *)
(* is on the screen, frame after frame, as buttons are pressed.  The tree  *)
(* is the set of points PointSet says it is.                               *)
(***************************************************************************)
EXTENDS Geometry, FiniteSets, SequencesExt

CONSTANTS
  Capacity, Point, sq_resolution,
  Batches, Boxes, Balls,       \* what the buttons insert, delete and crop to
  Queries, Ks, Radii,          \* what the sliders of a query may be set to
  CloudCenter, CloudSqRadius   \* the ball in which live_cloud() searches

VARIABLES
  members,  \* the live points of *g_tree
  cloud,    \* the structure "live points"
  overlays  \* the highlights of a query: its name and values, and its hits

vars == <<members, cloud, overlays>>

-----------------------------------------------------------------------------
(* The tree's calls.                                                       *)

\* insert() of one point: turned away near a member, else a member may give way.
Written(m, p) ==
  IF \E q \in m : sq_dist(p, q) < sq_resolution THEN {m}
  ELSE IF Cardinality(m) < Capacity THEN {m \cup {p}}
  ELSE {(m \ {victim}) \cup {p} : victim \in m}

WrittenAll(m, batch) == FoldLeft(LAMBDA S, p : UNION {Written(n, p) : n \in S}, {m}, batch)

\* A set of k nearest of the points strictly within the radius.
IsHits(m, query, k, sq_radius, hits) ==
  LET close == {p \in m : sq_dist(p, query) < sq_radius}
  IN  /\ hits \subseteq close
      /\ Cardinality(hits) = Lower(k, Cardinality(close))
      /\ \A p \in hits, q \in close \ hits : sq_dist(p, query) <= sq_dist(q, query)

live_cloud(m) == {p \in m : sq_dist(p, CloudCenter) < CloudSqRadius}

-----------------------------------------------------------------------------
(* The buttons.                                                            *)

refresh == cloud' = live_cloud(members') /\ overlays' = {}

\* main() inserts the first batch and draws it.
Init ==
  /\ \E batch \in Batches : members \in WrittenAll({}, batch)
  /\ cloud = live_cloud(members)
  /\ overlays = {}

Insert(batch) == members' \in WrittenAll(members, batch) /\ refresh

DeleteBox(b) == members' = {p \in members : ~ contains_point(b, p)} /\ refresh

Crop(b) == members' = {p \in members : sq_dist(p, b.center) <= b.sq_radius} /\ refresh

\* The overlays are cleared before the new one is registered.
Search(name, query, k, sq_radius) ==
  /\ \E hits \in SUBSET members :
       /\ IsHits(members, query, k, sq_radius, hits)
       /\ overlays' = {[name |-> name, query |-> query, k |-> k, sq_radius |-> sq_radius,
                        hits |-> hits]}
  /\ UNCHANGED <<members, cloud>>

\* No ball reaches farther, and no search asks for more.
Everywhere == 8 * Far * Far

All == Capacity

Knn(q, k) == Search("knn hits", q, k, Everywhere)

Radius(q, r) == Search("radius hits", q, All, r)

Hybrid(q, k, r) == Search("hybrid hits", q, k, r)

Next ==
  \/ \E batch \in Batches : Insert(batch)
  \/ \E b \in Boxes : DeleteBox(b)
  \/ \E b \in Balls : Crop(b)
  \/ \E q \in Queries, k \in Ks : Knn(q, k)
  \/ \E q \in Queries, r \in Radii : Radius(q, r)
  \/ \E q \in Queries, k \in Ks, r \in Radii : Hybrid(q, k, r)

Spec == Init /\ [][Next]_vars

-----------------------------------------------------------------------------
(* Properties.                                                             *)

\* "a stale highlight never lingers past the query it belongs to"
\* (public_viz.cpp:77): what is highlighted is what the query finds among the
\* points now shown, and belongs to one query.
HighlightsCurrent ==
  /\ Cardinality(overlays) <= 1
  /\ \A o \in overlays : IsHits(cloud, o.query, o.k, o.sq_radius, o.hits)

=============================================================================
