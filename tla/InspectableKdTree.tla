------------------------- MODULE InspectableKdTree --------------------------
(***************************************************************************)
(* The demo's own assembly of the library's parts                          *)
(* (inspectable_kd_tree.hpp), each call as one step: an operator maps the  *)
(* tree to the set of trees the call may leave.  It has no remove().       *)
(*                                                                         *)
(* Every call ends with modified_nodes_ empty and finds it so: a delete    *)
(* that records nodes has cleared something, and sweeps.                   *)
(***************************************************************************)
EXTENDS SearchKernel

CONSTANTS
  sq_resolution,
  MaxNodes,  \* the pool's size is counted up to here, beyond the records of a call
  INVALID

NewTree == [points |-> NewStore, root |-> INVALID, root_bbox |-> ZeroBox, nodes |-> 0]

\* The subtree an operation leaves takes the place of the root.
Adopted(t, grown) ==
  {[t EXCEPT !.root = g.node, !.nodes = Lower(@ + g.made, MaxNodes)] : g \in grown}

Rebuilt(t, slots) ==
  {[t EXCEPT !.root      = n,
             !.root_bbox = Hull(t.points, slots),
             !.nodes     = Lower(@ + NodeCount(n), MaxNodes)] :
     n \in build_recursive(t.points, slots)}

InsertOne(t, p) ==
  LET i == AcquiredSlot(t.points)
      u == [t EXCEPT !.points = Acquired(@, p)]
  IN  IF t.root = INVALID THEN Rebuilt(u, {i})
      ELSE IF any_within(t.points, t.root, p, sq_resolution) THEN {t}
      ELSE Adopted([u EXCEPT !.root_bbox = expand(@, p)], insert_index(u.points, u.root, i))

\* A sweep follows when something was inserted.
insert(t, batch) ==
  LET filed == FoldLeft(LAMBDA S, p : UNION {InsertOne(u, p) : u \in S}, {t}, batch)
  IN  UNION {IF u.points = t.points THEN {u} ELSE Adopted(u, sweep_full(u.points, u.root)) :
               u \in filed}

Deleted(t, region) ==
  IF t.root = INVALID THEN {t}
  ELSE UNION {LET u == [t EXCEPT !.points = d.store, !.root = d.node]
              IN  IF d.cleared = 0 THEN {u}
                  ELSE Adopted(u, maybe_partial_rebuild(u.points, u.root, d.modified, u.nodes)) :
                d \in delete_recurse(t.root, t.points, t.root_bbox, region, <<>>)}

box_delete(t, box) == Deleted(t, BoxRegion(box))

radius_crop(t, center, sq_radius) == Deleted(t, OutsideBall(center, sq_radius))

rebuild_all(t) ==
  IF LiveSlots(t.points) = {} THEN {[t EXCEPT !.root = INVALID, !.nodes = 0]}
  ELSE Rebuilt([t EXCEPT !.nodes = 0], LiveSlots(t.points))

\* knn_search(), radius_search() and hybrid_search(): the points they find.
Found(t, query, k, sq_radius) ==
  IF t.root = INVALID THEN {}
  ELSE {t.points.points[e.index] : e \in search(t.points, t.root, query, k, sq_radius)}

=============================================================================
