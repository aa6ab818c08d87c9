------------------------------ MODULE PointSet ------------------------------
(***************************************************************************)
(* What the tree promises its client, with no tree in sight: a set of at   *)
(* most Capacity points, no two closer than the resolution, and the number *)
(* each call returns.                                                      *)
(***************************************************************************)
EXTENDS Geometry, FiniteSets

CONSTANTS Capacity, Point, sq_resolution, Boxes, Balls

VARIABLES
  members,  \* the live points
  op,       \* the call in progress
  count     \* the number it would return now

vars == <<members, op, count>>

Init == members = {} /\ op = "none" /\ count = 0

Begin(name) ==
  /\ op = "none"
  /\ op' = name
  /\ UNCHANGED <<members, count>>

Return ==
  /\ op' = "none"
  /\ count' = 0
  /\ UNCHANGED members

\* A point with no member near it joins; one member gives way to it when the set
\* is full.
Insert(p) ==
  /\ op = "insert"
  /\ \A m \in members : sq_dist(m, p) >= sq_resolution
  /\ IF Cardinality(members) < Capacity
     THEN members' = members \cup {p}
     ELSE \E victim \in members : members' = (members \ {victim}) \cup {p}
  /\ count' = count + 1
  /\ UNCHANGED op

\* A point that a member is near to is turned away.
Reject(p) ==
  /\ op = "insert"
  /\ \E m \in members : sq_dist(m, p) < sq_resolution
  /\ UNCHANGED vars

\* The points that satisfy a condition leave, and are counted.
Leave(name, gone) ==
  /\ op = name
  /\ members' = members \ gone
  /\ count' = count + Cardinality(gone)
  /\ UNCHANGED op

Remove(q) == Leave("remove", {m \in members : sq_dist(m, q) < sq_resolution})

BoxDelete(b) == Leave("box_delete", {m \in members : contains_point(b, m)})

RadiusCrop(b) ==
  Leave("radius_crop", {m \in members : sq_dist(m, b.center) > b.sq_radius})

Next ==
  \/ \E name \in {"insert", "remove", "box_delete", "radius_crop"} : Begin(name)
  \/ \E p \in Point : Insert(p) \/ Reject(p) \/ Remove(p)
  \/ \E b \in Boxes : BoxDelete(b)
  \/ \E b \in Balls : RadiusCrop(b)
  \/ Return

Spec == Init /\ [][Next]_vars

=============================================================================
