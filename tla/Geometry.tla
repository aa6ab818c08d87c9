------------------------------ MODULE Geometry ------------------------------
(***************************************************************************)
(* Points and axis-aligned boxes (point.hpp, bbox.hpp) in two dimensions,  *)
(* with integer coordinates: the comparisons, sums and products of the     *)
(* code are exact here, its rounding of floats is left out.                *)
(***************************************************************************)
EXTENDS Integers

CONSTANT Far  \* stands for the infinities of float: beyond every coordinate

ASSUME FarAssumption == Far \in Nat \ {0}

\* Dim = 2.
Axis == 1 .. 2

\* Every point there is.
Plane == Int \X Int

\* Boxes with corners anywhere, inverted ones too.
Cells == [min_corner : Plane, max_corner : Plane]

\* A point or corner given axis by axis.
PerAxis(Coordinate(_)) == <<Coordinate(1), Coordinate(2)>>

Lower(x, y) == IF x <= y THEN x ELSE y

Upper(x, y) == IF x >= y THEN x ELSE y

Square(x) == x * x

Distance(x, y) == IF x <= y THEN y - x ELSE x - y

\* Squared Euclidean distance between two points.
sq_dist(p, q) == Square(p[1] - q[1]) + Square(p[2] - q[2])

\* The value-initialised box.
ZeroBox == [min_corner |-> PerAxis(LAMBDA a : 0), max_corner |-> PerAxis(LAMBDA a : 0)]

\* The box around nothing, where a fold of expand() starts.
EmptyBox ==
  [min_corner |-> PerAxis(LAMBDA a : Far), max_corner |-> PerAxis(LAMBDA a : -Far)]

\* Grow a box to cover a point.
expand(b, p) ==
  [ min_corner |-> PerAxis(LAMBDA a : Lower(b.min_corner[a], p[a])),
    max_corner |-> PerAxis(LAMBDA a : Upper(b.max_corner[a], p[a])) ]

contains_point(b, p) ==
  \A a \in Axis : b.min_corner[a] <= p[a] /\ p[a] <= b.max_corner[a]

contains_box(b, c) ==
  \A a \in Axis : b.min_corner[a] <= c.min_corner[a] /\ c.max_corner[a] <= b.max_corner[a]

disjoint(b, c) ==
  \E a \in Axis : b.max_corner[a] < c.min_corner[a] \/ b.min_corner[a] > c.max_corner[a]

\* Squared distance from a point to the nearest point of a box, axis by axis.
AxisMin(b, p, a) ==
  Square(Upper(b.min_corner[a] - p[a], 0)) + Square(Upper(p[a] - b.max_corner[a], 0))

min_sq_dist(b, p) == AxisMin(b, p, 1) + AxisMin(b, p, 2)

\* Squared distance from a point to the farthest corner of a box.
AxisMax(b, p, a) ==
  Square(Upper(Distance(p[a], b.min_corner[a]), Distance(p[a], b.max_corner[a])))

max_sq_dist(b, p) == AxisMax(b, p, 1) + AxisMax(b, p, 2)

\* The two halves a split plane cuts a cell into (the plane belongs to both).
LeftCell(b, dim, split) == [b EXCEPT !.max_corner[dim] = Lower(@, split)]

RightCell(b, dim, split) == [b EXCEPT !.min_corner[dim] = Upper(@, split)]

=============================================================================
