--------------------------- MODULE GeometryProofs ---------------------------
(***************************************************************************)
(* Facts about points and boxes.                                           *)
(***************************************************************************)
EXTENDS Geometry, TLAPS

(* Squares. *)

\* A square is a natural number.
LEMMA SquareInt ==
  ASSUME NEW x \in Int
  PROVE  Square(x) \in Nat
BY DEF Square

\* Squares grow with the distance from 0 above it.
LEMMA SquareUp ==
  ASSUME NEW x \in Int, NEW y \in Int, 0 <= x, x <= y
  PROVE  Square(x) <= Square(y)
<1>1. x * x <= x * y
  OBVIOUS
<1>2. x * y <= y * y
  OBVIOUS
<1> QED
  BY <1>1, <1>2 DEF Square

\* And below it.
LEMMA SquareDown ==
  ASSUME NEW x \in Int, NEW y \in Int, y <= x, x <= 0
  PROVE  Square(x) <= Square(y)
<1>1. Square(x) = Square(-x) /\ Square(y) = Square(-y)
  BY DEF Square
<1>2. -x \in Int /\ -y \in Int /\ 0 <= -x /\ -x <= -y
  OBVIOUS
<1> QED
  BY <1>1, <1>2, SquareUp

\* So is a squared distance.
LEMMA SqDistType ==
  ASSUME NEW p \in Plane, NEW q \in Plane
  PROVE  sq_dist(p, q) \in Nat
<1>1. p[1] - q[1] \in Int /\ p[2] - q[2] \in Int
  BY DEF Plane
<1> QED
  BY <1>1, SquareInt DEF sq_dist

\* A point beyond a split plane, seen from the query, is no nearer than the plane.
LEMMA BeyondPlane ==
  ASSUME NEW q \in Int, NEW split \in Int, NEW x \in Int,
         IF q < split THEN split <= x ELSE x <= split
  PROVE  Square(q - split) <= Square(x - q)
<1>1. CASE q < split
  <2>1. q - split \in Int /\ x - q \in Int /\ split - q \in Int
    OBVIOUS
  <2>2. Square(q - split) = Square(split - q)
    BY DEF Square
  <2>3. 0 <= split - q /\ split - q <= x - q
    BY <1>1
  <2> QED
    BY <2>1, <2>2, <2>3, SquareUp
<1>2. CASE ~ (q < split)
  <2>1. q - split \in Int /\ x - q \in Int /\ q - x \in Int
    OBVIOUS
  <2>2. Square(x - q) = Square(q - x)
    BY DEF Square
  <2>3. 0 <= q - split /\ q - split <= q - x
    BY <1>2
  <2> QED
    BY <2>1, <2>2, <2>3, SquareUp
<1> QED
  BY <1>1, <1>2

(* Boxes. *)

\* Per axis, the distance from a query to a coordinate between two corners lies
\* between the two bounds.
LEMMA AxisBounds ==
  ASSUME NEW lo \in Int, NEW hi \in Int, NEW x \in Int, NEW q \in Int, lo <= x, x <= hi
  PROVE  /\ Square(Upper(lo - q, 0)) + Square(Upper(q - hi, 0)) <= Square(x - q)
         /\ Square(x - q) <= Square(Upper(Distance(q, lo), Distance(q, hi)))
<1>1. Square(0) = 0
  BY DEF Square
<1>2. Square(Upper(lo - q, 0)) + Square(Upper(q - hi, 0)) <= Square(x - q)
  <2>1. CASE q < lo
    <3>1. Upper(lo - q, 0) = lo - q /\ Upper(q - hi, 0) = 0
      BY <2>1 DEF Upper
    <3>2. Square(lo - q) <= Square(x - q)
      BY <2>1, SquareUp
    <3> QED
      BY <1>1, <3>1, <3>2, SquareInt
  <2>2. CASE hi < q
    <3>1. Upper(lo - q, 0) = 0 /\ Upper(q - hi, 0) = q - hi
      BY <2>2 DEF Upper
    <3>2. Square(q - hi) <= Square(q - x) /\ Square(q - x) = Square(x - q)
      BY <2>2, SquareUp DEF Square
    <3> QED
      BY <1>1, <3>1, <3>2, SquareInt
  <2>3. CASE lo <= q /\ q <= hi
    <3>1. Upper(lo - q, 0) = 0 /\ Upper(q - hi, 0) = 0
      BY <2>3 DEF Upper
    <3> QED
      BY <1>1, <3>1, SquareInt
  <2> QED
    BY <2>1, <2>2, <2>3
<1>3. Square(x - q) <= Square(Upper(Distance(q, lo), Distance(q, hi)))
  <2> DEFINE m == Upper(Distance(q, lo), Distance(q, hi))
  <2>1. m \in Int /\ x - q <= m /\ q - x <= m
    BY DEF Upper, Distance
  <2>2. CASE x >= q
    BY <2>1, <2>2, SquareUp
  <2>3. CASE x < q
    <3>1. Square(x - q) = Square(q - x)
      BY DEF Square
    <3> QED
      BY <2>1, <2>3, <3>1, SquareUp
  <2> QED
    BY <2>2, <2>3
<1> QED
  BY <1>2, <1>3

\* min_sq_dist and max_sq_dist bound the distance to every point of the box.
THEOREM BoxDistances ==
  ASSUME NEW b \in Cells, NEW p \in Plane, NEW q \in Plane, contains_point(b, p)
  PROVE  min_sq_dist(b, q) <= sq_dist(p, q) /\ sq_dist(p, q) <= max_sq_dist(b, q)
<1>1. /\ b.min_corner \in Plane /\ b.max_corner \in Plane
      /\ p[1] \in Int /\ p[2] \in Int /\ q[1] \in Int /\ q[2] \in Int
  BY DEF Cells, Plane
<1>2. ASSUME NEW a \in Axis
      PROVE  /\ AxisMin(b, q, a) <= Square(p[a] - q[a])
             /\ Square(p[a] - q[a]) <= AxisMax(b, q, a)
  <2>1. /\ b.min_corner[a] \in Int /\ b.max_corner[a] \in Int
        /\ p[a] \in Int /\ q[a] \in Int
    BY <1>1 DEF Axis, Plane
  <2>2. b.min_corner[a] <= p[a] /\ p[a] <= b.max_corner[a]
    BY DEF contains_point
  <2> QED
    BY <2>1, <2>2, AxisBounds DEF AxisMin, AxisMax
<1>3. ASSUME NEW a \in Axis
      PROVE  /\ AxisMin(b, q, a) \in Int /\ AxisMax(b, q, a) \in Int
             /\ Square(p[a] - q[a]) \in Int
  <2>1. /\ b.min_corner[a] \in Int /\ b.max_corner[a] \in Int
        /\ p[a] \in Int /\ q[a] \in Int
    BY <1>1 DEF Axis, Plane
  <2> QED
    BY <2>1 DEF AxisMin, AxisMax, Square, Upper, Distance
<1>4. 1 \in Axis /\ 2 \in Axis
  BY DEF Axis
<1>5. /\ AxisMin(b, q, 1) <= Square(p[1] - q[1]) /\ AxisMin(b, q, 2) <= Square(p[2] - q[2])
      /\ Square(p[1] - q[1]) <= AxisMax(b, q, 1) /\ Square(p[2] - q[2]) <= AxisMax(b, q, 2)
  BY <1>2, <1>4
<1>6. /\ AxisMin(b, q, 1) \in Int /\ AxisMin(b, q, 2) \in Int
      /\ AxisMax(b, q, 1) \in Int /\ AxisMax(b, q, 2) \in Int
      /\ Square(p[1] - q[1]) \in Int /\ Square(p[2] - q[2]) \in Int
  BY <1>3, <1>4
<1> QED
  BY <1>5, <1>6 DEF min_sq_dist, max_sq_dist, sq_dist

\* Those two bounds are numbers.
LEMMA BoxDistancesInt ==
  ASSUME NEW b \in Cells, NEW q \in Plane
  PROVE  min_sq_dist(b, q) \in Int /\ max_sq_dist(b, q) \in Int
<1>1. /\ b.min_corner \in Plane /\ b.max_corner \in Plane
      /\ q[1] \in Int /\ q[2] \in Int
  BY DEF Cells, Plane
<1>2. ASSUME NEW a \in Axis
      PROVE  AxisMin(b, q, a) \in Int /\ AxisMax(b, q, a) \in Int
  <2>1. b.min_corner[a] \in Int /\ b.max_corner[a] \in Int /\ q[a] \in Int
    BY <1>1 DEF Axis, Plane
  <2> QED
    BY <2>1 DEF AxisMin, AxisMax, Square, Upper, Distance
<1>3. 1 \in Axis /\ 2 \in Axis
  BY DEF Axis
<1>4. /\ AxisMin(b, q, 1) \in Int /\ AxisMin(b, q, 2) \in Int
      /\ AxisMax(b, q, 1) \in Int /\ AxisMax(b, q, 2) \in Int
  BY <1>2, <1>3
<1> QED
  BY <1>4 DEF min_sq_dist, max_sq_dist

\* A split shares a cell out: a point on either side of the plane is in the half of
\* that side.
LEMMA CellsCover ==
  ASSUME NEW b \in Cells, NEW p \in Plane, contains_point(b, p),
         NEW dim \in Axis, NEW split \in Int
  PROVE  /\ p[dim] <= split => contains_point(LeftCell(b, dim, split), p)
         /\ split <= p[dim] => contains_point(RightCell(b, dim, split), p)
BY DEF Cells, Plane, Axis, contains_point, LeftCell, RightCell, Lower, Upper

\* The halves of a cell are cells.
LEMMA CellsType ==
  ASSUME NEW b \in Cells, NEW dim \in Axis, NEW split \in Int
  PROVE  LeftCell(b, dim, split) \in Cells /\ RightCell(b, dim, split) \in Cells
BY DEF Cells, Plane, Axis, LeftCell, RightCell, Lower, Upper

\* expand() keeps the points of the box and adds its own.
LEMMA ExpandCovers ==
  ASSUME NEW b \in Cells, NEW p \in Plane, NEW r \in Plane
  PROVE  /\ expand(b, p) \in Cells
         /\ contains_point(expand(b, p), p)
         /\ contains_point(b, r) => contains_point(expand(b, p), r)
BY DEF Cells, Plane, Axis, contains_point, expand, PerAxis, Lower, Upper

=============================================================================
