------------------------- MODULE SpatialTreeProofs --------------------------
(***************************************************************************)
(* Whatever calls are made, on a tree of any size: its points stay on the  *)
(* right side of every split plane, and a spatial delete releases exactly  *)
(* the live points in its region.                                          *)
(***************************************************************************)
EXTENDS SpatialTree, GeometryProofs, SequenceTheorems, WellFoundedInduction, TLAPS

\* The names of nodes.
Path == Seq({"left", "right"})

(* Paths. *)

\* Every set of naturals has a least element.
LEMMA LeastNat ==
  ASSUME NEW T, T \subseteq Nat, T # {}
  PROVE  \E m \in T : \A n \in T : m <= n
<1> DEFINE R == OpToRel(<, Nat)
<1>1. IsWellFoundedOn(R, Nat)
  BY NatLessThanWellFounded
<1>2. \E x \in T : \A y \in T : ~ (<<y, x>> \in R)
  <2> HIDE DEF R
  <2> QED
    BY <1>1, WFMin, Zenon
<1>3. ASSUME NEW x \in T, NEW y \in T, ~ (<<y, x>> \in R)
      PROVE  x <= y
  BY <1>3 DEF OpToRel
<1> QED
  BY <1>2, <1>3

\* Every set of paths has a shortest one.
LEMMA Shortest ==
  ASSUME NEW T, T \subseteq Path, T # {}
  PROVE  \E x \in T : \A y \in T : Len(x) <= Len(y)
<1> DEFINE lengths == {Len(x) : x \in T}
<1>1. lengths \subseteq Nat
  BY LenProperties DEF Path
<1>2. lengths # {}
  OBVIOUS
<1>3. PICK m \in lengths : \A n \in lengths : m <= n
  <2> HIDE DEF lengths
  <2> QED
    BY <1>1, <1>2, LeastNat
<1>4. PICK x \in T : m = Len(x)
  OBVIOUS
<1>5. ASSUME NEW y \in T
      PROVE  Len(x) <= Len(y)
  <2>1. Len(y) \in lengths
    OBVIOUS
  <2> QED
    BY <1>3, <1>4, <2>1
<1> QED
  BY <1>5

\* Above is a partial order with <<>> on top, and paths grow downwards.
LEMMA AboveTrans ==
  ASSUME NEW x \in Path, NEW y \in Path, NEW z \in Path, Above(x, y), Above(y, z)
  PROVE  Above(x, z)
<1>1. /\ Len(x) \in Nat /\ Len(y) \in Nat /\ Len(z) \in Nat
      /\ DOMAIN x = 1 .. Len(x) /\ DOMAIN y = 1 .. Len(y) /\ DOMAIN z = 1 .. Len(z)
  BY LenProperties DEF Path
<1> QED
  BY <1>1 DEF Above

\* The root is above every node, and a node above itself.
LEMMA AboveSame ==
  ASSUME NEW x \in Path
  PROVE  Above(<<>>, x) /\ Above(x, x)
<1>1. Len(x) \in Nat /\ DOMAIN x = 1 .. Len(x)
  BY LenProperties DEF Path
<1> QED
  BY <1>1 DEF Above

\* What is above something else is shorter, and not below it.
LEMMA AboveShorter ==
  ASSUME NEW x \in Path, NEW y \in Path, Above(x, y), x # y
  PROVE  Len(x) < Len(y) /\ ~ Above(y, x)
<1>1. Len(x) \in Nat /\ Len(y) \in Nat /\ DOMAIN x = 1 .. Len(x) /\ DOMAIN y = 1 .. Len(y)
  BY LenProperties DEF Path
<1>2. Len(x) <= Len(y) /\ \A k \in 1 .. Len(x) : x[k] = y[k]
  BY <1>1 DEF Above
<1>3. ASSUME Len(x) = Len(y)
      PROVE  FALSE
  <2>1. x \in Path /\ y \in Path /\ \A k \in 1 .. Len(x) : x[k] = y[k]
    BY <1>2
  <2> QED
    BY <1>3, <2>1, SeqEqual DEF Path
<1>4. Len(x) < Len(y)
  <2>1. Len(x) \in Nat /\ Len(y) \in Nat
    BY <1>1
  <2>2. Len(x) <= Len(y) /\ Len(x) # Len(y)
    BY <1>2, <1>3
  <2> QED
    BY <2>1, <2>2
<1> QED
  BY <1>1, <1>4 DEF Above

\* Two nodes above a third are one above the other.
LEMMA AboveLinear ==
  ASSUME NEW x \in Path, NEW y \in Path, NEW z \in Path, Above(x, z), Above(y, z)
  PROVE  Above(x, y) \/ Above(y, x)
<1>1. /\ Len(x) \in Nat /\ Len(y) \in Nat /\ Len(z) \in Nat
      /\ DOMAIN x = 1 .. Len(x) /\ DOMAIN y = 1 .. Len(y) /\ DOMAIN z = 1 .. Len(z)
  BY LenProperties DEF Path
<1>2. CASE Len(x) <= Len(y)
  BY <1>1, <1>2 DEF Above
<1>3. CASE Len(y) <= Len(x)
  BY <1>1, <1>3 DEF Above
<1> QED
  BY <1>1, <1>2, <1>3

\* Below a node are its two children and, under one or the other, everything else.
LEMMA Children ==
  ASSUME NEW y \in Path, NEW x \in Path
  PROVE  /\ Left(y) \in Path /\ Right(y) \in Path
         /\ Above(y, Left(y)) /\ Above(y, Right(y))
         /\ y # Left(y) /\ y # Right(y) /\ Len(y) < Len(Left(y)) /\ Len(y) < Len(Right(y))
         /\ Above(y, x) /\ y # x <=> Above(Left(y), x) \/ Above(Right(y), x)
         /\ ~ (Above(Left(y), x) /\ Above(Right(y), x))
         /\ Above(x, Left(y)) <=> x = Left(y) \/ Above(x, y)
         /\ Above(x, Right(y)) <=> x = Right(y) \/ Above(x, y)
<1>1. /\ Len(x) \in Nat /\ Len(y) \in Nat
      /\ DOMAIN x = 1 .. Len(x) /\ DOMAIN y = 1 .. Len(y)
      /\ \A k \in 1 .. Len(x) : x[k] \in {"left", "right"}
  BY LenProperties, ElementOfSeq DEF Path
<1>2. ASSUME NEW d \in {"left", "right"}
      PROVE  /\ Append(y, d) \in Path
             /\ Len(Append(y, d)) = Len(y) + 1
             /\ DOMAIN Append(y, d) = 1 .. Len(y) + 1
             /\ \A k \in 1 .. Len(y) : Append(y, d)[k] = y[k]
             /\ Append(y, d)[Len(y) + 1] = d
  BY AppendProperties, LenProperties, <1>1 DEF Path
<1>3. ASSUME NEW d \in {"left", "right"}
      PROVE  /\ Above(y, Append(y, d)) /\ Len(y) < Len(Append(y, d))
             /\ Above(Append(y, d), x) <=> Above(y, x) /\ Len(y) < Len(x) /\ x[Len(y) + 1] = d
  <2>1. Above(y, Append(y, d)) /\ Len(y) < Len(Append(y, d))
    BY <1>1, <1>2 DEF Above
  <2>2. ASSUME Above(Append(y, d), x)
        PROVE  Above(y, x) /\ Len(y) < Len(x) /\ x[Len(y) + 1] = d
    BY <1>1, <1>2, <2>2 DEF Above
  <2>3. ASSUME Above(y, x), Len(y) < Len(x), x[Len(y) + 1] = d
        PROVE  Above(Append(y, d), x)
    BY <1>1, <1>2, <2>3 DEF Above
  <2> QED
    BY <2>1, <2>2, <2>3
<1>4. ASSUME NEW d \in {"left", "right"}
      PROVE  Above(x, Append(y, d)) <=> x = Append(y, d) \/ Above(x, y)
  <2>1. Above(x, y) => Above(x, Append(y, d))
    BY <1>1, <1>2 DEF Above
  <2>2. Append(y, d) \in Path
    BY <1>2
  <2>3. x = Append(y, d) => Above(x, Append(y, d))
    BY <2>2, AboveSame
  <2>4. ASSUME Above(x, Append(y, d)), x # Append(y, d)
        PROVE  Above(x, y)
    <3>1. Len(x) < Len(y) + 1
      BY <1>2, <2>2, <2>4, AboveShorter
    <3> QED
      <4>1. Len(x) <= Len(y)
        BY <1>1, <3>1
      <4>2. \A k \in 1 .. Len(x) : x[k] = Append(y, d)[k]
        BY <1>1, <2>4 DEF Above
      <4>3. \A k \in 1 .. Len(x) : k \in 1 .. Len(y)
        BY <1>1, <4>1
      <4> QED
        BY <1>1, <1>2, <4>1, <4>2, <4>3 DEF Above
  <2> QED
    BY <2>1, <2>3, <2>4
<1>5. Above(y, x) => (y # x <=> Len(y) < Len(x))
  BY <1>1, AboveShorter
<1>6. Len(y) < Len(x) => x[Len(y) + 1] \in {"left", "right"}
  BY <1>1
<1> DEFINE L == Append(y, "left")
           R == Append(y, "right")
<1>7. L \in Path /\ R \in Path /\ Len(y) < Len(L) /\ Len(y) < Len(R)
  BY <1>2, <1>3
<1>8. /\ Above(y, L) /\ Above(y, R)
      /\ Above(L, x) <=> Above(y, x) /\ Len(y) < Len(x) /\ x[Len(y) + 1] = "left"
      /\ Above(R, x) <=> Above(y, x) /\ Len(y) < Len(x) /\ x[Len(y) + 1] = "right"
  BY <1>3
<1>9. /\ Above(x, L) <=> x = L \/ Above(x, y)
      /\ Above(x, R) <=> x = R \/ Above(x, y)
  BY <1>4
<1>10. Above(y, x) /\ y # x <=> Above(L, x) \/ Above(R, x)
  BY <1>5, <1>6, <1>8
<1>11. y # L /\ y # R
  <2>1. Len(y) \in Nat /\ Len(y) < Len(L) /\ Len(y) < Len(R)
    BY <1>1, <1>7
  <2> HIDE DEF L, R
  <2> QED
    BY <2>1
<1> QED
  BY <1>7, <1>8, <1>9, <1>10, <1>11 DEF Left, Right

(* The nodes of a tree and the slots under them. *)

\* The nodes on the way to a node are inner nodes.
LEMMA OnTheWay ==
  ASSUME NEW t, Shaped(t), NEW x \in Node(t), NEW y \in Path, Above(y, x), y # x
  PROVE  y \in Inner(t)
<1>1. x \in Path
  BY DEF Shaped, Path
<1>2. Len(y) \in Nat /\ Len(x) \in Nat /\ Len(y) < Len(x)
  BY <1>1, AboveShorter, LenProperties DEF Path
<1>3. y = SubSeq(x, 1, Len(y))
  <2>1. 1 \in 1 .. Len(x) + 1 /\ Len(y) \in 1 - 1 .. Len(x)
    BY <1>2
  <2>2. /\ SubSeq(x, 1, Len(y)) \in Path
        /\ Len(SubSeq(x, 1, Len(y))) = Len(y)
        /\ \A k \in 1 .. Len(y) : SubSeq(x, 1, Len(y))[k] = x[k]
    BY <1>1, <1>2, <2>1, SubSeqProperties DEF Path
  <2>3. \A k \in 1 .. Len(y) : y[k] = x[k]
    BY LenProperties DEF Above, Path
  <2> QED
    BY <2>2, <2>3, SeqEqual DEF Path
<1>4. Len(y) \in 0 .. Len(x) - 1
  BY <1>2
<1> QED
  BY <1>3, <1>4 DEF Shaped

\* Every node but the root is a child.
LEMMA Parent ==
  ASSUME NEW t, Shaped(t), NEW x \in Node(t), x # <<>>
  PROVE  \E y \in Inner(t) : x = Left(y) \/ x = Right(y)
<1>1. x \in Path
  BY DEF Shaped, Path
<1> DEFINE y == SubSeq(x, 1, Len(x) - 1)
           d == x[Len(x)]
<1>2. Len(x) \in Nat /\ Len(x) > 0
  BY <1>1, LenProperties, EmptySeq DEF Path
<1>3. y \in Inner(t)
  BY <1>2 DEF Shaped
<1>4. d \in {"left", "right"}
  BY <1>1, <1>2, ElementOfSeq DEF Path
<1>5. x = Append(y, d)
  <2>1. /\ y \in Path /\ Len(y) = Len(x) - 1
        /\ \A k \in 1 .. Len(x) - 1 : y[k] = x[k]
    <3> DEFINE n == Len(x) - 1
    <3>1. n \in Nat
      BY <1>2
    <3>2. \A k \in 1 .. n : k \in 1 .. Len(x)
      BY <1>2
    <3>3. \A k \in 1 .. n : x[k] \in {"left", "right"}
      BY <1>1, <1>2, <3>2, ElementOfSeq DEF Path
    <3> HIDE DEF n
    <3>4. /\ SubSeq(x, 1, n) \in Path /\ Len(SubSeq(x, 1, n)) = n
          /\ \A k \in 1 .. n : SubSeq(x, 1, n)[k] = x[k]
      BY <3>1, <3>3, SubSeqProperties DEF Path
    <3> QED
      BY <3>4 DEF n
  <2>2. /\ Append(y, d) \in Path /\ Len(Append(y, d)) = Len(x)
        /\ \A k \in 1 .. Len(x) - 1 : Append(y, d)[k] = x[k]
        /\ Append(y, d)[Len(x)] = x[Len(x)]
    <3> HIDE DEF y, d
    <3>1. d = x[Len(x)]
      BY DEF d
    <3> QED
      BY <1>2, <1>4, <2>1, <3>1, AppendProperties DEF Path
  <2>3. \A k \in 1 .. Len(x) : Append(y, d)[k] = x[k]
    <3> HIDE DEF y, d
    <3> QED
      BY <1>2, <2>2
  <2> QED
    BY <1>1, <2>2, <2>3, SeqEqual DEF Path
<1> QED
  BY <1>3, <1>4, <1>5 DEF Left, Right

\* The slots under a leaf are its bucket's; those under an inner node its children's,
\* and those under any node its ancestors' too.
LEMMA Slots ==
  ASSUME NEW t, Shaped(t)
  PROVE  /\ Node(t) \subseteq Path
         /\ \A y : Under(t, y) = UNION {t.buckets[x] : x \in {z \in Leaf(t) : Above(y, z)}}
         /\ \A x \in Leaf(t) : Under(t, x) = t.buckets[x]
         /\ \A y \in Inner(t) : Under(t, y) = Under(t, Left(y)) \cup Under(t, Right(y))
         /\ \A y, z \in Path : Above(y, z) => Under(t, z) \subseteq Under(t, y)
<1>1. Node(t) \subseteq Path /\ Leaf(t) \subseteq Node(t) /\ Inner(t) \subseteq Node(t)
  BY DEF Shaped, Path, Node
<1>2. ASSUME NEW x \in Leaf(t)
      PROVE  Under(t, x) = t.buckets[x]
  <2>1. ASSUME NEW z \in Leaf(t), Above(x, z)
        PROVE  z = x
    <3>1. x # z => x \in Inner(t)
      BY <1>1, <2>1, OnTheWay
    <3> QED
      BY <3>1 DEF Shaped
  <2>2. Above(x, x)
    BY <1>1, AboveSame
  <2>3. {z \in Leaf(t) : Above(x, z)} = {x}
    BY <2>1, <2>2
  <2> QED
    BY <2>3 DEF Under
<1>3. ASSUME NEW y \in Inner(t)
      PROVE  Under(t, y) = Under(t, Left(y)) \cup Under(t, Right(y))
  <2>1. ASSUME NEW z \in Leaf(t)
        PROVE  Above(y, z) <=> Above(Left(y), z) \/ Above(Right(y), z)
    <3>1. y # z
      BY DEF Shaped
    <3>2. y \in Path /\ z \in Path
      BY <1>1
    <3> QED
      BY <3>1, <3>2, Children
  <2> QED
    BY <2>1 DEF Under
<1>4. ASSUME NEW y \in Path, NEW z \in Path, Above(y, z)
      PROVE  Under(t, z) \subseteq Under(t, y)
  <2>1. \A x \in Leaf(t) : Above(z, x) => Above(y, x)
    BY <1>1, <1>4, AboveTrans
  <2> QED
    BY <2>1 DEF Under
<1> QED
  BY <1>1, <1>2, <1>3, <1>4 DEF Under

(* The invariant, node by node. *)

\* The children of an inner node share out its slots along the split plane.
SplitSound(t, pts, y) ==
  LET plane == t.planes[y]
  IN  /\ plane.split_dim \in Axis /\ plane.split_value \in Int
      /\ Under(t, Left(y)) \cap Under(t, Right(y)) = {}
      /\ \A i \in Under(t, Left(y)) : pts[i][plane.split_dim] <= plane.split_value
      /\ \A i \in Under(t, Right(y)) : plane.split_value <= pts[i][plane.split_dim]

\* The box of a leaf covers its points.
LeafSound(t, pts, slots, x) ==
  /\ t.buckets[x] \subseteq slots
  /\ t.boxes[x] \in Cells
  /\ \A i \in t.buckets[x] : contains_point(t.boxes[x], pts[i])

\* The parts of SpatialInv that are about the nodes.
TreeSound(t, pts, slots) ==
  /\ Shaped(t)
  /\ \A y \in Inner(t) : SplitSound(t, pts, y)
  /\ \A x \in Leaf(t) : LeafSound(t, pts, slots, x)
  /\ \A i \in slots : \E x \in Leaf(t) : i \in t.buckets[x]

\* The parts about the box of the root and the partitions handed down from it.
RootSound(t, c, pts, slots) ==
  /\ Partitions(c, t)
  /\ Node(t) # {} => c[<<>>] \in Cells
  /\ RootHolds(c, pts, slots)

\* SpatialInv says that the parts hold of the tree,
LEMMA InvByNode ==
  ASSUME SpatialInv
  PROVE  /\ points \in [Slot -> Point] /\ live \subseteq Slot
         /\ TreeSound(tree, points, live) /\ RootSound(tree, cells, points, live)
BY DEF SpatialInv, TypeOK, SharedOut, Separated, BoxesHold, TreeSound, SplitSound,
       LeafSound, RootSound

\* and after a step it holds again when they do.
LEMMA InvByNodeNext ==
  ASSUME points' \in [Slot -> Point], live' \subseteq Slot,
         TreeSound(tree', points', live'), RootSound(tree', cells', points', live')
  PROVE  SpatialInv'
<1>1. TypeOK'
  BY DEF TypeOK, TreeSound, SplitSound, LeafSound, RootSound
<1>2. SharedOut(tree', live') /\ Separated(tree', points') /\ BoxesHold(tree', points')
  BY DEF TreeSound, SplitSound, LeafSound, SharedOut, Separated, BoxesHold
<1> QED
  BY <1>1, <1>2 DEF SpatialInv, TreeSound, RootSound

(* Building. *)

\* A folded box is one, and covers what it was folded from.
LEMMA HullSound ==
  ASSUME NEW b, NEW pts, NEW slots, IsHull(b, pts, slots)
  PROVE  b \in Cells /\ \A i \in slots : contains_point(b, pts[i])
<1>1. EmptyBox \in Cells
  BY FarAssumption DEF EmptyBox, PerAxis, Cells, Plane
<1> QED
  BY <1>1 DEF IsHull

\* What build_recursive() makes of a node is sound.
LEMMA BuiltSound ==
  ASSUME NEW t, NEW pts \in [Slot -> Point], NEW slots \in SUBSET Slot, NEW y \in Node(t),
         Shaped(t), BuiltHere(t, pts, y), Under(t, y) \subseteq slots
  PROVE  /\ y \in Inner(t) => SplitSound(t, pts, y)
         /\ y \in Leaf(t) => LeafSound(t, pts, slots, y)
<1>1. ASSUME y \in Inner(t)
      PROVE  SplitSound(t, pts, y)
  <2> DEFINE plane == t.planes[y]
             low == Under(t, Left(y))
             high == Under(t, Right(y))
  <2>1. y \notin Leaf(t)
    BY <1>1 DEF Shaped
  <2>2. high = Under(t, y) \ low /\ IsSplit(plane, pts, low, high)
    BY <2>1 DEF BuiltHere
  <2>3. low \subseteq Slot /\ high \subseteq Slot
    BY <1>1, Slots
  <2>4. \A i \in Slot, a \in Axis : pts[i][a] \in Int
    BY PlaneAssumption DEF Plane, Axis
  <2> HIDE DEF plane, low, high
  <2>5. PICK m \in high : plane.split_value = pts[m][plane.split_dim]
    BY <2>2 DEF IsSplit
  <2>6. plane.split_dim \in Axis /\ plane.split_value \in Int
    BY <2>2, <2>3, <2>4, <2>5 DEF IsSplit
  <2>7. \A i \in low : pts[i][plane.split_dim] <= plane.split_value
    BY <2>2, <2>5 DEF IsSplit
  <2>8. \A i \in high : plane.split_value <= pts[i][plane.split_dim]
    BY <2>2 DEF IsSplit
  <2>9. low \cap high = {}
    BY <2>2
  <2> QED
    BY <2>6, <2>7, <2>8, <2>9 DEF SplitSound, plane, low, high
<1>2. ASSUME y \in Leaf(t)
      PROVE  LeafSound(t, pts, slots, y)
  <2>1. y \notin Inner(t)
    BY <1>2 DEF Shaped
  <2>2. IsHull(t.boxes[y], pts, Under(t, y))
    BY <2>1 DEF BuiltHere
  <2>3. Under(t, y) = t.buckets[y]
    BY <1>2, Slots
  <2> QED
    BY <2>2, <2>3, HullSound DEF LeafSound
<1> QED
  BY <1>1, <1>2

\* So is a tree that is built from scratch.
LEMMA BuildAllSound ==
  ASSUME NEW t, NEW pts \in [Slot -> Point], NEW slots \in SUBSET Slot,
         Shaped(t), BuiltFrom(t, pts, <<>>, slots)
  PROVE  TreeSound(t, pts, slots)
<1>1. ASSUME NEW y \in Node(t)
      PROVE  BuiltHere(t, pts, y) /\ Under(t, y) \subseteq slots
  <2>1. y \in Path /\ <<>> \in Path /\ Above(<<>>, y)
    BY Slots, AboveSame DEF BuiltFrom
  <2> QED
    BY <2>1, Slots DEF BuiltFrom
<1>2. \A y \in Inner(t) : SplitSound(t, pts, y)
  BY <1>1, BuiltSound DEF Node
<1>3. \A x \in Leaf(t) : LeafSound(t, pts, slots, x)
  BY <1>1, BuiltSound DEF Node
<1>4. \A i \in slots : \E x \in Leaf(t) : i \in t.buckets[x]
  BY DEF BuiltFrom, Under
<1> QED
  BY <1>2, <1>3, <1>4 DEF TreeSound

(* The steps. *)

\* Rebuilding subtrees loses no slot, and moves none across the planes above them.
LEMMA RebuiltSound ==
  ASSUME NEW t, NEW u, NEW pts \in [Slot -> Point], NEW slots \in SUBSET Slot,
         NEW roots \in SUBSET Node(t), TreeSound(t, pts, slots), Rebuilt(t, u, pts, roots)
  PROVE  TreeSound(u, pts, slots) /\ (Node(u) # {} => Node(t) # {})
<1>1. Shaped(t) /\ Shaped(u)
  BY DEF TreeSound, Rebuilt
<1>2. \A y \in Node(t) \cup Node(u) : Same(t, u, y) \/ \E r \in roots : Above(r, y)
  BY DEF Rebuilt, Beneath
<1>3. Node(t) \subseteq Path /\ Node(u) \subseteq Path
  BY <1>1, Slots
<1>4. \A r \in roots : /\ r \in Path /\ r \in Node(t) /\ Under(u, r) = Under(t, r)
                       /\ \A y \in Node(u) : Above(r, y) => BuiltHere(u, pts, y)
  BY <1>3 DEF Rebuilt, BuiltFrom
<1>5. \A y \in Path : Under(t, y) \subseteq slots
  BY DEF TreeSound, LeafSound, Under
<1>6. ASSUME NEW y \in Node(u), NEW r \in roots, Above(r, y)
      PROVE  /\ y \in Inner(u) => SplitSound(u, pts, y)
             /\ y \in Leaf(u) => LeafSound(u, pts, slots, y)
  <2>1. y \in Path /\ r \in Path
    BY <1>3, <1>4
  <2>2. Under(u, y) \subseteq Under(u, r)
    BY <1>1, <1>6, <2>1, Slots
  <2>3. Under(u, y) \subseteq slots
    BY <1>4, <1>5, <2>1, <2>2
  <2>4. BuiltHere(u, pts, y)
    BY <1>4, <1>6
  <2> QED
    BY <1>1, <2>3, <2>4, BuiltSound
\* A child of a node that no rebuild touches is under no rebuilt node but itself.
<1>7. ASSUME NEW y \in Inner(u), ~ \E r \in roots : Above(r, y),
             NEW z \in {Left(y), Right(y)}
      PROVE  Under(u, z) \subseteq Under(t, z)
  <2>1. y \in Path /\ z \in Path
    BY <1>3, Children DEF Node
  <2> SUFFICES ASSUME NEW x \in Leaf(u), Above(z, x), NEW i \in u.buckets[x]
               PROVE  i \in Under(t, z)
    BY DEF Under
  <2>2. x \in Node(u) /\ x \in Path
    BY <1>3 DEF Node
  <2>3. CASE Same(t, u, x)
    <3>1. x \notin Inner(u)
      BY <1>1 DEF Shaped
    <3>2. x \in Leaf(t) /\ u.buckets[x] = t.buckets[x]
      BY <2>3, <3>1 DEF Same
    <3> QED
      BY <3>2 DEF Under
  <2>4. CASE \E r \in roots : Above(r, x)
    <3>1. PICK r \in roots : Above(r, x)
      BY <2>4
    <3>2. r \in Path
      BY <1>4
    <3>3. Above(z, r) \/ Above(r, z)
      BY <2>1, <2>2, <3>1, <3>2, AboveLinear
    <3>4. Above(r, z) => r = z
      BY <1>7, <2>1, <3>2, Children
    <3>5. Above(z, r)
      BY <2>1, <3>3, <3>4, AboveSame
    <3>6. i \in Under(u, r)
      BY <3>1 DEF Under
    <3>7. Under(u, r) = Under(t, r) /\ Under(t, r) \subseteq Under(t, z)
      BY <1>1, <1>4, <2>1, <3>2, <3>5, Slots
    <3> QED
      BY <3>6, <3>7
  <2> QED
    BY <1>2, <2>2, <2>3, <2>4
<1>8. ASSUME NEW y \in Inner(u)
      PROVE  SplitSound(u, pts, y)
  <2>1. y \in Node(u)
    BY DEF Node
  <2>2. CASE \E r \in roots : Above(r, y)
    BY <1>6, <2>1, <2>2
  <2>3. CASE ~ \E r \in roots : Above(r, y)
    <3>1. Same(t, u, y)
      BY <1>2, <2>1, <2>3
    <3>2. y \in Inner(t) /\ u.planes[y] = t.planes[y]
      BY <1>1, <3>1 DEF Same, Shaped
    <3>3. SplitSound(t, pts, y)
      BY <3>2 DEF TreeSound
    <3>4. /\ Under(u, Left(y)) \subseteq Under(t, Left(y))
          /\ Under(u, Right(y)) \subseteq Under(t, Right(y))
      BY <1>7, <2>3
    <3> QED
      BY <3>2, <3>3, <3>4 DEF SplitSound
  <2> QED
    BY <2>2, <2>3
<1>9. ASSUME NEW x \in Leaf(u)
      PROVE  LeafSound(u, pts, slots, x)
  <2>1. x \in Node(u) /\ x \notin Inner(u)
    BY <1>1 DEF Node, Shaped
  <2>2. CASE \E r \in roots : Above(r, x)
    BY <1>6, <2>1, <2>2
  <2>3. CASE Same(t, u, x)
    <3>1. x \in Leaf(t) /\ u.buckets[x] = t.buckets[x] /\ u.boxes[x] = t.boxes[x]
      BY <2>1, <2>3 DEF Same
    <3> QED
      BY <3>1 DEF TreeSound, LeafSound
  <2> QED
    BY <1>2, <2>1, <2>2, <2>3
<1>10. ASSUME NEW i \in slots
       PROVE  \E x \in Leaf(u) : i \in u.buckets[x]
  <2>1. PICK x \in Leaf(t) : i \in t.buckets[x]
    BY DEF TreeSound
  <2>2. x \in Node(t) /\ x \notin Inner(t) /\ x \in Path
    BY <1>1, <1>3, <2>1 DEF Node, Shaped
  <2>3. CASE Same(t, u, x)
    BY <2>1, <2>2, <2>3 DEF Same
  <2>4. CASE \E r \in roots : Above(r, x)
    <3>1. PICK r \in roots : Above(r, x)
      BY <2>4
    <3>2. i \in Under(t, r)
      BY <2>1, <3>1 DEF Under
    <3>3. i \in Under(u, r)
      BY <1>4, <3>2
    <3> QED
      BY <3>3 DEF Under
  <2> QED
    BY <1>2, <2>2, <2>3, <2>4
<1>11. ASSUME NEW y \in Node(u)
       PROVE  Node(t) # {}
  <2>1. Same(t, u, y) => y \in Node(t)
    BY DEF Same, Node
  <2> QED
    BY <1>2, <1>4, <2>1
<1> QED
  BY <1>1, <1>8, <1>9, <1>10, <1>11 DEF TreeSound

\* Dropping slots from the buckets changes nothing else.
LEMMA WithoutSound ==
  ASSUME NEW t, NEW gone, NEW pts, NEW slots, TreeSound(t, pts, slots)
  PROVE  /\ TreeSound(Without(t, gone), pts, slots \ gone)
         /\ Inner(Without(t, gone)) = Inner(t) /\ Leaf(Without(t, gone)) = Leaf(t)
         /\ Without(t, gone).planes = t.planes
<1> DEFINE w == Without(t, gone)
<1>1. /\ Inner(w) = Inner(t) /\ Leaf(w) = Leaf(t) /\ w.planes = t.planes
      /\ w.boxes = t.boxes /\ \A x \in Leaf(t) : w.buckets[x] = t.buckets[x] \ gone
  BY DEF Without, Inner, Leaf
<1> HIDE DEF w
<1>2. Node(w) = Node(t)
  BY <1>1 DEF Node
<1>3. Shaped(w)
  BY <1>1, <1>2 DEF TreeSound, Shaped
<1>4. \A y : Under(w, y) \subseteq Under(t, y)
  BY <1>1 DEF Under
<1>5. \A y \in Inner(w) : SplitSound(w, pts, y)
  BY <1>1, <1>4 DEF TreeSound, SplitSound
<1>6. \A x \in Leaf(w) : LeafSound(w, pts, slots \ gone, x)
  BY <1>1 DEF TreeSound, LeafSound
<1>7. \A i \in slots \ gone : \E x \in Leaf(w) : i \in w.buckets[x]
  BY <1>1 DEF TreeSound
<1>8. TreeSound(w, pts, slots \ gone)
  BY <1>3, <1>5, <1>6, <1>7 DEF TreeSound
<1> QED
  BY <1>1, <1>8 DEF w

\* Filing a point where its route ends keeps it on its side of the planes on the way,
\* also when it ties with them.
LEMMA FiledSound ==
  ASSUME NEW t, NEW pts \in [Slot -> Point], NEW slots \in SUBSET Slot,
         TreeSound(t, pts, slots),
         NEW i \in Slot, NEW p \in Point, NEW x \in Leaf(t), OnRoute(t, p, x)
  PROVE  /\ TreeSound(Filed(t, i, p, x), [pts EXCEPT ![i] = p], slots \cup {i})
         /\ Node(Filed(t, i, p, x)) = Node(t)
<1> DEFINE f == Filed(t, i, p, x)
           new == [pts EXCEPT ![i] = p]
<1>1. /\ Inner(f) = Inner(t) /\ Leaf(f) = Leaf(t) /\ f.planes = t.planes
      /\ DOMAIN f.boxes = Leaf(t)
      /\ f.buckets[x] = t.buckets[x] \cup {i} /\ f.boxes[x] = expand(t.boxes[x], p)
      /\ \A z \in Leaf(t) : z # x => /\ f.buckets[z] = t.buckets[z] \ {i}
                                     /\ f.boxes[z] = t.boxes[z]
  BY DEF Filed, Inner, Leaf
<1>2. new[i] = p /\ \A j \in Slot : j # i => new[j] = pts[j]
  OBVIOUS
<1>3. p \in Plane /\ \A j \in Slot : pts[j] \in Plane
  BY PlaneAssumption
<1>4. p[1] \in Int /\ p[2] \in Int
  BY <1>3 DEF Plane
<1> HIDE DEF f, new
<1>5. Node(f) = Node(t)
  BY <1>1 DEF Node
<1>6. Shaped(t) /\ Shaped(f)
  BY <1>1, <1>5 DEF TreeSound, Shaped
<1>7. \A y : Under(f, y) \subseteq Under(t, y) \cup {i} /\ (i \in Under(f, y) => Above(y, x))
  BY <1>1 DEF Under
<1>8. \A y \in Path : Under(t, y) \subseteq Slot
  BY DEF TreeSound, LeafSound, Under
<1>9. ASSUME NEW y \in Inner(f)
      PROVE  SplitSound(f, new, y)
  <2> DEFINE plane == t.planes[y]
  <2>1. y \in Inner(t) /\ y # x /\ f.planes[y] = plane
    BY <1>1, <1>6 DEF Shaped
  <2>2. SplitSound(t, pts, y)
    BY <2>1 DEF TreeSound
  <2>3. plane.split_dim \in Axis /\ plane.split_value \in Int
    BY <2>2 DEF SplitSound
  <2>4. y \in Path /\ x \in Path /\ Left(y) \in Path /\ Right(y) \in Path
    BY <1>6, <2>1, Slots, Children DEF Node
  <2>5. ~ (Above(Left(y), x) /\ Above(Right(y), x))
    BY <2>4, Children
  <2>6. /\ Above(Left(y), x) => p[plane.split_dim] <= plane.split_value
        /\ Above(Right(y), x) => plane.split_value <= p[plane.split_dim]
    <3>1. Above(Left(y), x) \/ Above(Right(y), x) => Above(y, x)
      BY <2>4, Children
    <3>2. Above(y, x) => (p[plane.split_dim] < plane.split_value <=> Above(Left(y), x))
      BY <2>1 DEF OnRoute, GoesLeft
    <3>3. p[plane.split_dim] \in Int
      BY <1>4, <2>3 DEF Axis
    <3> QED
      BY <2>3, <2>5, <3>1, <3>2, <3>3
  <2> HIDE DEF plane
  <2>7. Under(f, Left(y)) \cap Under(f, Right(y)) = {}
    BY <1>7, <2>2, <2>5 DEF SplitSound
  <2>8. ASSUME NEW j \in Under(f, Left(y))
        PROVE  new[j][plane.split_dim] <= plane.split_value
    <3>1. CASE j = i
      BY <1>2, <1>7, <2>6, <3>1
    <3>2. CASE j # i
      <4>1. j \in Under(t, Left(y)) /\ j \in Slot
        BY <1>7, <1>8, <2>4, <3>2
      <4> QED
        BY <1>2, <2>2, <3>2, <4>1 DEF SplitSound, plane
    <3> QED
      BY <3>1, <3>2
  <2>9. ASSUME NEW j \in Under(f, Right(y))
        PROVE  plane.split_value <= new[j][plane.split_dim]
    <3>1. CASE j = i
      BY <1>2, <1>7, <2>6, <3>1
    <3>2. CASE j # i
      <4>1. j \in Under(t, Right(y)) /\ j \in Slot
        BY <1>7, <1>8, <2>4, <3>2
      <4> QED
        BY <1>2, <2>2, <3>2, <4>1 DEF SplitSound, plane
    <3> QED
      BY <3>1, <3>2
  <2> QED
    BY <2>1, <2>3, <2>7, <2>8, <2>9 DEF SplitSound
<1>10. ASSUME NEW z \in Leaf(f)
       PROVE  LeafSound(f, new, slots \cup {i}, z)
  <2>1. z \in Leaf(t) /\ LeafSound(t, pts, slots, z)
    BY <1>1 DEF TreeSound
  <2>2. t.buckets[z] \subseteq slots /\ t.boxes[z] \in Cells
        /\ \A j \in t.buckets[z] : contains_point(t.boxes[z], pts[j])
    BY <2>1 DEF LeafSound
  <2>3. CASE z = x
    <3>1. expand(t.boxes[x], p) \in Cells /\ contains_point(expand(t.boxes[x], p), p)
      BY <1>3, <2>2, <2>3, ExpandCovers
    <3>2. ASSUME NEW j \in t.buckets[x]
          PROVE  contains_point(expand(t.boxes[x], p), pts[j])
      BY <1>3, <2>2, <2>3, ExpandCovers
    <3>3. ASSUME NEW j \in f.buckets[x]
          PROVE  contains_point(f.boxes[x], new[j])
      BY <1>1, <1>2, <2>2, <2>3, <3>1, <3>2
    <3> QED
      BY <1>1, <2>2, <2>3, <3>1, <3>3 DEF LeafSound
  <2>4. CASE z # x
    <3>1. f.buckets[z] = t.buckets[z] \ {i} /\ f.boxes[z] = t.boxes[z]
      BY <1>1, <2>1, <2>4
    <3>2. \A j \in t.buckets[z] \ {i} : new[j] = pts[j]
      BY <1>2, <2>2
    <3> QED
      BY <2>2, <3>1, <3>2 DEF LeafSound
  <2> QED
    BY <2>3, <2>4
<1>11. ASSUME NEW j \in slots \cup {i}
       PROVE  \E z \in Leaf(f) : j \in f.buckets[z]
  <2>1. CASE j = i
    BY <1>1, <2>1
  <2>2. CASE j # i
    <3>1. PICK z \in Leaf(t) : j \in t.buckets[z]
      BY <2>2 DEF TreeSound
    <3> QED
      BY <1>1, <2>2, <3>1
  <2> QED
    BY <2>1, <2>2
<1>12. TreeSound(f, new, slots \cup {i})
  BY <1>6, <1>9, <1>10, <1>11 DEF TreeSound
<1> QED
  BY <1>5, <1>12 DEF f, new

(* The invariant. *)

\* It holds of the tree that no call has been made on.
LEMMA InvInit ==
  ASSUME Init
  PROVE  SpatialInv
<1>1. Inner(tree) = {} /\ Leaf(tree) = {} /\ Node(tree) = {} /\ DOMAIN tree.boxes = {}
  BY DEF Init, NoTree, Inner, Leaf, Node
<1>2. TypeOK
  BY <1>1 DEF Init, TypeOK
<1> QED
  BY <1>1, <1>2 DEF Init, SpatialInv, Shaped, SharedOut, Separated, BoxesHold, Partitions,
                    RootHolds

\* The first point, and a rebuild of everything.
LEMMA InvBuild ==
  ASSUME points' \in [Slot -> Point], live' \subseteq Slot, live' # {},
         BuildAll, Partitions(cells', tree')
  PROVE  SpatialInv'
<1>1. TreeSound(tree', points', live')
  BY BuildAllSound DEF BuildAll
<1>2. RootSound(tree', cells', points', live')
  BY HullSound DEF BuildAll, RootSound, RootHolds
<1>3. /\ points' \in [Slot -> Point] /\ live' \subseteq Slot
      /\ TreeSound(tree', points', live') /\ RootSound(tree', cells', points', live')
  BY <1>1, <1>2
<1> QED
  BY <1>3, InvByNodeNext

\* Tombstones, of whichever slots.
LEMMA InvWithout ==
  ASSUME SpatialInv, NEW gone, UNCHANGED <<points, cells>>,
         live' = live \ gone, tree' = Without(tree, gone)
  PROVE  SpatialInv'
<1>1. /\ points \in [Slot -> Point] /\ live \subseteq Slot
      /\ TreeSound(tree, points, live) /\ RootSound(tree, cells, points, live)
  BY InvByNode
<1>2. /\ TreeSound(tree', points', live')
      /\ Inner(tree') = Inner(tree) /\ Leaf(tree') = Leaf(tree) /\ tree'.planes = tree.planes
  BY <1>1, WithoutSound
<1>3. RootSound(tree', cells', points', live')
  BY <1>1, <1>2 DEF RootSound, Partitions, RootHolds, Node
<1>4. points' \in [Slot -> Point] /\ live' \subseteq Slot
  BY <1>1
<1> QED
  BY <1>2, <1>3, <1>4, InvByNodeNext

\* An insertion keeps it: the leaf stays sound when filed to, and when rebuilt at once.
LEMMA InvInsertPoint ==
  ASSUME SpatialInv, NEW i \in Slot, NEW p \in Point, NEW x \in Leaf(tree),
         NEW roots \in SUBSET {x}, InsertPoint(i, p, x, roots)
  PROVE  SpatialInv'
<1>1. /\ points \in [Slot -> Point] /\ live \subseteq Slot
      /\ TreeSound(tree, points, live) /\ RootSound(tree, cells, points, live)
  BY InvByNode
<1>2. /\ points' = [points EXCEPT ![i] = p] /\ live' = live \cup {i}
      /\ points' \in [Slot -> Point] /\ live' \subseteq Slot
  BY <1>1 DEF InsertPoint, Acquire
<1>3. OnRoute(tree, p, x) /\ Rebuilt(Filed(tree, i, p, x), tree', points', roots)
  BY DEF InsertPoint
<1> DEFINE f == Filed(tree, i, p, x)
<1>4. TreeSound(f, points', live') /\ Node(f) = Node(tree)
  BY <1>1, <1>2, <1>3, FiledSound
<1>5. roots \in SUBSET Node(f) /\ Node(tree) # {}
  BY <1>4 DEF Node
<1> HIDE DEF f
<1>6. TreeSound(tree', points', live')
  <2>1. Rebuilt(f, tree', points', roots)
    BY <1>3 DEF f
  <2> QED
    BY <1>2, <1>4, <1>5, <2>1, RebuiltSound
<1>7. RootSound(tree', cells', points', live')
  <2>1. cells[<<>>] \in Cells /\ \A j \in live : contains_point(cells[<<>>], points[j])
    BY <1>1, <1>5 DEF RootSound, RootHolds
  <2>2. cells'[<<>>] = expand(cells[<<>>], p) /\ Partitions(cells', tree')
    BY DEF InsertPoint
  <2>3. p \in Plane /\ \A j \in live : points[j] \in Plane
    BY <1>1, PlaneAssumption
  <2>4. cells'[<<>>] \in Cells /\ contains_point(cells'[<<>>], p)
    BY <2>1, <2>2, <2>3, ExpandCovers
  <2>5. \A j \in live : contains_point(cells'[<<>>], points[j])
    BY <2>1, <2>2, <2>3, ExpandCovers
  <2>6. ASSUME NEW j \in live'
        PROVE  contains_point(cells'[<<>>], points'[j])
    <3>1. CASE j = i
      BY <1>1, <1>2, <2>4, <3>1
    <3>2. CASE j # i
      <4>1. j \in live /\ points'[j] = points[j]
        BY <1>1, <1>2, <3>2
      <4> QED
        BY <2>5, <4>1
    <3> QED
      BY <3>1, <3>2
  <2> QED
    BY <2>2, <2>4, <2>6 DEF RootSound, RootHolds
<1> QED
  BY <1>2, <1>6, <1>7, InvByNodeNext

\* The rebuilds at the end of a call keep it, whichever subtrees they choose.
LEMMA InvSweep ==
  ASSUME SpatialInv, NEW roots \in SUBSET Node(tree), Sweep(roots)
  PROVE  SpatialInv'
<1>1. /\ points \in [Slot -> Point] /\ live \subseteq Slot
      /\ TreeSound(tree, points, live) /\ RootSound(tree, cells, points, live)
  BY InvByNode
<1>2. /\ points' = points /\ live' = live
      /\ Rebuilt(tree, tree', points, roots)
      /\ Partitions(cells', tree') /\ cells'[<<>>] = cells[<<>>]
  BY DEF Sweep
<1>3. TreeSound(tree', points, live) /\ (Node(tree') # {} => Node(tree) # {})
  BY <1>1, <1>2, RebuiltSound
<1>4. /\ points' \in [Slot -> Point] /\ live' \subseteq Slot
      /\ TreeSound(tree', points', live') /\ RootSound(tree', cells', points', live')
  BY <1>1, <1>2, <1>3 DEF RootSound, RootHolds
<1> QED
  BY <1>4, InvByNodeNext

\* A rebuild of the whole tree keeps it, with points or without.
LEMMA InvRebuildAll ==
  ASSUME SpatialInv, RebuildAll
  PROVE  SpatialInv'
<1>1. points \in [Slot -> Point] /\ live \subseteq Slot /\ points' = points /\ live' = live
  BY InvByNode DEF RebuildAll
<1>2. CASE live = {}
  <2>1. tree' = NoTree /\ cells' = <<>>
    BY <1>2 DEF RebuildAll
  <2>2. Inner(tree') = {} /\ Leaf(tree') = {} /\ Node(tree') = {} /\ DOMAIN tree'.boxes = {}
    BY <2>1 DEF NoTree, Inner, Leaf, Node
  <2>3. /\ points' \in [Slot -> Point] /\ live' \subseteq Slot
        /\ TreeSound(tree', points', live') /\ RootSound(tree', cells', points', live')
    BY <1>1, <1>2, <2>1, <2>2 DEF TreeSound, Shaped, RootSound, Partitions, RootHolds
  <2> QED
    BY <2>3, InvByNodeNext
<1>3. CASE live # {}
  BY <1>1, <1>3, InvBuild DEF RebuildAll
<1> QED
  BY <1>2, <1>3

\* Every call keeps it.
LEMMA InvNext ==
  ASSUME SpatialInv, [Next]_vars
  PROVE  SpatialInv'
<1>1. ASSUME NEW gone, Remove(gone)
      PROVE  SpatialInv'
  BY <1>1, InvWithout DEF Remove
<1>2. ASSUME NEW g, DeleteRegion(g)
      PROVE  SpatialInv'
  BY <1>2, InvWithout DEF DeleteRegion
<1>3. ASSUME NEW i \in Slot, NEW p \in Point, InsertFirst(i, p)
      PROVE  SpatialInv'
  <2>1. /\ points' \in [Slot -> Point] /\ live' \subseteq Slot /\ live' # {}
        /\ BuildAll /\ Partitions(cells', tree')
    BY <1>3, InvByNode DEF InsertFirst, Acquire
  <2> QED
    BY <2>1, InvBuild
<1>4. CASE UNCHANGED vars
  BY <1>4 DEF vars, SpatialInv, TypeOK, RootHolds
<1> QED
  BY <1>1, <1>2, <1>3, <1>4, InvInsertPoint, InvSweep, InvRebuildAll DEF Next

\* On a tree of any size, after any sequence of calls: every live point is in one bucket,
\* on the right side of every split plane above it, wherever ties fell, and in the boxes
\* that stand for it.
THEOREM SpatialCorrect == Spec => []SpatialInv
<1>1. Init => SpatialInv
  BY InvInit
<1>2. SpatialInv /\ [Next]_vars => SpatialInv'
  BY InvNext
<1> QED
  BY <1>1, <1>2, PTL DEF Spec

(* Spatial deletes. *)

\* The partition that a delete hands a node covers all points under it.
LEMMA CellsHold ==
  ASSUME NEW t, NEW c, NEW pts \in [Slot -> Point], NEW slots \in SUBSET Slot,
         TreeSound(t, pts, slots), RootSound(t, c, pts, slots)
  PROVE  \A y \in Node(t) : c[y] \in Cells /\ \A i \in Under(t, y) : contains_point(c[y], pts[i])
<1> DEFINE Covers(y) == c[y] \in Cells /\ \A i \in Under(t, y) : contains_point(c[y], pts[i])
           bad == {y \in Node(t) : ~ Covers(y)}
<1>1. Shaped(t) /\ Node(t) \subseteq Path
  BY Slots DEF TreeSound
<1>2. \A y : Under(t, y) \subseteq slots
  BY DEF TreeSound, LeafSound, Under
<1>3. ASSUME NEW x \in bad, \A y \in bad : Len(x) <= Len(y)
      PROVE  FALSE
  <2>1. CASE x = <<>>
    BY <1>2, <2>1 DEF RootSound, RootHolds
  <2>2. CASE x # <<>>
    <3>1. PICK y \in Inner(t) : x = Left(y) \/ x = Right(y)
      BY <1>1, <2>2, Parent
    <3>2. y \in Node(t) /\ y \in Path /\ Len(y) < Len(x) /\ Len(y) \in Nat /\ Len(x) \in Nat
      BY <1>1, <3>1, Children, LenProperties DEF Node, Path
    <3>3. Covers(y)
      BY <1>3, <3>2
    <3> DEFINE plane == t.planes[y]
    <3>4. SplitSound(t, pts, y)
      BY DEF TreeSound
    <3>5. plane.split_dim \in Axis /\ plane.split_value \in Int
      BY <3>4 DEF SplitSound
    <3>6. /\ c[Left(y)] = LeftCell(c[y], plane.split_dim, plane.split_value)
          /\ c[Right(y)] = RightCell(c[y], plane.split_dim, plane.split_value)
      BY DEF RootSound, Partitions
    <3>7. Under(t, Left(y)) \subseteq Under(t, y) /\ Under(t, Right(y)) \subseteq Under(t, y)
      BY <1>1, Slots
    <3>8. \A i \in Under(t, y) : pts[i] \in Plane
      BY <1>2, PlaneAssumption
    <3>9. c[x] \in Cells
      BY <3>1, <3>3, <3>5, <3>6, CellsType
    <3>10. ASSUME NEW i \in Under(t, x)
           PROVE  contains_point(c[x], pts[i])
      <4>1. i \in Under(t, y) /\ pts[i] \in Plane /\ contains_point(c[y], pts[i])
        BY <3>1, <3>3, <3>7, <3>8
      <4>2. CASE x = Left(y)
        <5>1. pts[i][plane.split_dim] <= plane.split_value
          BY <3>4, <4>2 DEF SplitSound
        <5> QED
          BY <3>3, <3>5, <3>6, <4>1, <4>2, <5>1, CellsCover
      <4>3. CASE x = Right(y)
        <5>1. plane.split_value <= pts[i][plane.split_dim]
          BY <3>4, <4>3 DEF SplitSound
        <5> QED
          BY <3>3, <3>5, <3>6, <4>1, <4>3, <5>1, CellsCover
      <4> QED
        BY <3>1, <4>2, <4>3
    <3> QED
      BY <3>9, <3>10
  <2> QED
    BY <2>1, <2>2
<1>4. bad = {}
  <2>1. bad \subseteq Path
    BY <1>1
  <2> HIDE DEF bad
  <2> QED
    BY <1>3, <2>1, Shortest
<1> QED
  BY <1>4

\* A box that is missed or swallowed is judged as all of its points are.
LEMMA JudgedByBox ==
  ASSUME NEW g \in Deletes, NEW b \in Cells, NEW p \in Plane, contains_point(b, p)
  PROVE  /\ Misses(g, b) => ~ Hits(g, p)
         /\ Swallows(g, b) => Hits(g, p)
<1>1. CASE \E box \in Boxes : g = BoxRegion(box)
  <2>1. PICK box \in Boxes : g = BoxRegion(box)
    BY <1>1
  <2>2. g.kind = "box" /\ g.box = box /\ box \in Cells
    BY <2>1, RegionAssumption DEF BoxRegion
  <2>3. \A a \in Axis : /\ b.min_corner[a] \in Int /\ b.max_corner[a] \in Int
                        /\ box.min_corner[a] \in Int /\ box.max_corner[a] \in Int
                        /\ p[a] \in Int /\ b.min_corner[a] <= p[a] /\ p[a] <= b.max_corner[a]
    BY <2>2 DEF Cells, Plane, Axis, contains_point
  <2>4. disjoint(box, b) => ~ contains_point(box, p)
    BY <2>3 DEF disjoint, contains_point
  <2>5. contains_box(box, b) => contains_point(box, p)
    BY <2>3 DEF contains_box, contains_point
  <2> QED
    BY <2>2, <2>4, <2>5 DEF Misses, Swallows, Hits
<1>2. CASE \E ball \in Balls : g = OutsideBall(ball.center, ball.sq_radius)
  <2>1. PICK ball \in Balls : g = OutsideBall(ball.center, ball.sq_radius)
    BY <1>2
  <2>2. /\ g.kind = "outside ball" /\ g.center = ball.center /\ g.sq_radius = ball.sq_radius
        /\ ball.center \in Plane /\ ball.sq_radius \in Int
    BY <2>1, RegionAssumption DEF OutsideBall
  <2> DEFINE q == ball.center
             r == ball.sq_radius
  <2>3. q \in Plane /\ r \in Int /\ g.center = q /\ g.sq_radius = r
    BY <2>2
  <2> HIDE DEF q, r
  <2>4. min_sq_dist(b, q) <= sq_dist(p, q) /\ sq_dist(p, q) <= max_sq_dist(b, q)
    BY <2>3, BoxDistances
  <2>5. min_sq_dist(b, q) \in Int /\ max_sq_dist(b, q) \in Int
    BY <2>3, BoxDistancesInt
  <2>6. sq_dist(p, q) \in Int
    BY <2>3, SqDistType
  <2>7. /\ max_sq_dist(b, q) <= r => ~ (sq_dist(p, q) > r)
        /\ min_sq_dist(b, q) > r => sq_dist(p, q) > r
    BY <2>3, <2>4, <2>5, <2>6
  <2> QED
    BY <2>2, <2>3, <2>7 DEF Misses, Swallows, Hits
<1> QED
  BY <1>1, <1>2 DEF Deletes

\* Nothing is released that lies outside the region, whole subtrees included.
LEMMA GoneHit ==
  ASSUME SpatialInv, NEW g \in Deletes, NEW i \in Gone(tree, cells, points, g)
  PROVE  i \in live /\ Hits(g, points[i])
<1>1. /\ points \in [Slot -> Point] /\ live \subseteq Slot
      /\ TreeSound(tree, points, live) /\ RootSound(tree, cells, points, live)
  BY InvByNode
<1>2. PICK y \in Node(tree) : i \in Releases(tree, cells, points, g, y)
  BY DEF Gone
<1>3. \A j \in live : points[j] \in Plane
  BY <1>1, PlaneAssumption
<1>4. CASE Swallows(g, cells[y]) /\ i \in Under(tree, y)
  <2>1. i \in live
    BY <1>1, <1>4 DEF TreeSound, LeafSound, Under
  <2>2. cells[y] \in Cells /\ contains_point(cells[y], points[i])
    BY <1>1, <1>4, CellsHold
  <2> QED
    BY <1>3, <1>4, <2>1, <2>2, JudgedByBox
<1>5. CASE y \in Leaf(tree) /\ i \in ScanReleases(tree, points, g, y)
  <2>1. LeafSound(tree, points, live, y)
    BY <1>1, <1>5 DEF TreeSound
  <2>2. i \in tree.buckets[y] /\ (Swallows(g, tree.boxes[y]) \/ Hits(g, points[i]))
    BY <1>5 DEF ScanReleases
  <2>3. i \in live /\ tree.boxes[y] \in Cells /\ contains_point(tree.boxes[y], points[i])
    BY <2>1, <2>2 DEF LeafSound
  <2> QED
    BY <1>3, <2>2, <2>3, JudgedByBox
<1> QED
  BY <1>2, <1>4, <1>5 DEF Releases

\* And nothing in the region is left: the call that reaches its leaf meets it, or one
\* higher up has swallowed it.
LEMMA HitGone ==
  ASSUME SpatialInv, NEW g \in Deletes, NEW i \in live, Hits(g, points[i])
  PROVE  i \in Gone(tree, cells, points, g)
<1>1. /\ points \in [Slot -> Point] /\ live \subseteq Slot
      /\ TreeSound(tree, points, live) /\ RootSound(tree, cells, points, live)
  BY InvByNode
<1>2. Shaped(tree) /\ Node(tree) \subseteq Path /\ points[i] \in Plane
  BY <1>1, Slots, PlaneAssumption DEF TreeSound
<1>3. PICK x \in Leaf(tree) : i \in tree.buckets[x]
  BY <1>1 DEF TreeSound
<1>4. x \in Node(tree) /\ x \in Path /\ Above(x, x)
  BY <1>2, AboveSame DEF Node
<1>5. ASSUME NEW y \in Node(tree), Above(y, x)
      PROVE  i \in Under(tree, y) /\ ~ Misses(g, cells[y])
  <2>1. i \in Under(tree, y)
    BY <1>3, <1>5 DEF Under
  <2>2. cells[y] \in Cells /\ contains_point(cells[y], points[i])
    BY <1>1, <2>1, CellsHold
  <2> QED
    BY <1>2, <2>1, <2>2, JudgedByBox
<1> DEFINE swallowed == {y \in Node(tree) : Above(y, x) /\ Swallows(g, cells[y])}
<1>6. CASE swallowed # {}
  <2>1. swallowed \subseteq Path
    BY <1>2
  <2>2. PICK y \in swallowed : \A z \in swallowed : Len(y) <= Len(z)
    <3> HIDE DEF swallowed
    <3> QED
      BY <1>6, <2>1, Shortest
  <2>3. y \in Node(tree) /\ y \in Path /\ Above(y, x) /\ Swallows(g, cells[y])
    BY <1>2
  <2>4. ASSUME NEW z \in Node(tree), Above(z, y), z # y
        PROVE  ~ Misses(g, cells[z]) /\ ~ Swallows(g, cells[z])
    <3>1. z \in Path /\ Above(z, x)
      BY <1>2, <1>4, <2>3, <2>4, AboveTrans
    <3>2. Len(z) < Len(y) /\ Len(z) \in Nat /\ Len(y) \in Nat
      BY <2>3, <2>4, <3>1, AboveShorter, LenProperties DEF Path
    <3>3. z \notin swallowed
      BY <2>2, <3>2
    <3> QED
      BY <1>5, <3>1, <3>3
  <2>5. Entered(tree, cells, g, y)
    BY <2>4 DEF Entered
  <2>6. i \in Releases(tree, cells, points, g, y)
    BY <1>5, <2>3 DEF Releases
  <2> QED
    BY <2>3, <2>5, <2>6 DEF Gone
<1>7. CASE swallowed = {}
  <2>1. \A z \in Node(tree) : Above(z, x) => ~ Misses(g, cells[z]) /\ ~ Swallows(g, cells[z])
    BY <1>5, <1>7
  <2>2. Entered(tree, cells, g, x)
    BY <2>1 DEF Entered
  <2>3. LeafSound(tree, points, live, x)
    BY <1>1 DEF TreeSound
  <2>4. ~ Misses(g, tree.boxes[x])
    BY <1>2, <1>3, <2>3, JudgedByBox DEF LeafSound
  <2>5. i \in ScanReleases(tree, points, g, x)
    BY <1>3, <2>4 DEF ScanReleases
  <2>6. i \in Releases(tree, cells, points, g, x)
    BY <1>4, <2>1, <2>5 DEF Releases
  <2> QED
    BY <1>4, <2>2, <2>6 DEF Gone
<1> QED
  BY <1>6, <1>7

\* box_delete() and radius_crop(), called at any time on a tree of any size, release the
\* live points in their region and no others.
THEOREM DeletesCorrect == Spec => []DeletesExact
<1>1. SpatialInv => DeletesExact
  <2> SUFFICES ASSUME SpatialInv, NEW g \in Deletes
               PROVE  Gone(tree, cells, points, g) = {i \in live : Hits(g, points[i])}
    BY DEF DeletesExact
  <2> QED
    BY GoneHit, HitGone
<1> QED
  BY <1>1, SpatialCorrect, PTL

(* Searches. *)

\* INVALID, as a root: no node has this name.
NoRoot == <<"none">>

\* The tree as a search meets it: the buckets hold entries, leftovers among them.
SearchedTree(s, buckets, no_root) ==
  [ store |-> s,
    root  |-> IF Node(tree) = {} THEN no_root ELSE <<>>,
    nodes |-> [y \in Node(tree) |->
                 IF y \in Leaf(tree) THEN [is_leaf |-> TRUE, bucket |-> buckets[y]]
                 ELSE [ is_leaf     |-> FALSE,
                        split_dim   |-> tree.planes[y].split_dim,
                        split_value |-> tree.planes[y].split_value,
                        left        |-> Left(y),
                        right       |-> Right(y) ]],
    below |-> [y \in Node(tree) |-> Under(tree, y)] ]

\* Whatever leftovers its buckets hold, the tree is one that the searches are exact on.
AlwaysSearchable ==
  \A s \in Store : \A buckets \in [Leaf(tree) -> SUBSET [index : Slot, gen : 0 .. (GenMod - 1)]] :
    /\ s.points = points /\ LiveSlots(s) = live
    /\ \A x \in Leaf(tree) : ValidSlots(s, buckets[x]) = tree.buckets[x]
    => Searchable(SearchedTree(s, buckets, NoRoot), NoRoot)

\* What the searches assume of a tree holds of every tree that any calls leave, so what
\* SearchSteps shows of its trees is true of them.
THEOREM SearchableCorrect == Spec => []AlwaysSearchable
<1>1. ASSUME SpatialInv
      PROVE  AlwaysSearchable
  <2> SUFFICES ASSUME NEW s \in Store,
                      NEW buckets \in [Leaf(tree) ->
                                         SUBSET [index : Slot, gen : 0 .. (GenMod - 1)]],
                      s.points = points, LiveSlots(s) = live,
                      \A x \in Leaf(tree) : ValidSlots(s, buckets[x]) = tree.buckets[x]
               PROVE  Searchable(SearchedTree(s, buckets, NoRoot), NoRoot)
    BY DEF AlwaysSearchable
  <2> DEFINE t == SearchedTree(s, buckets, NoRoot)
  <2>1. TreeSound(tree, points, live)
    BY <1>1, InvByNode
  <2>2. Shaped(tree) /\ Node(tree) \subseteq Path
    BY <2>1, Slots DEF TreeSound
  <2>3. /\ t.store = s /\ DOMAIN t.nodes = Node(tree) /\ DOMAIN t.below = Node(tree)
        /\ \A y \in Node(tree) : t.below[y] = Under(tree, y)
        /\ t.root = IF Node(tree) = {} THEN NoRoot ELSE <<>>
    BY DEF SearchedTree
  <2>4. \A x \in Leaf(tree) : t.nodes[x] = [is_leaf |-> TRUE, bucket |-> buckets[x]]
    BY DEF SearchedTree, Node
  <2>5. \A y \in Inner(tree) :
          t.nodes[y] = [ is_leaf     |-> FALSE,
                         split_dim   |-> tree.planes[y].split_dim,
                         split_value |-> tree.planes[y].split_value,
                         left        |-> Left(y),
                         right       |-> Right(y) ]
    BY <2>2 DEF SearchedTree, Node, Shaped
  <2>6. t.below = [y \in Node(tree) |-> Under(tree, y)]
    BY DEF SearchedTree
  <2> HIDE DEF t
  <2>7. \A y : Under(tree, y) \subseteq live
    BY <2>1 DEF TreeSound, LeafSound, Under
  <2>8. t.below \in [DOMAIN t.nodes -> SUBSET live]
    BY <2>3, <2>6, <2>7
  <2>9. IF t.root = NoRoot THEN live = {}
        ELSE t.root \in DOMAIN t.nodes /\ t.below[t.root] = live
    <3>1. CASE Node(tree) = {}
      BY <2>1, <2>3, <3>1 DEF TreeSound, Node
    <3>2. CASE Node(tree) # {}
      <4>1. <<>> \in Node(tree)
        BY <2>2, <3>2 DEF Shaped
      <4>2. live \subseteq Under(tree, <<>>)
        <5> SUFFICES ASSUME NEW i \in live
                     PROVE  i \in Under(tree, <<>>)
          OBVIOUS
        <5>1. PICK x \in Leaf(tree) : i \in tree.buckets[x]
          BY <2>1 DEF TreeSound
        <5>2. Above(<<>>, x)
          BY <2>2, AboveSame DEF Node
        <5> QED
          BY <5>1, <5>2 DEF Under
      <4>3. t.root = <<>> /\ t.below[<<>>] = Under(tree, <<>>)
        BY <2>3, <3>2, <4>1
      <4>4. <<>> # NoRoot
        BY DEF NoRoot
      <4>5. Under(tree, <<>>) = live
        BY <2>7, <4>2
      <4>6. <<>> \in DOMAIN t.nodes
        BY <2>3, <4>1
      <4> QED
        BY <4>3, <4>4, <4>5, <4>6
    <3> QED
      BY <3>1, <3>2
  <2>10. ASSUME NEW x \in Leaf(tree)
         PROVE  t.nodes[x].is_leaf = TRUE /\ LeafCollects(t, x)
    <3>1. x \in Node(tree) /\ Under(tree, x) = tree.buckets[x]
      BY <2>2, Slots DEF Node
    <3>2. t.nodes[x] = [is_leaf |-> TRUE, bucket |-> buckets[x]]
      BY <2>4
    <3>3. t.nodes[x].is_leaf = TRUE /\ t.nodes[x].bucket = buckets[x]
      BY <3>2
    <3>4. buckets[x] \subseteq [index : Slot, gen : 0 .. (GenMod - 1)]
      OBVIOUS
    <3>5. ValidSlots(s, buckets[x]) = t.below[x]
      BY <2>3, <3>1
    <3> QED
      BY <2>3, <3>3, <3>4, <3>5 DEF LeafCollects
  <2>11. ASSUME NEW y \in Inner(tree)
         PROVE  t.nodes[y].is_leaf = FALSE /\ SplitSeparates(t, y)
    <3>1. y \in Node(tree) /\ Left(y) \in Node(tree) /\ Right(y) \in Node(tree)
      BY <2>2 DEF Node, Shaped
    <3>2. Under(tree, y) = Under(tree, Left(y)) \cup Under(tree, Right(y))
      BY <2>2, Slots
    <3>3. SplitSound(tree, points, y)
      BY <2>1 DEF TreeSound
    <3>4. /\ t.nodes[y].is_leaf = FALSE
          /\ t.nodes[y].left = Left(y) /\ t.nodes[y].right = Right(y)
          /\ t.nodes[y].split_dim = tree.planes[y].split_dim
          /\ t.nodes[y].split_value = tree.planes[y].split_value
      <4> DEFINE record == [ is_leaf     |-> FALSE,
                             split_dim   |-> tree.planes[y].split_dim,
                             split_value |-> tree.planes[y].split_value,
                             left        |-> Left(y),
                             right       |-> Right(y) ]
      <4>1. t.nodes[y] = record
        BY <2>5
      <4>2. /\ record.is_leaf = FALSE
            /\ record.left = Left(y) /\ record.right = Right(y)
            /\ record.split_dim = tree.planes[y].split_dim
            /\ record.split_value = tree.planes[y].split_value
        OBVIOUS
      <4> HIDE DEF record
      <4> QED
        BY <4>1, <4>2
    <3> QED
      BY <2>3, <3>1, <3>2, <3>3, <3>4 DEF SplitSound, SplitSeparates
  <2>12. t.store \in Store
    BY <2>3
  <2>13. ASSUME NEW x \in DOMAIN t.nodes
         PROVE  /\ t.nodes[x].is_leaf \in BOOLEAN
                /\ IF t.nodes[x].is_leaf THEN LeafCollects(t, x) ELSE SplitSeparates(t, x)
    <3>1. CASE x \in Leaf(tree)
      BY <2>10, <3>1
    <3>2. CASE x \in Inner(tree)
      BY <2>11, <3>2
    <3> QED
      BY <2>3, <3>1, <3>2 DEF Node
  <2> QED
    BY <2>3, <2>8, <2>9, <2>12, <2>13 DEF Searchable, t
<1> QED
  BY <1>1, SpatialCorrect, PTL

=============================================================================
