-------------------------- MODULE TreeCallsProofs ---------------------------
(***************************************************************************)
(* Whatever calls are made, with batches of any length on a tree of any    *)
(* size: they do to the set of points what PointSet says, and to stamps    *)
(* and entries what StampedEntries allows; the bookkeeping they leave is   *)
(* what the next call relies on.                                           *)
(***************************************************************************)
EXTENDS TreeCalls, SpatialTreeProofs, FiniteSetTheorems

\* Twice the leaf size fits the field of a bucket's capacity.  The constructor does not
\* ask for it: where it does not hold, buckets are too small for what they are built with,
\* push() refuses entries, and nothing that rests on entries can be claimed of the tree.
BucketFits == 2 * leaf_bucket_size < BucketMod

(* The steps, by what they do to the tree. *)

\* A call begins, or an element or a return changes nothing.
Idle == UNCHANGED <<vars, stamp, filled, total>>

\* Slots are tombstoned and released.
Cleared(gone) ==
  /\ live' = live \ gone
  /\ tree' = Without(tree, gone)
  /\ UNCHANGED <<points, cells, stamp, filled, total>>

\* A partial rebuild at some nodes.
Swept(roots) == Sweep(roots) /\ Rewritten(filled, total, roots) /\ UNCHANGED stamp

\* Of the nodes, it rebuilds the topmost of some inner ones.
LEMMA SweepOverSwept ==
  ASSUME NEW reached \in SUBSET Inner(tree), SweepOver(reached), UNCHANGED stamp
  PROVE  \E violators \in SUBSET Inner(tree) :
           /\ \A y \in reached : Unbalanced(y) => y \in violators
           /\ Swept(Topmost(violators))
BY DEF SweepOver, Swept

\* The regions of deletes are those SpatialTree speaks of.
LEMMA DeleteRegions ==
  /\ \A b \in Boxes : BoxRegion(b) \in Deletes
  /\ \A b \in Balls : OutsideBall(b.center, b.sq_radius) \in Deletes
BY DEF Deletes

\* What clears slots is of the second kind.
LEMMA ClearKinds ==
  /\ \A op, g : Delete(op, g) => Cleared(Gone(tree, cells, points, g))
  /\ \A q : RemoveQuery(q) => Cleared(Near(q))
BY DEF Delete, DeleteRegion, RemoveQuery, Remove, Cleared

\* Every step is an insertion, a rebuild of everything, or of one of the kinds.
LEMMA Kinds ==
  ASSUME [CallsNext]_callvars
  PROVE  \/ Idle
         \/ \E i \in Slot, p \in Point :
              InsertIntoNone(i, p) \/ \E x \in Leaf(tree) : InsertInto(i, p, x)
         \/ \E q \in Point : RemoveQuery(q)
         \/ \E op \in {"box_delete", "radius_crop"}, g \in Deletes : Delete(op, g)
         \/ \E violators \in SUBSET Inner(tree) : Swept(Topmost(violators))
         \/ RebuildCall
<1>1. ASSUME NEW op, Begin(op)
      PROVE  Idle
  BY <1>1 DEF Begin, Idle
<1>2. ASSUME NEW p, InsertDuplicate(p)
      PROVE  Idle
  BY <1>2 DEF InsertDuplicate, Idle
<1>3. ASSUME InsertReturn
      PROVE  Idle \/ \E violators \in SUBSET Inner(tree) : Swept(Topmost(violators))
  <2>1. CASE UNCHANGED <<vars, filled, total>>
    BY <1>3, <2>1 DEF InsertReturn, Idle
  <2>2. CASE SweepOver(Inner(tree))
    BY <1>3, <2>2, SweepOverSwept DEF InsertReturn
  <2> QED
    BY <1>3, <2>1, <2>2 DEF InsertReturn
<1>4. ASSUME NEW op, DeleteReturn(op)
      PROVE  Idle \/ \E violators \in SUBSET Inner(tree) : Swept(Topmost(violators))
  <2>1. CASE UNCHANGED <<vars, filled, total>>
    BY <1>4, <2>1 DEF DeleteReturn, Idle
  <2>2. CASE \E reached \in {Inner(tree), Reached} : SweepOver(reached)
    <3>1. Reached \subseteq Inner(tree) /\ UNCHANGED stamp
      BY <1>4 DEF Reached, DeleteReturn
    <3> QED
      BY <2>2, <3>1, SweepOverSwept
  <2> QED
    BY <1>4, <2>1, <2>2 DEF DeleteReturn
<1>5. ASSUME NEW b \in Boxes, BoxDelete(b)
      PROVE  \E op \in {"box_delete", "radius_crop"}, g \in Deletes : Delete(op, g)
  BY <1>5, DeleteRegions DEF BoxDelete
<1>6. ASSUME NEW b \in Balls, RadiusCrop(b)
      PROVE  \E op \in {"box_delete", "radius_crop"}, g \in Deletes : Delete(op, g)
  BY <1>6, DeleteRegions DEF RadiusCrop
<1>7. ASSUME UNCHANGED callvars
      PROVE  Idle
  BY <1>7 DEF callvars, Idle
<1>8. ASSUME RemoveReturn \/ BoxDeleteReturn \/ RadiusCropReturn
      PROVE  Idle \/ \E violators \in SUBSET Inner(tree) : Swept(Topmost(violators))
  BY <1>4, <1>8 DEF RemoveReturn, BoxDeleteReturn, RadiusCropReturn
<1> QED
  BY <1>1, <1>2, <1>3, <1>5, <1>6, <1>7, <1>8 DEF CallsNext

(* The partition. *)

\* Every step is one of SpatialTree's.
LEMMA CallsStep ==
  ASSUME [CallsNext]_callvars
  PROVE  [Next]_vars
<1>1. ASSUME Idle
      PROVE  UNCHANGED vars
  BY <1>1 DEF Idle
<1>2. ASSUME NEW i \in Slot, NEW p \in Point, InsertIntoNone(i, p)
      PROVE  Next
  BY <1>2 DEF InsertIntoNone, Next
<1>3. ASSUME NEW i \in Slot, NEW p \in Point, NEW x \in Leaf(tree), InsertInto(i, p, x)
      PROVE  Next
  <2>1. \E roots \in SUBSET {x} : InsertPoint(i, p, x, roots)
    BY <1>3 DEF InsertInto
  <2> QED
    BY <2>1 DEF Next
<1>4. ASSUME NEW q \in Point, RemoveQuery(q)
      PROVE  Next
  <2>1. Near(q) \in SUBSET live /\ Remove(Near(q))
    BY <1>4 DEF RemoveQuery, Near
  <2> QED
    BY <2>1 DEF Next
<1>5. ASSUME NEW op, NEW g \in Deletes, Delete(op, g)
      PROVE  Next
  BY <1>5 DEF Delete, Next
<1>6. ASSUME NEW violators \in SUBSET Inner(tree), Swept(Topmost(violators))
      PROVE  Next
  <2>1. Topmost(violators) \in SUBSET Node(tree)
    BY DEF Topmost, Node
  <2> QED
    BY <1>6, <2>1 DEF Swept, Next
<1>7. ASSUME RebuildCall
      PROVE  Next
  BY <1>7 DEF RebuildCall, Next
<1> QED
  BY <1>1, <1>2, <1>3, <1>4, <1>5, <1>6, <1>7, Kinds

\* On the partition, the calls do what SpatialTree allows and no more, so every point
\* stays where a search or a delete looks for it.  The partition is that of the code where
\* entries find room: see RoomCorrect.
THEOREM CallsPartition == CallsSpec => Spec /\ []SpatialInv
<1>1. CallsInit => Init
  BY DEF CallsInit
<1>2. [CallsNext]_callvars => [Next]_vars
  BY CallsStep
<1>3. CallsSpec => Spec
  BY <1>1, <1>2, PTL DEF CallsSpec, Spec
<1> QED
  BY <1>3, SpatialCorrect, PTL

(* The resolution. *)

\* The distance between two points does not depend on their order.
LEMMA SqDistSym ==
  ASSUME NEW p \in Plane, NEW q \in Plane
  PROVE  sq_dist(p, q) = sq_dist(q, p)
<1>1. \A a, b \in Int : Square(a - b) = Square(b - a)
  BY DEF Square
<1>2. p[1] \in Int /\ p[2] \in Int /\ q[1] \in Int /\ q[2] \in Int
  BY DEF Plane
<1> QED
  BY <1>1, <1>2 DEF sq_dist

\* A point joins that no live point is near to.
LEMMA ApartInsert ==
  ASSUME SpatialInv, LivePointsApart, NEW i \in Slot, NEW p \in Point, Near(p) = {},
         Acquire(i, p)
  PROVE  LivePointsApart'
<1>1. points \in [Slot -> Point] /\ live \subseteq Slot
  BY DEF SpatialInv, TypeOK
<1>2. p \in Plane /\ \A j \in live : points[j] \in Plane
  BY <1>1, PlaneAssumption
<1>3. ASSUME NEW j \in live
      PROVE  sq_dist(points[j], p) >= sq_resolution /\ sq_dist(p, points[j]) >= sq_resolution
  <2>1. sq_dist(points[j], p) \in Nat /\ sq_dist(p, points[j]) = sq_dist(points[j], p)
    BY <1>2, SqDistType, SqDistSym
  <2>2. ~ (sq_dist(points[j], p) < sq_resolution)
    BY DEF Near
  <2> QED
    BY <2>1, <2>2, CallsAssumption
<1>4. live' = live \cup {i} /\ points'[i] = p /\ \A j \in live : j # i => points'[j] = points[j]
  BY <1>1 DEF Acquire
<1> QED
  BY <1>3, <1>4 DEF LivePointsApart

\* Every step keeps the live points apart.
LEMMA ApartNext ==
  ASSUME SpatialInv, LivePointsApart, [CallsNext]_callvars
  PROVE  LivePointsApart'
<1>1. ASSUME UNCHANGED points, live' \subseteq live
      PROVE  LivePointsApart'
  BY <1>1 DEF LivePointsApart
<1>2. ASSUME Idle \/ RebuildCall \/ \E roots : Swept(roots)
      PROVE  UNCHANGED <<points, live>>
  BY <1>2 DEF Idle, vars, RebuildCall, RebuildAll, Swept, Sweep
<1>3. ASSUME NEW gone, Cleared(gone)
      PROVE  UNCHANGED points /\ live' \subseteq live
  BY <1>3 DEF Cleared
<1>4. ASSUME NEW i \in Slot, NEW p \in Point, InsertIntoNone(i, p)
      PROVE  LivePointsApart'
  BY <1>4, ApartInsert DEF InsertIntoNone, InsertFirst
<1>5. ASSUME NEW i \in Slot, NEW p \in Point, NEW x \in Leaf(tree), InsertInto(i, p, x)
      PROVE  LivePointsApart'
  BY <1>5, ApartInsert DEF InsertInto, InsertPoint
<1> QED
  BY <1>1, <1>2, <1>3, <1>4, <1>5, Kinds, ClearKinds

\* No two live points are within the resolution of each other, half-way through a batch
\* too, whatever the batch holds and whatever it evicts.  The hypothesis is what lets Near
\* stand for the search that the code makes: a point whose entry was refused is not found.
THEOREM ApartCorrect ==
  ASSUME BucketFits
  PROVE  CallsSpec => []LivePointsApart
<1>1. CallsInit => LivePointsApart
  BY DEF CallsInit, Init, LivePointsApart
<1>2. SpatialInv /\ LivePointsApart /\ [CallsNext]_callvars => LivePointsApart'
  BY ApartNext
<1> QED
  BY <1>1, <1>2, CallsPartition, PTL DEF CallsSpec

(* Finite sets. *)

\* What an entry can be.
Marks == [index : Slot, gen : 0 .. (GenMod - 1)]

\* Any number of slots is finite.
LEMMA SlotsFinite ==
  ASSUME NEW slots, slots \subseteq Slot
  PROVE  IsFiniteSet(slots) /\ Cardinality(slots) \in Nat
<1>1. IsFiniteSet(Slot)
  BY CapacityAssumption, FS_Interval DEF Slot
<1>2. IsFiniteSet(slots)
  BY <1>1, FS_Subset
<1> QED
  BY <1>2, FS_CardinalityType

\* So is any number of entries.
LEMMA EntriesFinite ==
  ASSUME NEW bucket, bucket \subseteq Marks
  PROVE  IsFiniteSet(bucket) /\ Cardinality(bucket) \in Nat
<1> DEFINE G == 0 .. (GenMod - 1)
           f == [c \in Slot \X G |-> Mark(c[1], c[2])]
<1>1. IsFiniteSet(Slot \X G)
  <2>1. IsFiniteSet(Slot)
    BY SlotsFinite
  <2>2. IsFiniteSet(G)
    BY GenModAssumption, FS_Interval
  <2> HIDE DEF G
  <2> QED
    BY <2>1, <2>2, FS_Product
<1>2. f \in Surjection(Slot \X G, Marks)
  <2>1. f \in [Slot \X G -> Marks]
    BY DEF Mark, Marks
  <2>2. ASSUME NEW e \in Marks
        PROVE  \E c \in Slot \X G : f[c] = e
    <3>1. <<e.index, e.gen>> \in Slot \X G /\ Mark(e.index, e.gen) = e
      BY DEF Mark, Marks
    <3>2. f[<<e.index, e.gen>>] = Mark(e.index, e.gen)
      BY <3>1
    <3> QED
      BY <3>1, <3>2
  <2> HIDE DEF f
  <2> QED
    BY <2>1, <2>2 DEF Surjection
<1>3. IsFiniteSet(Marks)
  <2> HIDE DEF f, G
  <2> QED
    BY <1>1, <1>2, FS_Surjection
<1>4. IsFiniteSet(bucket)
  BY <1>3, FS_Subset
<1> QED
  BY <1>4, FS_CardinalityType

\* A fresh bucket holds an entry per slot.
LEMMA MarksCard ==
  ASSUME NEW slots, slots \subseteq Slot, NEW s
  PROVE  Cardinality({Mark(i, s[i]) : i \in slots}) = Cardinality(slots)
<1> DEFINE marks == {Mark(i, s[i]) : i \in slots}
           f == [i \in slots |-> Mark(i, s[i])]
<1>1. f \in Bijection(slots, marks)
  <2>1. f \in [slots -> marks]
    OBVIOUS
  <2>2. \A i, j \in slots : f[i] = f[j] => i = j
    BY DEF Mark
  <2>3. \A m \in marks : \E i \in slots : f[i] = m
    OBVIOUS
  <2> HIDE DEF f, marks
  <2> QED
    BY <2>1, <2>2, <2>3 DEF Bijection, Injection, Surjection, IsInjective
<1>2. IsFiniteSet(slots)
  BY SlotsFinite
<1> HIDE DEF f, marks
<1>3. Cardinality(marks) = Cardinality(slots)
  BY <1>1, <1>2, FS_Bijection DEF ExistsBijection
<1> QED
  BY <1>3 DEF marks

\* Two sets that share nothing add up.
LEMMA CardSplit ==
  ASSUME NEW S, NEW T, IsFiniteSet(S), IsFiniteSet(T), S \cap T = {}
  PROVE  /\ IsFiniteSet(S \cup T)
         /\ Cardinality(S \cup T) = Cardinality(S) + Cardinality(T)
<1>1. Cardinality(S \cap T) = 0
  BY FS_EmptySet, Zenon
<1>2. Cardinality(S) \in Nat /\ Cardinality(T) \in Nat
  BY FS_CardinalityType
<1>3. /\ IsFiniteSet(S \cup T)
      /\ Cardinality(S \cup T) = Cardinality(S) + Cardinality(T) - Cardinality(S \cap T)
  BY FS_Union, Zenon
<1> QED
  BY <1>1, <1>2, <1>3

(* What a rebuild leaves alone. *)

\* A node that is not below a rebuilt one is as it was.
LEMMA Elsewhere ==
  ASSUME NEW t, NEW u, NEW pts, NEW roots, Shaped(t), Rebuilt(t, u, pts, roots),
         NEW y \in Node(u), ~ Beneath(roots, y)
  PROVE  /\ y \in Leaf(u) => y \in Leaf(t) /\ u.buckets[y] = t.buckets[y]
         /\ y \in Inner(u) => y \in Inner(t) /\ u.planes[y] = t.planes[y]
<1>1. Same(t, u, y) /\ Shaped(u)
  BY DEF Rebuilt
<1> QED
  BY <1>1 DEF Same, Shaped

\* The slots under a node stay the same, unless the node lies below a rebuilt one.
LEMMA UnderKept ==
  ASSUME NEW t, NEW u, NEW pts, NEW roots \in SUBSET Node(t), Shaped(t),
         Rebuilt(t, u, pts, roots),
         NEW z \in Path, \A r \in roots : Above(r, z) => r = z
  PROVE  Under(u, z) = Under(t, z)
<1>1. Shaped(u) /\ Node(t) \subseteq Path /\ Node(u) \subseteq Path
  BY Slots DEF Rebuilt
<1>2. \A r \in roots : r \in Path /\ Under(u, r) = Under(t, r)
  BY <1>1 DEF Rebuilt, BuiltFrom
<1>3. ASSUME NEW x \in Path, Above(z, x), NEW r \in roots, Above(r, x)
      PROVE  Above(z, r)
  <2>1. Above(z, r) \/ Above(r, z)
    BY <1>2, <1>3, AboveLinear
  <2> QED
    BY <2>1, AboveSame
<1>4. \A r \in roots : Above(z, r) => Under(u, r) \subseteq Under(u, z)
                                      /\ Under(t, r) \subseteq Under(t, z)
  BY <1>1, <1>2, Slots
<1>5. ASSUME NEW x \in Leaf(u), Above(z, x), NEW i \in u.buckets[x]
      PROVE  i \in Under(t, z)
  <2>1. x \in Node(u) /\ x \in Path
    BY <1>1 DEF Node
  <2>2. CASE Beneath(roots, x)
    <3>1. PICK r \in roots : Above(r, x)
      BY <2>2 DEF Beneath
    <3>2. i \in Under(u, r)
      BY <1>5, <3>1 DEF Under
    <3>3. Above(z, r)
      BY <1>3, <1>5, <2>1, <3>1
    <3> QED
      BY <1>2, <1>4, <3>2, <3>3
  <2>3. CASE ~ Beneath(roots, x)
    <3>1. x \in Leaf(t) /\ u.buckets[x] = t.buckets[x]
      BY <2>1, <2>3, Elsewhere
    <3> QED
      BY <1>5, <3>1 DEF Under
  <2> QED
    BY <2>2, <2>3
<1>6. ASSUME NEW x \in Leaf(t), Above(z, x), NEW i \in t.buckets[x]
      PROVE  i \in Under(u, z)
  <2>1. x \in Node(t) /\ x \in Path /\ x \notin Inner(t)
    BY <1>1 DEF Node, Shaped
  <2>2. CASE Beneath(roots, x)
    <3>1. PICK r \in roots : Above(r, x)
      BY <2>2 DEF Beneath
    <3>2. i \in Under(t, r)
      BY <1>6, <3>1 DEF Under
    <3>3. Above(z, r)
      BY <1>3, <1>6, <2>1, <3>1
    <3> QED
      BY <1>2, <1>4, <3>2, <3>3
  <2>3. CASE ~ Beneath(roots, x)
    <3>1. x \in Leaf(u) /\ u.buckets[x] = t.buckets[x]
      BY <2>1, <2>3 DEF Rebuilt, Same
    <3> QED
      BY <1>6, <3>1 DEF Under
  <2> QED
    BY <2>2, <2>3
<1>7. Under(u, z) \subseteq Under(t, z)
  BY <1>5 DEF Under
<1>8. Under(t, z) \subseteq Under(u, z)
  BY <1>6 DEF Under
<1> QED
  BY <1>7, <1>8

(* Entries and counts. *)

\* The width of the field cuts nothing off, if it fits.
LEMMA WholeCapacity ==
  /\ bucket_capacity \in Nat
  /\ BucketFits => bucket_capacity = 2 * leaf_bucket_size
BY CallsAssumption DEF bucket_capacity, BucketFits

\* A bucket with room left whose valid entries, by the stamps s and the live slots l, are
\* those of some slots; none has a stamp from the future.
Leads(bucket, slots, s, l) ==
  /\ bucket \subseteq Marks
  /\ {e.index : e \in {f \in bucket : f.gen = s[f.index] /\ f.index \in l}} = slots
  /\ \A e \in bucket : e.gen <= s[e.index]
  /\ Cardinality(bucket) < bucket_capacity

\* Counts that cover the entries in the buckets of a tree, and its live slots.
Tallied(t, entries, counts) ==
  /\ \A x \in Leaf(t) : counts[x] = Cardinality(entries[x])
  /\ \A y \in Inner(t) : counts[y] >= counts[Left(y)] + counts[Right(y)]
  /\ \A y \in Node(t) : counts[y] \in Nat /\ Cardinality(Under(t, y)) <= counts[y]

\* The part of the invariant that is about stamps, entries and counts.
LedgerInv ==
  /\ stamp \in [Slot -> 0 .. (GenMod - 1)]
  /\ filled \in [Leaf(tree) -> SUBSET Marks]
  /\ total \in [Node(tree) -> Nat]
  /\ \A x \in Leaf(tree) : Leads(filled[x], tree.buckets[x], stamp, live)
  /\ Tallied(tree, filled, total)

\* InvByNode, after a step.
LEMMA InvByNodeAfter ==
  ASSUME SpatialInv'
  PROVE  /\ points' \in [Slot -> Point] /\ live' \subseteq Slot
         /\ TreeSound(tree', points', live')
BY DEF SpatialInv, TypeOK, SharedOut, Separated, BoxesHold, TreeSound, SplitSound, LeafSound

\* The slots under a node are live.
LEMMA UnderLive ==
  ASSUME NEW t, NEW pts, NEW slots \in SUBSET Slot, TreeSound(t, pts, slots), NEW y
  PROVE  /\ Under(t, y) \subseteq slots
         /\ IsFiniteSet(Under(t, y)) /\ Cardinality(Under(t, y)) \in Nat
<1>1. Under(t, y) \subseteq slots
  BY DEF TreeSound, LeafSound, Under
<1> QED
  BY <1>1, SlotsFinite

\* A rebuilt leaf holds an entry for each of its slots, and has room left.
LEMMA FreshLeads ==
  ASSUME BucketFits, NEW t, NEW pts, NEW slots \in SUBSET Slot, TreeSound(t, pts, slots),
         NEW x \in Leaf(t), BuiltHere(t, pts, x), NEW s \in [Slot -> 0 .. (GenMod - 1)]
  PROVE  /\ Leads({Mark(i, s[i]) : i \in t.buckets[x]}, t.buckets[x], s, slots)
         /\ Cardinality({Mark(i, s[i]) : i \in t.buckets[x]}) = Cardinality(Under(t, x))
<1> DEFINE marks == {Mark(i, s[i]) : i \in t.buckets[x]}
<1>1. Under(t, x) = t.buckets[x] /\ x \notin Inner(t) /\ t.buckets[x] \subseteq slots
  BY Slots DEF TreeSound, Shaped, LeafSound
<1>2. Cardinality(marks) = Cardinality(t.buckets[x]) /\ Cardinality(t.buckets[x]) \in Nat
  BY <1>1, MarksCard, SlotsFinite
<1>3. Cardinality(t.buckets[x]) <= leaf_bucket_size
  BY <1>1 DEF BuiltHere
<1>4. Cardinality(marks) < bucket_capacity
  <2> HIDE DEF marks
  <2> QED
    BY <1>2, <1>3, WholeCapacity, CallsAssumption
<1>5. marks \subseteq Marks
  BY <1>1 DEF Mark, Marks
<1>6. {e.index : e \in {f \in marks : f.gen = s[f.index] /\ f.index \in slots}} = t.buckets[x]
  <2>1. \A i \in t.buckets[x] : /\ Mark(i, s[i]).index = i /\ Mark(i, s[i]).gen = s[i]
                                /\ i \in slots
    BY <1>1 DEF Mark
  <2> QED
    BY <2>1
<1>7. \A e \in marks : e.gen <= s[e.index]
  BY <1>1 DEF Mark
<1> QED
  BY <1>1, <1>2, <1>4, <1>5, <1>6, <1>7 DEF Leads

\* What is rewritten keeps the ledger, where the rest does.
LEMMA RewrittenSound ==
  ASSUME BucketFits, SpatialInv', stamp' \in [Slot -> 0 .. (GenMod - 1)],
         NEW entries, NEW counts, NEW roots, Rewritten(entries, counts, roots),
         \A y \in Node(tree') : Beneath(roots, y) => BuiltHere(tree', points', y),
         \A x \in Leaf(tree') : ~ Beneath(roots, x) =>
           /\ Leads(entries[x], tree'.buckets[x], stamp', live')
           /\ counts[x] = Cardinality(entries[x]),
         \A y \in Node(tree') : ~ Beneath(roots, y) =>
           counts[y] \in Nat /\ Cardinality(Under(tree', y)) <= counts[y],
         \A y \in Inner(tree') : ~ Beneath(roots, y) =>
           /\ counts[y] >= counts[Left(y)] + counts[Right(y)]
           /\ \A z \in {Left(y), Right(y)} :
                counts[z] \in Nat /\ Cardinality(Under(tree', z)) <= counts[z]
  PROVE  LedgerInv'
<1>1. /\ points' \in [Slot -> Point] /\ live' \in SUBSET Slot
      /\ TreeSound(tree', points', live')
  BY InvByNodeAfter
<1>2. Shaped(tree') /\ Node(tree') \subseteq Path
  BY <1>1, Slots DEF TreeSound
<1>3. \A y : IsFiniteSet(Under(tree', y)) /\ Cardinality(Under(tree', y)) \in Nat
  BY <1>1, UnderLive
<1>4. /\ filled' = [x \in Leaf(tree') |->
                      IF Beneath(roots, x) THEN {Mark(i, stamp'[i]) : i \in tree'.buckets[x]}
                      ELSE entries[x]]
      /\ total' = [y \in Node(tree') |->
                     IF Beneath(roots, y) THEN Cardinality(Under(tree', y)) ELSE counts[y]]
  BY DEF Rewritten
<1>5. ASSUME NEW x \in Leaf(tree')
      PROVE  /\ Leads(filled'[x], tree'.buckets[x], stamp', live')
             /\ total'[x] = Cardinality(filled'[x])
  <2>1. x \in Node(tree')
    BY DEF Node
  <2>2. CASE Beneath(roots, x)
    <3>1. BuiltHere(tree', points', x)
      BY <2>1, <2>2
    <3>2. filled'[x] = {Mark(i, stamp'[i]) : i \in tree'.buckets[x]}
          /\ total'[x] = Cardinality(Under(tree', x))
      BY <1>4, <2>1, <2>2
    <3> DEFINE marks == {Mark(i, stamp'[i]) : i \in tree'.buckets[x]}
    <3>3. /\ Leads(marks, tree'.buckets[x], stamp', live')
          /\ Cardinality(marks) = Cardinality(Under(tree', x))
      BY <1>1, <3>1, FreshLeads
    <3> HIDE DEF marks
    <3>4. filled'[x] = marks
      BY <3>2 DEF marks
    <3> QED
      BY <3>2, <3>3, <3>4
  <2>3. CASE ~ Beneath(roots, x)
    BY <1>4, <2>1, <2>3
  <2> QED
    BY <2>2, <2>3
<1>6. ASSUME NEW y \in Node(tree')
      PROVE  /\ total'[y] \in Nat /\ Cardinality(Under(tree', y)) <= total'[y]
             /\ ~ Beneath(roots, y) => total'[y] = counts[y]
             /\ Beneath(roots, y) => total'[y] = Cardinality(Under(tree', y))
  BY <1>3, <1>4
<1>7. ASSUME NEW y \in Inner(tree')
      PROVE  total'[y] >= total'[Left(y)] + total'[Right(y)]
  <2>1. y \in Node(tree') /\ Left(y) \in Node(tree') /\ Right(y) \in Node(tree')
    BY <1>2 DEF Shaped, Node
  <2>2. /\ total'[y] \in Nat /\ total'[Left(y)] \in Nat /\ total'[Right(y)] \in Nat
    BY <1>6, <2>1
  <2>3. CASE Beneath(roots, y)
    <3>1. Beneath(roots, Left(y)) /\ Beneath(roots, Right(y))
      <4>1. PICK r \in roots : Above(r, y)
        BY <2>3 DEF Beneath
      <4>2. Above(r, Left(y)) /\ Above(r, Right(y))
        <5>1. Len(y) \in Nat /\ DOMAIN y = 1 .. Len(y)
              /\ \A d : /\ Len(Append(y, d)) = Len(y) + 1
                        /\ \A k \in 1 .. Len(y) : Append(y, d)[k] = y[k]
          <6>1. y \in Path
            BY <1>2, <2>1
          <6> QED
            BY <6>1, LenProperties DEF Path
        <5> QED
          BY <4>1, <5>1 DEF Above, Left, Right
      <4> QED
        BY <4>2 DEF Beneath
    <3>2. /\ Under(tree', y) = Under(tree', Left(y)) \cup Under(tree', Right(y))
          /\ Under(tree', Left(y)) \cap Under(tree', Right(y)) = {}
      BY <1>1, <1>2, Slots DEF TreeSound, SplitSound
    <3>3. Cardinality(Under(tree', y)) =
            Cardinality(Under(tree', Left(y))) + Cardinality(Under(tree', Right(y)))
      BY <1>3, <3>2, CardSplit
    <3>4. /\ total'[y] = Cardinality(Under(tree', y))
          /\ total'[Left(y)] = Cardinality(Under(tree', Left(y)))
          /\ total'[Right(y)] = Cardinality(Under(tree', Right(y)))
      BY <1>6, <2>1, <2>3, <3>1
    <3> QED
      BY <2>2, <3>3, <3>4
  <2>4. CASE ~ Beneath(roots, y)
    <3>1. /\ total'[y] = counts[y] /\ counts[y] >= counts[Left(y)] + counts[Right(y)]
          /\ counts[Left(y)] \in Nat /\ counts[Right(y)] \in Nat
          /\ Cardinality(Under(tree', Left(y))) <= counts[Left(y)]
          /\ Cardinality(Under(tree', Right(y))) <= counts[Right(y)]
      BY <1>6, <2>1, <2>4
    <3>2. total'[Left(y)] <= counts[Left(y)] /\ total'[Right(y)] <= counts[Right(y)]
      BY <1>6, <2>1, <3>1
    <3> QED
      BY <2>2, <3>1, <3>2
  <2> QED
    BY <2>3, <2>4
<1>8. Tallied(tree', filled', total')
  BY <1>5, <1>6, <1>7 DEF Tallied
<1>9. filled' \in [Leaf(tree') -> SUBSET Marks] /\ total' \in [Node(tree') -> Nat]
  <2>1. \A x \in Leaf(tree') : filled'[x] \subseteq Marks
    BY <1>5 DEF Leads
  <2>2. DOMAIN filled' = Leaf(tree') /\ filled' = [x \in DOMAIN filled' |-> filled'[x]]
    BY <1>4
  <2>3. DOMAIN total' = Node(tree') /\ total' = [x \in DOMAIN total' |-> total'[x]]
    BY <1>4
  <2> QED
    BY <1>6, <2>1, <2>2, <2>3
<1> QED
  BY <1>5, <1>8, <1>9 DEF LedgerInv

\* So a rebuild of some subtrees keeps the ledger of a tree.
LEMMA RebuiltLedger ==
  ASSUME BucketFits, SpatialInv', stamp' \in [Slot -> 0 .. (GenMod - 1)],
         NEW t, NEW entries, NEW counts, NEW roots \in SUBSET Node(t),
         Shaped(t), Rebuilt(t, tree', points', roots), Rewritten(entries, counts, roots),
         \A x \in Leaf(t) : ~ Beneath(roots, x) =>
           Leads(entries[x], t.buckets[x], stamp', live'),
         Tallied(t, entries, counts)
  PROVE  LedgerInv'
<1>1. Shaped(tree') /\ Node(t) \subseteq Path /\ Node(tree') \subseteq Path
  BY Slots DEF Rebuilt
<1>2. \A y \in Node(tree') : Beneath(roots, y) => BuiltHere(tree', points', y)
  BY DEF Beneath, Rebuilt, BuiltFrom
<1>3. ASSUME NEW y \in Node(tree'), ~ Beneath(roots, y)
      PROVE  /\ y \in Node(t) /\ Under(tree', y) = Under(t, y)
             /\ y \in Leaf(tree') => y \in Leaf(t) /\ tree'.buckets[y] = t.buckets[y]
             /\ y \in Inner(tree') => y \in Inner(t)
  <2>1. /\ y \in Leaf(tree') => y \in Leaf(t) /\ tree'.buckets[y] = t.buckets[y]
        /\ y \in Inner(tree') => y \in Inner(t)
    BY <1>3, Elsewhere
  <2>2. Under(tree', y) = Under(t, y)
    BY <1>1, <1>3, UnderKept DEF Beneath
  <2> QED
    BY <2>1, <2>2 DEF Node
<1>4. ASSUME NEW y \in Inner(tree'), ~ Beneath(roots, y), NEW z \in {Left(y), Right(y)}
      PROVE  z \in Node(t) /\ Under(tree', z) = Under(t, z)
  <2>1. y \in Node(tree') /\ y \in Path /\ z \in Path
    BY <1>1, Children DEF Node
  <2>2. y \in Inner(t)
    BY <1>3, <1>4, <2>1
  <2>3. ASSUME NEW r \in roots, Above(r, z)
        PROVE  r = z
    <3>1. r \in Path
      BY <1>1
    <3>2. r = z \/ Above(r, y)
      BY <2>1, <2>3, <3>1, Children
    <3> QED
      BY <1>4, <3>2 DEF Beneath
  <2>4. Under(tree', z) = Under(t, z)
    BY <2>1, <2>3, UnderKept
  <2> QED
    BY <2>2, <2>4 DEF Shaped
<1>5. \A x \in Leaf(tree') : ~ Beneath(roots, x) =>
        /\ Leads(entries[x], tree'.buckets[x], stamp', live')
        /\ counts[x] = Cardinality(entries[x])
  BY <1>3 DEF Tallied, Node
<1>6. \A y \in Node(tree') : ~ Beneath(roots, y) =>
        counts[y] \in Nat /\ Cardinality(Under(tree', y)) <= counts[y]
  BY <1>3 DEF Tallied
<1>7. \A y \in Inner(tree') : ~ Beneath(roots, y) =>
        /\ counts[y] >= counts[Left(y)] + counts[Right(y)]
        /\ \A z \in {Left(y), Right(y)} :
             counts[z] \in Nat /\ Cardinality(Under(tree', z)) <= counts[z]
  BY <1>3, <1>4 DEF Tallied, Node
<1> QED
  BY <1>2, <1>5, <1>6, <1>7, RewrittenSound

\* Built from scratch, a tree has a sound ledger.
LEMMA BuiltLedger ==
  ASSUME BucketFits, SpatialInv', stamp' \in [Slot -> 0 .. (GenMod - 1)],
         NEW entries, NEW counts, Rewritten(entries, counts, {<<>>}),
         BuildAll \/ tree' = NoTree
  PROVE  LedgerInv'
<1>1. Node(tree') \subseteq Path
  BY InvByNodeAfter, Slots DEF TreeSound
<1>2. \A y \in Node(tree') : Beneath({<<>>}, y)
  BY <1>1, AboveSame DEF Beneath
<1>3. \A y \in Node(tree') : BuiltHere(tree', points', y)
  <2>1. CASE BuildAll
    BY <1>1, <2>1, AboveSame DEF BuildAll, BuiltFrom
  <2>2. CASE tree' = NoTree
    BY <2>2 DEF NoTree, Node, Inner, Leaf
  <2> QED
    BY <2>1, <2>2
<1> QED
  BY <1>2, <1>3, RewrittenSound DEF Node

\* It holds before any call.
LEMMA LedgerInit ==
  ASSUME CallsInit
  PROVE  LedgerInv
<1>1. Inner(tree) = {} /\ Leaf(tree) = {} /\ Node(tree) = {}
  BY DEF CallsInit, Init, NoTree, Inner, Leaf, Node
<1>2. filled \in [Leaf(tree) -> SUBSET Marks] /\ total \in [Node(tree) -> Nat]
  <2>1. filled = <<>> /\ total = <<>>
    BY DEF CallsInit
  <2> QED
    BY <1>1, <2>1
<1>3. stamp \in [Slot -> 0 .. (GenMod - 1)]
  BY GenModAssumption DEF CallsInit
<1> QED
  BY <1>1, <1>2, <1>3 DEF LedgerInv, Tallied

\* Dropping slots leaves their entries behind, no longer valid.
LEMMA LedgerCleared ==
  ASSUME SpatialInv, LedgerInv, NEW gone, Cleared(gone)
  PROVE  LedgerInv'
<1>1. /\ points \in [Slot -> Point] /\ live \in SUBSET Slot /\ TreeSound(tree, points, live)
  BY InvByNode
<1>2. /\ tree' = Without(tree, gone) /\ live' = live \ gone
      /\ stamp' = stamp /\ filled' = filled /\ total' = total
  BY DEF Cleared
<1>3. /\ Inner(tree') = Inner(tree) /\ Leaf(tree') = Leaf(tree) /\ Node(tree') = Node(tree)
      /\ \A x \in Leaf(tree) : tree'.buckets[x] = tree.buckets[x] \ gone
  BY <1>2 DEF Without, Inner, Leaf, Node
<1>4. ASSUME NEW x \in Leaf(tree)
      PROVE  Leads(filled'[x], tree'.buckets[x], stamp', live')
  <2>1. Leads(filled[x], tree.buckets[x], stamp, live)
    BY DEF LedgerInv
  <2>2. {e.index : e \in {f \in filled[x] : f.gen = stamp[f.index] /\ f.index \in live \ gone}}
          = {e.index : e \in {f \in filled[x] : f.gen = stamp[f.index] /\ f.index \in live}} \ gone
    OBVIOUS
  <2> QED
    BY <1>2, <1>3, <2>1, <2>2 DEF Leads
<1>5. ASSUME NEW y
      PROVE  Cardinality(Under(tree', y)) <= Cardinality(Under(tree, y))
  <2>1. Under(tree', y) \subseteq Under(tree, y)
    BY <1>3 DEF Under
  <2>2. IsFiniteSet(Under(tree, y))
    BY <1>1, UnderLive
  <2> QED
    BY <2>1, <2>2, FS_Subset
<1>6. Tallied(tree', filled', total')
  <2>1. ASSUME NEW y \in Node(tree)
        PROVE  Cardinality(Under(tree', y)) <= total[y]
    <3>1. /\ Cardinality(Under(tree, y)) <= total[y] /\ total[y] \in Nat
          /\ Cardinality(Under(tree, y)) \in Nat
      BY <1>1, UnderLive DEF LedgerInv, Tallied
    <3>2. Cardinality(Under(tree', y)) \in Nat
      BY <1>1, <1>3, SlotsFinite DEF Under, TreeSound, LeafSound
    <3> QED
      BY <1>5, <3>1, <3>2
  <2> QED
    BY <1>2, <1>3, <2>1 DEF LedgerInv, Tallied
<1> QED
  BY <1>2, <1>3, <1>4, <1>6 DEF LedgerInv

\* The stamp of a slot has grown, and that of no other has changed.
Restamped(s, s2, i) ==
  /\ s \in [Slot -> 0 .. (GenMod - 1)] /\ s2 \in [Slot -> 0 .. (GenMod - 1)]
  /\ s2[i] > s[i] /\ \A j \in Slot : j # i => s2[j] = s[j]

\* acquire() makes every entry that the slot had before older than its stamp.
LEMMA HandOutStamps ==
  ASSUME LedgerInv, NEW i \in Slot, HandOut(i)
  PROVE  Restamped(stamp, stamp', i)
BY GenModAssumption DEF LedgerInv, HandOut, Restamped

\* In every bucket they are leftovers then; the new entry is the only one that is not.
LEMMA EntryFiled ==
  ASSUME NEW i \in Slot, NEW s, NEW s2, Restamped(s, s2, i), NEW l, NEW slots, NEW bucket, Leads(bucket, slots, s, l)
  PROVE  /\ Leads(bucket, slots \ {i}, s2, l \cup {i})
         /\ ~ Full(bucket) /\ Mark(i, s2[i]) \notin bucket
         /\ ~ Full(bucket \cup {Mark(i, s2[i])}) =>
              Leads(bucket \cup {Mark(i, s2[i])}, slots \cup {i}, s2, l \cup {i})
         /\ Cardinality(bucket \cup {Mark(i, s2[i])}) = Cardinality(bucket) + 1
<1> USE DEF Restamped
<1> DEFINE m == Mark(i, s2[i])
           m2 == bucket \cup {m}
<1>1. /\ bucket \subseteq Marks
      /\ {e.index : e \in {f \in bucket : f.gen = s[f.index] /\ f.index \in l}} = slots
      /\ \A e \in bucket : e.gen <= s[e.index]
      /\ Cardinality(bucket) < bucket_capacity
  BY DEF Leads
<1>2. \A e \in bucket : /\ e.index \in Slot /\ e.gen \in 0 .. (GenMod - 1)
                        /\ e.gen <= s2[e.index]
                        /\ e.index = i => e.gen < s2[i]
  BY <1>1 DEF Marks
<1>3. m \in Marks /\ m.index = i /\ m.gen = s2[i]
  BY DEF Mark, Marks
<1>4. m \notin bucket
  BY <1>2, <1>3
<1>5. IsFiniteSet(bucket) /\ Cardinality(bucket) \in Nat
  BY <1>1, EntriesFinite
<1>6. Cardinality(m2) = Cardinality(bucket) + 1
  <2> HIDE DEF m
  <2> QED
    BY <1>4, <1>5, FS_AddElement
<1>7. ~ Full(bucket)
  BY <1>1, <1>5, WholeCapacity DEF Full
<1> HIDE DEF m
<1>8. {e.index : e \in {f \in bucket : f.gen = s2[f.index] /\ f.index \in l \cup {i}}} = slots \ {i}
  <2>1. \A f \in bucket : f.gen = s2[f.index] /\ f.index \in l \cup {i}
                            <=> f.gen = s[f.index] /\ f.index \in l /\ f.index # i
    BY <1>2
  <2> QED
    BY <1>1, <2>1
<1>9. Leads(bucket, slots \ {i}, s2, l \cup {i})
  BY <1>1, <1>2, <1>8 DEF Leads
<1>10. ASSUME ~ Full(m2)
       PROVE  Leads(m2, slots \cup {i}, s2, l \cup {i})
  <2>1. Cardinality(m2) < bucket_capacity
    BY <1>1, <1>5, <1>6, <1>10, WholeCapacity DEF Full
  <2>2. m2 \subseteq Marks /\ \A e \in m2 : e.gen <= s2[e.index]
    BY <1>1, <1>2, <1>3
  <2>3. {e.index : e \in {f \in m2 : f.gen = s2[f.index] /\ f.index \in l \cup {i}}}
          = (slots \ {i}) \cup {i}
    BY <1>3, <1>8
  <2>4. (slots \ {i}) \cup {i} = slots \cup {i}
    OBVIOUS
  <2> QED
    BY <2>1, <2>2, <2>3, <2>4 DEF Leads
<1> QED
  BY <1>4, <1>6, <1>7, <1>9, <1>10 DEF m

\* Counting a point on the way down keeps the counts right.
LEMMA FiledTallied ==
  ASSUME SpatialInv, LedgerInv, NEW i \in Slot, NEW p \in Point, NEW x \in Leaf(tree),
         NEW pushed, Cardinality(pushed) = Cardinality(filled[x]) + 1
  PROVE  Tallied(Filed(tree, i, p, x), [filled EXCEPT ![x] = pushed], Counted(x))
<1> DEFINE f == Filed(tree, i, p, x)
           entries == [filled EXCEPT ![x] = pushed]
           counts == Counted(x)
<1>1. /\ Inner(f) = Inner(tree) /\ Leaf(f) = Leaf(tree)
      /\ f.buckets[x] = tree.buckets[x] \cup {i}
      /\ \A z \in Leaf(tree) : z # x => f.buckets[z] = tree.buckets[z] \ {i}
  BY DEF Filed, Inner, Leaf
<1>2. /\ live \in SUBSET Slot /\ TreeSound(tree, points, live)
      /\ Shaped(tree) /\ Node(tree) \subseteq Path /\ x \in Node(tree) /\ x \notin Inner(tree)
  BY InvByNode, Slots DEF TreeSound, Shaped, Node
<1>3. /\ DOMAIN filled = Leaf(tree) /\ Tallied(tree, filled, total)
      /\ total \in [Node(tree) -> Nat]
  BY DEF LedgerInv
<1>4. /\ entries[x] = pushed /\ \A z \in Leaf(tree) : z # x => entries[z] = filled[z]
      /\ \A y \in Node(tree) : counts[y] = IF Above(y, x) THEN total[y] + 1 ELSE total[y]
  BY <1>3 DEF Counted
<1> HIDE DEF f, entries, counts
<1>5. Node(f) = Node(tree)
  BY <1>1 DEF Node
<1>6. ASSUME NEW z \in Leaf(f)
      PROVE  counts[z] = Cardinality(entries[z])
  <2>1. z \in Leaf(tree) /\ z \in Node(tree) /\ z \in Path /\ z \notin Inner(tree)
    BY <1>1, <1>2 DEF Node, Shaped
  <2>2. Above(z, x) <=> z = x
    BY <1>2, <2>1, OnTheWay, AboveSame
  <2>3. total[z] = Cardinality(filled[z])
    BY <1>3, <2>1 DEF Tallied
  <2> QED
    BY <1>4, <2>1, <2>2, <2>3
<1>7. ASSUME NEW y \in Inner(f)
      PROVE  counts[y] >= counts[Left(y)] + counts[Right(y)]
  <2>1. /\ y \in Inner(tree) /\ y \in Node(tree)
        /\ Left(y) \in Node(tree) /\ Right(y) \in Node(tree)
    BY <1>1, <1>2 DEF Shaped, Node
  <2>2. /\ Above(y, x) <=> Above(Left(y), x) \/ Above(Right(y), x)
        /\ ~ (Above(Left(y), x) /\ Above(Right(y), x))
    BY <1>2, <2>1, Children
  <2>3. /\ total[y] \in Nat /\ total[Left(y)] \in Nat /\ total[Right(y)] \in Nat
        /\ total[y] >= total[Left(y)] + total[Right(y)]
    BY <1>3, <2>1 DEF Tallied
  <2> QED
    BY <1>4, <2>1, <2>2, <2>3
<1>8. ASSUME NEW y \in Node(f)
      PROVE  counts[y] \in Nat /\ Cardinality(Under(f, y)) <= counts[y]
  <2>1. y \in Node(tree)
    BY <1>5
  <2>2. Under(f, y) \subseteq Under(tree, y) \cup {i} /\ (i \in Under(f, y) => Above(y, x))
    BY <1>1 DEF Under
  <2>3. /\ IsFiniteSet(Under(tree, y)) /\ Cardinality(Under(tree, y)) \in Nat
        /\ total[y] \in Nat /\ Cardinality(Under(tree, y)) <= total[y]
    BY <1>2, <1>3, <2>1, UnderLive DEF Tallied
  <2>4. IsFiniteSet(Under(f, y)) /\ Cardinality(Under(f, y)) \in Nat
    <3>1. Under(tree, y) \subseteq Slot
      BY <1>2, UnderLive
    <3> QED
      BY <2>2, <3>1, SlotsFinite
  <2>5. CASE Above(y, x)
    <3>1. /\ IsFiniteSet(Under(tree, y) \cup {i})
          /\ Cardinality(Under(tree, y) \cup {i}) \in Nat
          /\ Cardinality(Under(tree, y) \cup {i}) <= Cardinality(Under(tree, y)) + 1
      BY <2>3, FS_AddElement
    <3>2. Cardinality(Under(f, y)) <= Cardinality(Under(tree, y) \cup {i})
      BY <2>2, <3>1, FS_Subset
    <3> QED
      BY <1>4, <2>1, <2>3, <2>4, <2>5, <3>1, <3>2
  <2>6. CASE ~ Above(y, x)
    <3>1. Under(f, y) \subseteq Under(tree, y)
      BY <2>2, <2>6
    <3>2. Cardinality(Under(f, y)) <= Cardinality(Under(tree, y))
      BY <2>3, <3>1, FS_Subset
    <3> QED
      BY <1>4, <2>1, <2>3, <2>4, <2>6, <3>2
  <2> QED
    BY <2>5, <2>6
<1> QED
  BY <1>6, <1>7, <1>8 DEF Tallied, f, entries, counts

\* An insertion keeps the ledger, when it fills a bucket too.
LEMMA LedgerInsert ==
  ASSUME BucketFits, SpatialInv, SpatialInv', LedgerInv,
         NEW i \in Slot, NEW p \in Point, NEW x \in Leaf(tree), InsertInto(i, p, x)
  PROVE  LedgerInv'
<1> DEFINE m == Mark(i, stamp'[i])
           pushed == push(filled[x], m)
           roots == IF Full(pushed) THEN {x} ELSE {}
           f == Filed(tree, i, p, x)
           entries == [filled EXCEPT ![x] = pushed]
<1>1. /\ HandOut(i) /\ OnRoute(tree, p, x) /\ Acquire(i, p)
      /\ Rebuilt(f, tree', points', roots) /\ Rewritten(entries, Counted(x), roots)
  BY DEF InsertInto, InsertPoint
<1>2. Restamped(stamp, stamp', i)
  BY <1>1, HandOutStamps
<1>3. ASSUME NEW z \in Leaf(tree)
      PROVE  /\ Leads(filled[z], tree.buckets[z] \ {i}, stamp', live')
             /\ ~ Full(filled[z]) /\ m \notin filled[z]
             /\ ~ Full(filled[z] \cup {m}) =>
                  Leads(filled[z] \cup {m}, tree.buckets[z] \cup {i}, stamp', live')
             /\ Cardinality(filled[z] \cup {m}) = Cardinality(filled[z]) + 1
  <2>1. Leads(filled[z], tree.buckets[z], stamp, live)
    BY DEF LedgerInv
  <2>2. live' = live \cup {i}
    BY <1>1 DEF Acquire
  <2>3. /\ Leads(filled[z], tree.buckets[z] \ {i}, stamp', live \cup {i})
        /\ ~ Full(filled[z]) /\ Mark(i, stamp'[i]) \notin filled[z]
        /\ ~ Full(filled[z] \cup {Mark(i, stamp'[i])}) =>
             Leads(filled[z] \cup {Mark(i, stamp'[i])}, tree.buckets[z] \cup {i},
                   stamp', live \cup {i})
        /\ Cardinality(filled[z] \cup {Mark(i, stamp'[i])}) = Cardinality(filled[z]) + 1
    <3> HIDE DEF m, pushed, roots, f, entries
    <3> QED
      BY <1>2, <2>1, EntryFiled, ZenonT(60)
  <2> QED
    BY <2>2, <2>3
<1>4. pushed = filled[x] \cup {m}
  BY <1>3 DEF push
<1> HIDE DEF m
<1>5. Tallied(f, entries, Counted(x))
  BY <1>3, <1>4, FiledTallied DEF m
<1>6. Shaped(f) /\ Node(f) = Node(tree)
  <2>1. /\ points \in [Slot -> Point] /\ live \in SUBSET Slot
        /\ TreeSound(tree, points, live)
    BY InvByNode
  <2>2. OnRoute(tree, p, x)
    BY <1>1
  <2>3. /\ TreeSound(f, [points EXCEPT ![i] = p], live \cup {i})
        /\ Node(f) = Node(tree)
    BY <2>1, <2>2, FiledSound, ZenonT(30)
  <2> HIDE DEF f
  <2> QED
    BY <2>3 DEF TreeSound
<1>7. roots \in SUBSET Node(f)
  BY <1>6 DEF Node
<1>8. ASSUME NEW z \in Leaf(f), ~ Beneath(roots, z)
      PROVE  Leads(entries[z], f.buckets[z], stamp', live')
  <2>1. /\ z \in Leaf(tree) /\ DOMAIN filled = Leaf(tree)
        /\ f.buckets[z] = IF z = x THEN tree.buckets[z] \cup {i} ELSE tree.buckets[z] \ {i}
    BY DEF Filed, Leaf, LedgerInv
  <2>2. CASE z = x
    <3>1. ~ Full(pushed)
      <4>1. x \in Path
        BY InvByNode, Slots DEF TreeSound, Node
      <4> QED
        BY <1>8, <2>2, <4>1, AboveSame DEF Beneath
    <3> QED
      BY <1>3, <1>4, <2>1, <2>2, <3>1
  <2>3. CASE z # x
    BY <1>3, <2>1, <2>3
  <2> QED
    BY <2>2, <2>3
<1> HIDE DEF pushed, roots, f, entries
<1> QED
  BY <1>1, <1>2, <1>5, <1>6, <1>7, <1>8, RebuiltLedger DEF Restamped

\* So does one into no tree, and a rebuild of everything.
LEMMA LedgerBuild ==
  ASSUME BucketFits, SpatialInv', LedgerInv,
         RebuildCall \/ \E i \in Slot, p \in Point : InsertIntoNone(i, p)
  PROVE  LedgerInv'
<1>1. stamp' \in [Slot -> 0 .. (GenMod - 1)]
  BY HandOutStamps DEF RebuildCall, InsertIntoNone, LedgerInv, Restamped
<1>2. BuildAll \/ tree' = NoTree
  BY DEF RebuildCall, RebuildAll, InsertIntoNone, InsertFirst
<1>3. Rewritten(filled, total, {<<>>})
  BY DEF RebuildCall, InsertIntoNone
<1> QED
  BY <1>1, <1>2, <1>3, BuiltLedger

\* A partial rebuild drops what is no longer valid, and nothing else.
LEMMA LedgerSwept ==
  ASSUME BucketFits, SpatialInv, SpatialInv', LedgerInv, NEW roots \in SUBSET Node(tree), Swept(roots)
  PROVE  LedgerInv'
<1>1. /\ UNCHANGED <<stamp, live, points>> /\ Rebuilt(tree, tree', points', roots)
      /\ Rewritten(filled, total, roots)
  BY DEF Swept, Sweep
<1>2. Shaped(tree)
  BY DEF SpatialInv
<1>3. /\ stamp' \in [Slot -> 0 .. (GenMod - 1)] /\ Tallied(tree, filled, total)
      /\ \A x \in Leaf(tree) : Leads(filled[x], tree.buckets[x], stamp', live')
  BY <1>1 DEF LedgerInv
<1> QED
  BY <1>1, <1>2, <1>3, RebuiltLedger

\* Every step keeps the ledger.
LEMMA LedgerNext ==
  ASSUME BucketFits, SpatialInv, LedgerInv, [CallsNext]_callvars
  PROVE  LedgerInv'
<1>1. SpatialInv'
  BY CallsStep, InvNext
<1>2. ASSUME Idle
      PROVE  LedgerInv'
  BY <1>2 DEF Idle, vars, LedgerInv
<1>3. ASSUME NEW violators \in SUBSET Inner(tree), Swept(Topmost(violators))
      PROVE  LedgerInv'
  <2>1. Topmost(violators) \in SUBSET Node(tree)
    BY DEF Topmost, Node
  <2> QED
    BY <1>1, <1>3, <2>1, LedgerSwept
<1> QED
  BY <1>1, <1>2, <1>3, Kinds, ClearKinds, LedgerCleared, LedgerInsert, LedgerBuild

\* What the entries say of the live slots, at any time and on any tree.
LEMMA LedgerCorrect ==
  ASSUME BucketFits
  PROVE  CallsSpec => []LedgerInv
<1>1. CallsInit => LedgerInv
  BY LedgerInit
<1>2. SpatialInv /\ LedgerInv /\ [CallsNext]_callvars => LedgerInv'
  BY LedgerNext
<1> QED
  BY <1>1, <1>2, CallsPartition, PTL DEF CallsSpec

\* No slot is in two buckets: their leaves part at some node, whose children share none.
LEMMA OneLeaf ==
  ASSUME NEW t, NEW pts, NEW slots, TreeSound(t, pts, slots),
         NEW x \in Leaf(t), NEW z \in Leaf(t), NEW i \in t.buckets[x], i \in t.buckets[z]
  PROVE  x = z
<1> SUFFICES ASSUME x # z
             PROVE  FALSE
  OBVIOUS
<1>1. /\ Shaped(t) /\ x \in Node(t) /\ z \in Node(t) /\ x \in Path /\ z \in Path
      /\ x \notin Inner(t) /\ z \notin Inner(t)
  BY Slots DEF TreeSound, Shaped, Node
<1> DEFINE T == {y \in Path : Above(y, x) /\ ~ Above(y, z)}
<1>2. x \in T
  <2>1. ~ Above(x, z)
    BY <1>1, OnTheWay
  <2> QED
    BY <1>1, <2>1, AboveSame
<1>3. PICK y \in T : \A w \in T : Len(y) <= Len(w)
  <2>1. T \subseteq Path /\ T # {}
    BY <1>2
  <2> HIDE DEF T
  <2> QED
    BY <2>1, Shortest
<1>4. y \in Path /\ Above(y, x) /\ ~ Above(y, z) /\ y # <<>>
  BY <1>1, AboveSame
<1>5. y \in Node(t)
  BY <1>1, <1>4, OnTheWay DEF Node
<1>6. PICK w \in Inner(t) : y = Left(w) \/ y = Right(w)
  BY <1>1, <1>4, <1>5, Parent
<1>7. w \in Path /\ Above(w, y) /\ Len(w) < Len(y)
  <2>1. w \in Path
    BY <1>1, Slots DEF Node
  <2> QED
    BY <1>6, <2>1, Children
<1>8. Above(w, x) /\ Above(w, z)
  <2>1. Above(w, x)
    BY <1>1, <1>4, <1>7, AboveTrans
  <2>2. w \notin T
    <3>1. Len(w) \in Nat /\ Len(y) \in Nat
      BY <1>4, <1>7, LenProperties DEF Path
    <3> QED
      BY <1>3, <1>7, <3>1
  <2> QED
    BY <1>7, <2>1, <2>2
<1>9. Above(Left(w), z) \/ Above(Right(w), z)
  BY <1>1, <1>7, <1>8, Children
<1>10. i \in Under(t, Left(w)) /\ i \in Under(t, Right(w))
  BY <1>4, <1>6, <1>9 DEF Under
<1> QED
  BY <1>10 DEF TreeSound, SplitSound

\* So the ledger and the partition agree on what is live.
LEMMA EntriesMatch ==
  ASSUME SpatialInv, LedgerInv
  PROVE  EntriesMatchLive
<1>1. /\ TreeSound(tree, points, live) /\ live \subseteq Slot
      /\ stamp \in [Slot -> 0 .. (GenMod - 1)]
  BY InvByNode DEF LedgerInv
<1>2. ASSUME NEW x \in Leaf(tree)
      PROVE  /\ {e.index : e \in {f \in filled[x] : Current(f)}} = tree.buckets[x]
             /\ filled[x] \subseteq Marks
  BY DEF LedgerInv, Leads, Current
<1>3. ASSUME NEW i \in live, NEW x \in Leaf(tree)
      PROVE  Mark(i, stamp[i]) \in filled[x] <=> i \in tree.buckets[x]
  <2>1. Mark(i, stamp[i]).index = i /\ Mark(i, stamp[i]).gen = stamp[i]
    BY DEF Mark
  <2>2. ASSUME Mark(i, stamp[i]) \in filled[x]
        PROVE  i \in tree.buckets[x]
    BY <1>2, <2>1, <2>2 DEF Current
  <2>3. ASSUME i \in tree.buckets[x]
        PROVE  Mark(i, stamp[i]) \in filled[x]
    <3>1. PICK e \in filled[x] : Current(e) /\ e.index = i
      BY <1>2, <2>3
    <3>2. e = Mark(i, stamp[i])
      BY <1>2, <3>1 DEF Current, Mark, Marks
    <3> QED
      BY <3>1, <3>2
  <2> QED
    BY <2>2, <2>3
<1>4. ASSUME NEW i \in live
      PROVE  \E x \in Leaf(tree) : \A z \in Leaf(tree) :
               Mark(i, stamp[i]) \in filled[z] <=> z = x
  <2>1. PICK x \in Leaf(tree) : i \in tree.buckets[x]
    BY <1>1 DEF TreeSound
  <2>2. \A z \in Leaf(tree) : i \in tree.buckets[z] <=> z = x
    BY <1>1, <2>1, OneLeaf
  <2> QED
    BY <1>3, <2>2
<1> QED
  BY <1>2, <1>4 DEF EntriesMatchLive

\* On a tree of any size, half-way through any batch, the staleness test lets pass the
\* live slots of each bucket and nothing else, and each of them in one leaf only, where
\* twice the leaf size fits the capacity.
THEOREM EntriesCorrect ==
  ASSUME BucketFits
  PROVE  CallsSpec => []EntriesMatchLive
<1>1. SpatialInv /\ LedgerInv => EntriesMatchLive
  BY EntriesMatch
<1> QED
  BY <1>1, CallsPartition, LedgerCorrect, PTL

\* Where twice the leaf size fits the 16 bits of a capacity, no push is refused, however
\* many leftovers a bucket has gathered: it is split before it is full.
THEOREM RoomCorrect ==
  ASSUME BucketFits
  PROVE  CallsSpec => []RoomToPush
<1>1. LedgerInv => RoomToPush
  BY DEF LedgerInv, Leads, RoomToPush
<1> QED
  BY <1>1, LedgerCorrect, PTL

\* The total counts never fall short of the entries below, on a tree of any size whose
\* buckets have room.
THEOREM TotalsCorrect ==
  ASSUME BucketFits
  PROVE  CallsSpec => []TotalsCover
<1>1. ASSUME SpatialInv, LedgerInv
      PROVE  TotalsCover
  <2>1. ASSUME NEW y \in Node(tree)
        PROVE  total[y] >= Cardinality(Under(tree, y))
    <3>1. Cardinality(Under(tree, y)) \in Nat
      BY <1>1, InvByNode, UnderLive
    <3> QED
      BY <1>1, <3>1 DEF LedgerInv, Tallied
  <2> QED
    BY <1>1, <2>1 DEF LedgerInv, Tallied, TotalsCover
<1> QED
  BY <1>1, CallsPartition, LedgerCorrect, PTL

(* Calls and records. *)

\* What a call can be.
Call ==
  [op    : {"none", "insert", "remove", "box_delete", "radius_crop"},
   used  : Nat,
   count : Nat]

\* Consuming an element keeps the call one, and counts what it clears.
LEMMA Consumed ==
  ASSUME call \in Call, NEW op, NEW k \in Nat, Consume(op, k)
  PROVE  call' \in Call /\ call.op = op /\ call'.op = op /\ call'.count = call.count + k
<1>1. call = [op |-> call.op, used |-> call.used, count |-> call.count]
      /\ call.op \in {"none", "insert", "remove", "box_delete", "radius_crop"}
      /\ call.used \in Nat /\ call.count \in Nat
  BY DEF Call
<1>2. call' = [op |-> call.op, used |-> call.used + 1, count |-> call.count + k]
  BY <1>1 DEF Consume
<1>3. call.used + 1 \in Nat /\ call.count + k \in Nat
  BY <1>1
<1> QED
  BY <1>1, <1>2, <1>3 DEF Consume, Call

\* A set of slots that has members counts for something.
LEMMA SomeSlots ==
  ASSUME NEW slots, slots \subseteq Slot
  PROVE  Cardinality(slots) \in Nat /\ (slots # {} => Cardinality(slots) > 0)
<1>1. IsFiniteSet(slots) /\ Cardinality(slots) \in Nat
  BY SlotsFinite
<1>2. slots # {} => Cardinality(slots) # 0
  BY <1>1, FS_EmptySet
<1> QED
  BY <1>1, <1>2

\* Records stand for nodes, and for something cleared in the call in progress.
RecordsInv ==
  /\ call \in Call
  /\ call.op = "none" => call = NoCall
  /\ NoStaleRecords
  /\ modified # {} => call.count > 0

\* A delete that records nodes has cleared something below them.
LEMMA RecordsCleared ==
  ASSUME RecordsInv, NEW op \in {"remove", "box_delete", "radius_crop"},
         NEW gone, gone \subseteq Slot, Consume(op, Cardinality(gone)),
         tree' = Without(tree, gone),
         NEW recorded \in SUBSET Node(tree), recorded # {} => gone # {},
         modified' = modified \cup recorded
  PROVE  RecordsInv'
<1>1. Cardinality(gone) \in Nat /\ (gone # {} => Cardinality(gone) > 0)
  BY SomeSlots
<1>2. call' \in Call /\ call'.op = op /\ call'.count = call.count + Cardinality(gone)
  BY <1>1, Consumed DEF RecordsInv
<1>3. Node(tree') = Node(tree)
  BY DEF Without, Node, Inner, Leaf
<1>4. call.count \in Nat
  BY DEF RecordsInv, Call
<1>5. modified' # {} => call'.count > 0
  <2>1. CASE gone # {}
    BY <1>1, <1>2, <1>4, <2>1
  <2>2. CASE gone = {}
    <3>1. modified' = modified
      BY <2>2
    <3> QED
      BY <1>1, <1>2, <1>4, <3>1 DEF RecordsInv
  <2> QED
    BY <2>1, <2>2
<1> QED
  BY <1>2, <1>3, <1>5 DEF RecordsInv, NoStaleRecords

\* Every step keeps them so.
LEMMA RecordsNext ==
  ASSUME SpatialInv, RecordsInv, [CallsNext]_callvars
  PROVE  RecordsInv'
<1>1. /\ call \in Call
      /\ call.op \in {"none", "insert"} => modified = {}
      /\ modified \subseteq Node(tree) /\ (modified # {} => call.count > 0)
  BY DEF RecordsInv, NoStaleRecords
<1>2. NoCall \in Call /\ NoCall.op = "none"
  BY DEF NoCall, Call
<1>3. ASSUME call' \in Call, call'.op = "none" => call' = NoCall, modified' = {}
      PROVE  RecordsInv'
  BY <1>3 DEF RecordsInv, NoStaleRecords
<1>4. ASSUME NEW op \in {"insert", "remove", "box_delete", "radius_crop"}, Begin(op)
      PROVE  RecordsInv'
  <2>1. call' = [op |-> op, used |-> 0, count |-> 0] /\ modified' = modified /\ call.op = "none"
    BY <1>4 DEF Begin, NoCall
  <2>2. call' \in Call /\ call'.op = op
    BY <2>1 DEF Call
  <2> QED
    BY <1>1, <1>3, <2>1, <2>2
<1>5. ASSUME NEW p, InsertDuplicate(p)
      PROVE  RecordsInv'
  <2>1. Consume("insert", 0) /\ modified' = modified
    BY <1>5 DEF InsertDuplicate
  <2>2. call' \in Call /\ call.op = "insert" /\ call'.op = "insert"
    BY <1>1, <2>1, Consumed
  <2> QED
    BY <1>1, <1>3, <2>1, <2>2
<1>6. ASSUME NEW i, NEW p, NEW x, InsertIntoNone(i, p) \/ InsertInto(i, p, x)
      PROVE  RecordsInv'
  <2>1. Consume("insert", 1) /\ (modified' = modified \/ modified' = {})
    BY <1>6 DEF InsertIntoNone, InsertInto
  <2>2. call' \in Call /\ call.op = "insert" /\ call'.op = "insert"
    BY <1>1, <2>1, Consumed
  <2> QED
    BY <1>1, <1>3, <2>1, <2>2
<1>7. ASSUME InsertReturn
      PROVE  RecordsInv'
  BY <1>1, <1>2, <1>3, <1>7 DEF InsertReturn, Return
<1>8. ASSUME NEW q, RemoveQuery(q)
      PROVE  RecordsInv'
  <2> DEFINE recorded == {y \in Inner(tree) : \E i \in Near(q) : OnRoute(tree, points[i], y)}
  <2>1. /\ Consume("remove", Cardinality(Near(q))) /\ tree' = Without(tree, Near(q))
        /\ modified' = modified \cup recorded
    BY <1>8 DEF RemoveQuery, Remove
  <2>2. Near(q) \subseteq Slot
    BY DEF Near, SpatialInv, TypeOK
  <2>3. recorded \in SUBSET Node(tree) /\ (recorded # {} => Near(q) # {})
    BY DEF Node
  <2> HIDE DEF recorded
  <2> QED
    BY <2>1, <2>2, <2>3, RecordsCleared
<1>9. ASSUME NEW op \in {"box_delete", "radius_crop"}, NEW g \in Deletes, Delete(op, g)
      PROVE  RecordsInv'
  <2> DEFINE gone == Gone(tree, cells, points, g)
  <2>1. /\ Consume(op, Cardinality(gone)) /\ tree' = Without(tree, gone)
        /\ modified' = modified \cup Recorded(g)
    BY <1>9 DEF Delete, DeleteRegion
  <2>2. gone \subseteq Slot
    BY GoneHit DEF SpatialInv, TypeOK
  <2>3. Recorded(g) \in SUBSET Node(tree) /\ (Recorded(g) # {} => gone # {})
    BY DEF Recorded
  <2> HIDE DEF gone
  <2> QED
    BY <2>1, <2>2, <2>3, RecordsCleared
<1>10. ASSUME NEW op, DeleteReturn(op)
       PROVE  RecordsInv'
  <2>1. call' = NoCall
    BY <1>10 DEF DeleteReturn, Return
  <2>2. modified' = {}
    BY <1>1, <1>10 DEF DeleteReturn
  <2> QED
    BY <1>2, <1>3, <2>1, <2>2
<1>11. ASSUME RebuildCall
       PROVE  RecordsInv'
  <2>1. call' = NoCall /\ modified = {} /\ (modified' = modified \/ modified' = {})
    BY <1>1, <1>11 DEF RebuildCall, NoCall
  <2> QED
    BY <1>2, <1>3, <2>1
<1>12. ASSUME UNCHANGED callvars
       PROVE  RecordsInv'
  BY <1>12 DEF callvars, vars, RecordsInv, NoStaleRecords
<1>13. ASSUME RemoveReturn \/ BoxDeleteReturn \/ RadiusCropReturn
       PROVE  RecordsInv'
  BY <1>10, <1>13 DEF RemoveReturn, BoxDeleteReturn, RadiusCropReturn
<1>14. ASSUME NEW b \in Boxes, BoxDelete(b)
       PROVE  RecordsInv'
  BY <1>9, <1>14, DeleteRegions DEF BoxDelete
<1>15. ASSUME NEW b \in Balls, RadiusCrop(b)
       PROVE  RecordsInv'
  BY <1>9, <1>15, DeleteRegions DEF RadiusCrop
<1> QED
  BY <1>4, <1>5, <1>6, <1>7, <1>8, <1>11, <1>12, <1>13, <1>14, <1>15 DEF CallsNext

\* Before any call there are none.
LEMMA RecordsInit ==
  ASSUME CallsInit
  PROVE  RecordsInv
BY DEF CallsInit, RecordsInv, NoStaleRecords, NoCall, Call

LEMMA RecordsInvCorrect == CallsSpec => []RecordsInv
<1>1. CallsInit => RecordsInv
  BY RecordsInit
<1>2. SpatialInv /\ RecordsInv /\ [CallsNext]_callvars => RecordsInv'
  BY RecordsNext
<1> QED
  BY <1>1, <1>2, CallsPartition, PTL DEF CallsSpec

\* The sweep at the end of a call never looks at a record of an earlier call, nor at one
\* of a node that is gone.
THEOREM RecordsCorrect == CallsSpec => []NoStaleRecords
<1>1. RecordsInv => NoStaleRecords
  BY DEF RecordsInv
<1> QED
  BY <1>1, RecordsInvCorrect, PTL

\* The variables keep their types: the maps have an entry per node, the counts are naturals.
THEOREM CallsTypeCorrect ==
  ASSUME BucketFits
  PROVE  CallsSpec => []CallsTypeOK
<1>1. LedgerInv /\ RecordsInv => CallsTypeOK
  BY DEF LedgerInv, RecordsInv, CallsTypeOK, Marks, Call
<1> QED
  BY <1>1, LedgerCorrect, RecordsInvCorrect, PTL

(* The discipline of stamps. *)

\* The entries in all buckets.
AllEntries == UNION {filled[x] : x \in Leaf(tree)}

\* Those after a rewrite were there, or are of live slots.
LEMMA RewrittenEntries ==
  ASSUME SpatialInv', NEW entries, NEW counts, NEW roots, Rewritten(entries, counts, roots),
         NEW old, \A x \in Leaf(tree') : ~ Beneath(roots, x) => entries[x] \subseteq old
  PROVE  AllEntries' \subseteq old \cup {Mark(i, stamp'[i]) : i \in live'}
<1>1. filled' = [x \in Leaf(tree') |->
                   IF Beneath(roots, x) THEN {Mark(i, stamp'[i]) : i \in tree'.buckets[x]}
                   ELSE entries[x]]
  BY DEF Rewritten
<1>2. ASSUME NEW x \in Leaf(tree'), NEW e \in filled'[x]
      PROVE  e \in old \cup {Mark(i, stamp'[i]) : i \in live'}
  <2>1. CASE Beneath(roots, x)
    <3>1. tree'.buckets[x] \subseteq live'
      BY InvByNodeAfter DEF TreeSound, LeafSound
    <3> QED
      BY <1>1, <1>2, <2>1, <3>1
  <2>2. CASE ~ Beneath(roots, x)
    BY <1>1, <1>2, <2>2
  <2> QED
    BY <2>1, <2>2
<1> QED
  BY <1>2 DEF AllEntries

\* Each live slot has its entry, and what is valid is the entry of a live slot.
LEMMA ValidEntries ==
  ASSUME LedgerInv, EntriesMatchLive
  PROVE  /\ \A i \in live : Mark(i, stamp[i]) \in AllEntries
         /\ \A e \in AllEntries : Current(e) => e.index \in live /\ e = Mark(e.index, stamp[e.index])
<1>1. \A i \in live : Mark(i, stamp[i]) \in AllEntries
  BY DEF EntriesMatchLive, AllEntries
<1>2. ASSUME NEW e \in AllEntries, Current(e)
      PROVE  e.index \in live /\ e = Mark(e.index, stamp[e.index])
  <2>1. e \in Marks
    BY DEF AllEntries, LedgerInv
  <2> QED
    BY <1>2, <2>1 DEF Current, Mark, Marks
<1> QED
  BY <1>1, <1>2

\* What a rebuild does to the entries, partial or not.
LEMMA DropsLeftovers ==
  ASSUME SpatialInv', LedgerInv, EntriesMatchLive, LedgerInv', EntriesMatchLive',
         UNCHANGED <<stamp, live>>,
         NEW roots, Rewritten(filled, total, roots),
         \A x \in Leaf(tree') : ~ Beneath(roots, x) => x \in Leaf(tree)
  PROVE  \E dropped \in SUBSET Stamps!Leftovers : Stamps!Drop(dropped)
<1>1. AllEntries' \subseteq AllEntries \cup {Mark(i, stamp'[i]) : i \in live'}
  <2>1. \A x \in Leaf(tree') : ~ Beneath(roots, x) => filled[x] \subseteq AllEntries
    BY DEF AllEntries
  <2> QED
    BY <2>1, RewrittenEntries
<1>2. AllEntries' \subseteq AllEntries
  BY <1>1, ValidEntries
<1>3. ASSUME NEW e \in AllEntries, Current(e)
      PROVE  e \in AllEntries'
  <2>1. \A i \in live' : Mark(i, stamp'[i]) \in AllEntries'
    BY DEF EntriesMatchLive, AllEntries
  <2> QED
    BY <1>3, <2>1, ValidEntries
<1> DEFINE dropped == AllEntries \ AllEntries'
<1>4. dropped \in SUBSET Stamps!Leftovers
  BY <1>3 DEF Stamps!Leftovers, Stamps!Valid, Current, AllEntries
<1>5. Stamps!Drop(dropped)
  <2>1. AllEntries' = AllEntries \ dropped
    BY <1>2
  <2> QED
    BY <2>1 DEF Stamps!Drop, AllEntries
<1> HIDE DEF dropped
<1> QED
  BY <1>4, <1>5 DEF Stamps!Drop

\* What an insertion does to them.
LEMMA FilesEntry ==
  ASSUME SpatialInv', LedgerInv, EntriesMatchLive, LedgerInv', EntriesMatchLive',
         NEW i \in Slot, HandOut(i), live' = live \cup {i},
         NEW entries, NEW counts, NEW roots, Rewritten(entries, counts, roots),
         \A x \in Leaf(tree') : ~ Beneath(roots, x) =>
           entries[x] \subseteq AllEntries \cup {Mark(i, stamp'[i])}
  PROVE  Stamps!Fill(i) \/ Stamps!Replace(i)
<1> DEFINE m == Mark(i, stamp'[i])
           steps == IF i \in live THEN 2 ELSE 1
<1>1. /\ stamp[i] + steps < GenMod /\ stamp' = [stamp EXCEPT ![i] = @ + steps]
      /\ stamp'[i] = stamp[i] + steps /\ \A j \in Slot : j # i => stamp'[j] = stamp[j]
  BY DEF HandOut, LedgerInv
<1>2. live \subseteq Slot /\ \A j \in live' : j # i => j \in live /\ stamp'[j] = stamp[j]
  BY <1>1 DEF SpatialInv, TypeOK
<1>3. AllEntries' \subseteq (AllEntries \cup {m}) \cup {Mark(j, stamp'[j]) : j \in live'}
  BY RewrittenEntries
<1>4. \A j \in live' : Mark(j, stamp'[j]) \in AllEntries'
  BY DEF EntriesMatchLive, AllEntries
<1> HIDE DEF m, steps
<1>5. m \in AllEntries'
  BY <1>4 DEF m
<1>6. AllEntries' \subseteq AllEntries \cup {m}
  <2>1. ASSUME NEW j \in live'
        PROVE  Mark(j, stamp'[j]) \in AllEntries \cup {m}
    BY <1>2, ValidEntries DEF m
  <2> QED
    BY <1>3, <2>1
<1>7. ASSUME NEW e \in AllEntries, Current(e), e.index # i
      PROVE  e \in AllEntries'
  <2>1. e.index \in live /\ e = Mark(e.index, stamp[e.index])
    BY <1>7, ValidEntries
  <2> QED
    BY <1>2, <1>4, <1>7, <2>1
<1> DEFINE dropped == AllEntries \ AllEntries'
<1>8. AllEntries' = (AllEntries \ dropped) \cup {m}
  BY <1>5, <1>6
<1>9. dropped \in SUBSET {e \in AllEntries : ~ Current(e) \/ e.index = i}
  BY <1>7
<1> HIDE DEF dropped
<1>10. Stamps!File(i, steps)
  <2>1. m = Stamps!Mark(i, stamp[i] + steps)
    BY <1>1 DEF m, Mark, Stamps!Mark
  <2>2. dropped \in SUBSET {e \in AllEntries : ~ Stamps!Valid(e) \/ e.index = i}
    BY <1>9 DEF Current, Stamps!Valid
  <2> QED
    BY <1>1, <1>8, <2>1, <2>2 DEF Stamps!File, AllEntries
<1> QED
  <2>1. CASE i \in live
    <3>1. Stamps!File(i, 2)
      BY <1>10, <2>1 DEF steps, Stamps!File
    <3> QED
      BY <2>1, <3>1 DEF Stamps!Replace
  <2>2. CASE i \notin live
    <3>1. Stamps!File(i, 1)
      BY <1>10, <2>2 DEF steps, Stamps!File
    <3> QED
      BY <2>2, <3>1 DEF Stamps!Fill
  <2> QED
    BY <2>1, <2>2

\* Every step files, frees or drops, or leaves stamps and entries alone.
LEMMA StampsStep ==
  ASSUME SpatialInv, LedgerInv, EntriesMatchLive, LedgerInv', EntriesMatchLive',
         [CallsNext]_callvars
  PROVE  [Stamps!Next]_(Stamps!vars)
<1>1. SpatialInv'
  BY CallsStep, InvNext
<1>2. live \subseteq Slot /\ Stamps!Slot = Slot
  BY DEF SpatialInv, TypeOK, Slot, Stamps!Slot
<1>3. ASSUME Idle
      PROVE  UNCHANGED Stamps!vars
  BY <1>3 DEF Idle, vars, Stamps!vars
<1>4. ASSUME NEW gone, Cleared(gone)
      PROVE  Stamps!Next
  <2>1. gone \cap live \in SUBSET live /\ live' = live \ (gone \cap live)
    BY <1>4 DEF Cleared
  <2>2. AllEntries' = AllEntries /\ stamp' = stamp
    BY <1>4 DEF Cleared, AllEntries, Without, Leaf
  <2>3. Stamps!Free(gone \cap live)
    BY <2>1, <2>2 DEF Stamps!Free, AllEntries
  <2> QED
    BY <2>1, <2>3 DEF Stamps!Next
<1>5. ASSUME NEW roots, Swept(roots)
      PROVE  Stamps!Next
  <2>1. UNCHANGED <<stamp, live>> /\ Rewritten(filled, total, roots)
    BY <1>5 DEF Swept, Sweep
  <2>2. \A x \in Leaf(tree') : ~ Beneath(roots, x) => x \in Leaf(tree)
    BY <1>5, Elsewhere DEF Swept, Sweep, SpatialInv, Node
  <2>3. \E dropped \in SUBSET Stamps!Leftovers : Stamps!Drop(dropped)
    BY <1>1, <2>1, <2>2, DropsLeftovers
  <2> QED
    BY <2>3 DEF Stamps!Next
<1>6. \A x \in Leaf(tree') : Beneath({<<>>}, x)
  <2>1. Node(tree') \subseteq Path
    BY <1>1, InvByNodeAfter, Slots DEF TreeSound
  <2> QED
    BY <2>1, AboveSame DEF Beneath, Node
<1>7. ASSUME RebuildCall
      PROVE  Stamps!Next
  <2>1. UNCHANGED <<stamp, live>> /\ Rewritten(filled, total, {<<>>})
    BY <1>7 DEF RebuildCall, RebuildAll
  <2>2. \E dropped \in SUBSET Stamps!Leftovers : Stamps!Drop(dropped)
    BY <1>1, <1>6, <2>1, DropsLeftovers
  <2> QED
    BY <2>2 DEF Stamps!Next
<1>8. ASSUME NEW i \in Slot, NEW p \in Point, InsertIntoNone(i, p)
      PROVE  Stamps!Next
  <2>1. HandOut(i) /\ live' = live \cup {i} /\ Rewritten(filled, total, {<<>>})
    BY <1>8 DEF InsertIntoNone, InsertFirst, Acquire
  <2> QED
    BY <1>1, <1>2, <1>6, <2>1, FilesEntry DEF Stamps!Next
<1>9. ASSUME NEW i \in Slot, NEW p \in Point, NEW x \in Leaf(tree), InsertInto(i, p, x)
      PROVE  Stamps!Next
  <2> DEFINE pushed == push(filled[x], Mark(i, stamp'[i]))
             roots == IF Full(pushed) THEN {x} ELSE {}
             entries == [filled EXCEPT ![x] = pushed]
             f == Filed(tree, i, p, x)
  <2>1. /\ HandOut(i) /\ live' = live \cup {i} /\ Rebuilt(f, tree', points', roots)
        /\ Rewritten(entries, Counted(x), roots) /\ OnRoute(tree, p, x)
    BY <1>9 DEF InsertInto, InsertPoint, Acquire
  <2>2. pushed \subseteq filled[x] \cup {Mark(i, stamp'[i])} /\ DOMAIN filled = Leaf(tree)
    BY DEF push, LedgerInv
  <2>3. Shaped(f) /\ Leaf(f) = Leaf(tree)
    <3>1. /\ points \in [Slot -> Point] /\ live \in SUBSET Slot
          /\ TreeSound(tree, points, live)
      BY InvByNode
    <3>2. TreeSound(f, [points EXCEPT ![i] = p], live \cup {i})
      BY <2>1, <3>1, FiledSound, ZenonT(30)
    <3>3. Leaf(f) = Leaf(tree)
      BY DEF Filed, Leaf
    <3> HIDE DEF f
    <3> QED
      BY <3>2, <3>3 DEF TreeSound
  <2> HIDE DEF pushed, roots, f
  <2>4. ASSUME NEW z \in Leaf(tree'), ~ Beneath(roots, z)
        PROVE  entries[z] \subseteq AllEntries \cup {Mark(i, stamp'[i])}
    <3>1. z \in Leaf(tree)
      BY <2>1, <2>3, <2>4, Elsewhere DEF Node
    <3> QED
      BY <2>2, <3>1 DEF AllEntries
  <2> HIDE DEF entries
  <2> QED
    BY <1>1, <1>2, <2>1, <2>4, FilesEntry DEF Stamps!Next
<1> QED
  BY <1>3, <1>4, <1>5, <1>7, <1>8, <1>9, Kinds, ClearKinds

\* Stamps and entries keep the discipline of StampedEntries, under which no live point is
\* lost and no leftover comes back to life, whichever leaf they move to, where twice the
\* leaf size fits the capacity.
THEOREM StampsImplemented ==
  ASSUME BucketFits
  PROVE  CallsSpec => ImplementsStamps
<1>1. CallsInit => Stamps!Init
  <2>1. ASSUME CallsInit
        PROVE  Leaf(tree) = {}
    BY <2>1 DEF CallsInit, Init, NoTree, Leaf
  <2> QED
    BY <2>1 DEF CallsInit, Init, Stamps!Init, Stamps!Slot, Slot
<1>2. /\ SpatialInv /\ LedgerInv /\ EntriesMatchLive
      /\ LedgerInv' /\ EntriesMatchLive' /\ [CallsNext]_callvars
      => [Stamps!Next]_(Stamps!vars)
  BY StampsStep
<1> QED
  BY <1>1, <1>2, CallsPartition, LedgerCorrect, EntriesCorrect, PTL
  DEF CallsSpec, ImplementsStamps, Stamps!Spec

(* The set of points. *)

\* What the client takes the tree for.
Members == {points[i] : i \in live}

\* It measures as the tree does.
LEMMA ClientGeometry ==
  /\ \A p, q : Client!sq_dist(p, q) = sq_dist(p, q)
  /\ \A b, p : Client!contains_point(b, p) <=> contains_point(b, p)
BY DEF Client!sq_dist, sq_dist, Client!Square, Square, Client!contains_point, contains_point,
       Client!Axis, Axis

\* And counts as it does.
LEMMA ClientCard == \A S : Client!Cardinality(S) = Cardinality(S)
BY DEF Client!Cardinality, Cardinality

\* Unless the resolution squared is 0, no two live slots hold the same point.
LEMMA OneSlotEach ==
  ASSUME SpatialInv, LivePointsApart, sq_resolution # 0
  PROVE  \A i, j \in live : points[i] = points[j] => i = j
<1>1. ASSUME NEW i \in live
      PROVE  sq_dist(points[i], points[i]) = 0
  <2>1. points[i][1] \in Int /\ points[i][2] \in Int
    BY PlaneAssumption DEF SpatialInv, TypeOK, Plane
  <2> QED
    BY <2>1 DEF sq_dist, Square
<1> QED
  BY <1>1, CallsAssumption DEF LivePointsApart

\* Different slots hold as many points as they are.
LEMMA ImageCard ==
  ASSUME NEW slots, slots \subseteq Slot, NEW pts,
         \A i, j \in slots : pts[i] = pts[j] => i = j
  PROVE  Cardinality({pts[i] : i \in slots}) = Cardinality(slots)
<1> DEFINE image == {pts[i] : i \in slots}
           f == [i \in slots |-> pts[i]]
<1>1. f \in Bijection(slots, image)
  <2>1. f \in [slots -> image] /\ \A i \in slots : f[i] = pts[i]
    OBVIOUS
  <2>2. \A m \in image : \E i \in slots : f[i] = m
    OBVIOUS
  <2> HIDE DEF f, image
  <2> QED
    BY <2>1, <2>2 DEF Bijection, Injection, Surjection, IsInjective
<1>2. IsFiniteSet(slots)
  BY SlotsFinite
<1> HIDE DEF f, image
<1>3. Cardinality(image) = Cardinality(slots)
  BY <1>1, <1>2, FS_Bijection DEF ExistsBijection
<1> QED
  BY <1>3 DEF image

\* Slots that are cleared take their points from the set, and are counted.
LEMMA PointsLeave ==
  ASSUME SpatialInv, LivePointsApart, sq_resolution # 0, call \in Call,
         NEW gone \in SUBSET live, NEW op, Consume(op, Cardinality(gone)),
         live' = live \ gone, points' = points
  PROVE  /\ call.op = op /\ call'.op = op
         /\ Members' = Members \ {points[i] : i \in gone}
         /\ call'.count = call.count + Cardinality({points[i] : i \in gone})
<1>1. live \subseteq Slot /\ gone \subseteq Slot
  BY DEF SpatialInv, TypeOK
<1>2. Cardinality(gone) \in Nat
  BY <1>1, SlotsFinite
<1>3. call.op = op /\ call'.op = op /\ call'.count = call.count + Cardinality(gone)
  BY <1>2, Consumed
<1>4. \A i, j \in live : points[i] = points[j] => i = j
  BY OneSlotEach
<1>5. Cardinality({points[i] : i \in gone}) = Cardinality(gone)
  BY <1>1, <1>4, ImageCard
<1>6. Members' = {points[i] : i \in live \ gone}
  BY DEF Members
<1>7. {points[i] : i \in live \ gone} = Members \ {points[i] : i \in gone}
  BY <1>4 DEF Members
<1> QED
  BY <1>3, <1>5, <1>6, <1>7

\* remove() and the spatial deletes take the points that the abstract calls do.
LEMMA LeaveSteps ==
  ASSUME SpatialInv, LivePointsApart, sq_resolution # 0, call \in Call
  PROVE  /\ \A q : RemoveQuery(q) => Client!Remove(q)
         /\ \A b \in Boxes : BoxDelete(b) => Client!BoxDelete(b)
         /\ \A b \in Balls : RadiusCrop(b) => Client!RadiusCrop(b)
<1>1. ASSUME NEW q, RemoveQuery(q)
      PROVE  Client!Remove(q)
  <2>1. /\ Near(q) \in SUBSET live /\ Consume("remove", Cardinality(Near(q)))
        /\ live' = live \ Near(q) /\ points' = points
    BY <1>1 DEF RemoveQuery, Remove, Near
  <2>2. {m \in Members : Client!sq_dist(m, q) < sq_resolution} = {points[i] : i \in Near(q)}
    BY ClientGeometry DEF Members, Near
  <2>3. /\ call.op = "remove" /\ call'.op = "remove"
        /\ Members' = Members \ {points[i] : i \in Near(q)}
        /\ call'.count = call.count + Cardinality({points[i] : i \in Near(q)})
    BY <2>1, PointsLeave
  <2> QED
    BY <2>2, <2>3, ClientCard DEF Client!Remove, Client!Leave, Members
<1>2. ASSUME NEW op, NEW g \in Deletes, Delete(op, g), NEW hit,
             hit = {m \in Members : Hits(g, m)}
      PROVE  /\ call.op = op /\ call'.op = op /\ Members' = Members \ hit
             /\ call'.count = call.count + Cardinality(hit)
  <2> DEFINE gone == Gone(tree, cells, points, g)
  <2>1. gone = {i \in live : Hits(g, points[i])}
    BY GoneHit, HitGone
  <2>2. /\ Consume(op, Cardinality(gone)) /\ live' = live \ gone /\ points' = points
    BY <1>2 DEF Delete, DeleteRegion
  <2> HIDE DEF gone
  <2>3. gone \in SUBSET live /\ hit = {points[i] : i \in gone}
    BY <1>2, <2>1 DEF Members
  <2>4. /\ call.op = op /\ call'.op = op
        /\ Members' = Members \ {points[i] : i \in gone}
        /\ call'.count = call.count + Cardinality({points[i] : i \in gone})
    BY <2>2, <2>3, PointsLeave
  <2> QED
    BY <2>3, <2>4
<1>3. ASSUME NEW b \in Boxes, BoxDelete(b)
      PROVE  Client!BoxDelete(b)
  <2> DEFINE hit == {m \in Members : Client!contains_point(b, m)}
  <2>1. hit = {m \in Members : Hits(BoxRegion(b), m)}
    BY ClientGeometry DEF Hits, BoxRegion
  <2>2. Delete("box_delete", BoxRegion(b)) /\ BoxRegion(b) \in Deletes
    BY <1>3, DeleteRegions DEF BoxDelete
  <2> HIDE DEF hit
  <2>3. /\ call.op = "box_delete" /\ call'.op = "box_delete" /\ Members' = Members \ hit
        /\ call'.count = call.count + Cardinality(hit)
    BY <1>2, <2>1, <2>2
  <2> QED
    BY <2>3, ClientCard DEF Client!BoxDelete, Client!Leave, Members, hit
<1>4. ASSUME NEW b \in Balls, RadiusCrop(b)
      PROVE  Client!RadiusCrop(b)
  <2> DEFINE hit == {m \in Members : Client!sq_dist(m, b.center) > b.sq_radius}
             g == OutsideBall(b.center, b.sq_radius)
  <2>1. hit = {m \in Members : Hits(g, m)}
    BY ClientGeometry DEF Hits, OutsideBall
  <2>2. Delete("radius_crop", g) /\ g \in Deletes
    BY <1>4, DeleteRegions DEF RadiusCrop
  <2> HIDE DEF hit, g
  <2>3. /\ call.op = "radius_crop" /\ call'.op = "radius_crop" /\ Members' = Members \ hit
        /\ call'.count = call.count + Cardinality(hit)
    BY <1>2, <2>1, <2>2
  <2> QED
    BY <2>3, ClientCard DEF Client!RadiusCrop, Client!Leave, Members, hit
<1> QED
  BY <1>1, <1>3, <1>4

\* insert() adds the point, at the expense of one other point at most, when all slots are
\* taken, or turns it away.
LEMMA InsertSteps ==
  ASSUME SpatialInv, LivePointsApart, sq_resolution # 0, call \in Call, NEW p \in Point
  PROVE  /\ \A i \in Slot : \/ InsertIntoNone(i, p)
                            \/ \E x \in Leaf(tree) : InsertInto(i, p, x)
                            => Client!Insert(p)
         /\ InsertDuplicate(p) => Client!Reject(p)
<1>1. /\ points \in [Slot -> Point] /\ live \subseteq Slot
      /\ \A i, j \in live : points[i] = points[j] => i = j
  BY OneSlotEach DEF SpatialInv, TypeOK
<1>2. Cardinality(Members) = Cardinality(live)
  BY <1>1, ImageCard DEF Members
<1>3. IsFiniteSet(Slot) /\ Cardinality(Slot) = Capacity
  <2>1. Capacity - 1 \in Int /\ 0 <= Capacity - 1 /\ (Capacity - 1) - 0 + 1 = Capacity
    BY CapacityAssumption
  <2> QED
    BY <2>1, FS_Interval DEF Slot
<1>4. ASSUME NEW i \in Slot, Near(p) = {}, Consume("insert", 1), HandOut(i), Acquire(i, p)
      PROVE  Client!Insert(p)
  <2>1. /\ call.op = "insert" /\ call'.op = "insert" /\ call'.count = call.count + 1
    BY <1>4, Consumed
  <2>2. \A m \in Members : sq_dist(m, p) >= sq_resolution
    <3>1. ASSUME NEW j \in live
          PROVE  sq_dist(points[j], p) >= sq_resolution
      <4>1. sq_dist(points[j], p) \in Nat
        BY <1>1, PlaneAssumption, SqDistType
      <4>2. ~ (sq_dist(points[j], p) < sq_resolution)
        BY <1>4 DEF Near
      <4> QED
        BY <4>1, <4>2, CallsAssumption
    <3> QED
      BY <3>1 DEF Members
  <2>3. Members' = {points[j] : j \in live \ {i}} \cup {p}
    <3>1. live' = live \cup {i} /\ points' = [points EXCEPT ![i] = p]
      BY <1>4 DEF Acquire
    <3>2. points'[i] = p /\ \A j \in live \ {i} : points'[j] = points[j]
      BY <1>1, <3>1
    <3>3. Members' = {points'[j] : j \in live'}
      BY DEF Members
    <3> QED
      BY <3>1, <3>2, <3>3
  <2>4. CASE i \in live
    <3>1. live = Slot
      BY <1>4, <2>4 DEF HandOut
    <3>2. ~ (Cardinality(Members) < Capacity)
      BY <1>2, <1>3, <3>1, CapacityAssumption
    <3>3. points[i] \in Members /\ Members' = (Members \ {points[i]}) \cup {p}
      BY <1>1, <2>3, <2>4 DEF Members
    <3> QED
      BY <2>1, <2>2, <3>2, <3>3, ClientGeometry, ClientCard DEF Client!Insert, Members
  <2>5. CASE i \notin live
    <3>1. Cardinality(live) < Cardinality(Slot)
      <4>1. live # Slot
        BY <2>5
      <4>2. /\ Cardinality(live) <= Cardinality(Slot)
            /\ Cardinality(live) = Cardinality(Slot) => live = Slot
        BY <1>1, <1>3, FS_Subset
      <4>3. Cardinality(live) \in Nat /\ Cardinality(Slot) \in Nat
        BY <1>1, SlotsFinite
      <4> QED
        BY <4>1, <4>2, <4>3
    <3>2. Cardinality(Members) < Capacity
      BY <1>2, <1>3, <3>1
    <3>3. Members' = Members \cup {p}
      <4>1. live \ {i} = live
        BY <2>5
      <4> QED
        BY <2>3, <4>1 DEF Members
    <3> QED
      BY <2>1, <2>2, <3>2, <3>3, ClientGeometry, ClientCard DEF Client!Insert, Members
  <2> QED
    BY <2>4, <2>5
<1>5. ASSUME NEW i \in Slot, InsertIntoNone(i, p)
      PROVE  Client!Insert(p)
  BY <1>4, <1>5 DEF InsertIntoNone, InsertFirst
<1>6. ASSUME NEW i \in Slot, NEW x \in Leaf(tree), InsertInto(i, p, x)
      PROVE  Client!Insert(p)
  BY <1>4, <1>6 DEF InsertInto, InsertPoint
<1>7. ASSUME InsertDuplicate(p)
      PROVE  Client!Reject(p)
  <2>1. Near(p) # {} /\ Consume("insert", 0) /\ UNCHANGED <<points, live>>
    BY <1>7 DEF InsertDuplicate, vars
  <2>2. /\ call.op = "insert" /\ call'.op = "insert" /\ call'.count = call.count + 0
    BY <2>1, Consumed
  <2>3. call'.count = call.count
    BY <2>2 DEF Call
  <2>4. \E m \in Members : sq_dist(m, p) < sq_resolution
    BY <2>1 DEF Near, Members
  <2>5. Members' = Members
    BY <2>1 DEF Members
  <2> QED
    BY <2>2, <2>3, <2>4, <2>5, ClientGeometry DEF Client!Reject, Client!vars, Members
<1> QED
  BY <1>5, <1>6, <1>7

\* Whatever the tree looks like, an element of a batch does what the abstract call does.
LEMMA ElementsStep ==
  ASSUME SpatialInv, LivePointsApart, sq_resolution # 0, call \in Call
  PROVE  ElementsMatch
BY InsertSteps, LeaveSteps DEF ElementsMatch

\* And the beginning and the end of a call, sweep included, do nothing else.
LEMMA PointsStep ==
  ASSUME SpatialInv, LivePointsApart, sq_resolution # 0, RecordsInv,
         [CallsNext]_callvars
  PROVE  [Client!Next]_(Client!vars)
<1>1. ElementsMatch /\ call \in Call
  BY ElementsStep DEF RecordsInv
<1>2. ASSUME UNCHANGED <<points, live>>
      PROVE  Members' = Members
  BY <1>2 DEF Members
<1>3. ASSUME NEW op \in {"insert", "remove", "box_delete", "radius_crop"}, Begin(op)
      PROVE  Client!Next
  <2>1. call = NoCall /\ call' = [NoCall EXCEPT !.op = op] /\ Members' = Members
    BY <1>2, <1>3 DEF Begin, RecordsInv, vars
  <2>2. call.op = "none" /\ call'.op = op /\ call'.count = call.count
    BY <2>1 DEF NoCall
  <2>3. Client!Begin(op)
    BY <2>1, <2>2 DEF Client!Begin, Members
  <2> QED
    BY <2>3 DEF Client!Next
<1>4. ASSUME NEW op, Return(op), UNCHANGED <<points, live>>
      PROVE  Client!Next
  <2>1. call' = NoCall /\ Members' = Members
    BY <1>2, <1>4 DEF Return
  <2>2. Client!Return
    BY <2>1 DEF Client!Return, Members, NoCall
  <2> QED
    BY <2>2 DEF Client!Next
<1>5. ASSUME NEW reached, SweepOver(reached)
      PROVE  UNCHANGED <<points, live>>
  BY <1>5 DEF SweepOver, Sweep
<1>6. ASSUME InsertReturn
      PROVE  Client!Next
  <2>1. Return("insert") /\ UNCHANGED <<points, live>>
    BY <1>5, <1>6 DEF InsertReturn, vars
  <2> QED
    BY <1>4, <2>1
<1>7. ASSUME RemoveReturn \/ BoxDeleteReturn \/ RadiusCropReturn
      PROVE  Client!Next
  <2>1. PICK op : DeleteReturn(op)
    BY <1>7 DEF RemoveReturn, BoxDeleteReturn, RadiusCropReturn
  <2>2. Return(op) /\ UNCHANGED <<points, live>>
    BY <1>5, <2>1 DEF DeleteReturn, vars
  <2> QED
    BY <1>4, <2>2
<1>8. ASSUME NEW p \in Point
      PROVE  InsertDuplicate(p) \/ RemoveQuery(p) => Client!Next
  BY <1>1 DEF ElementsMatch, Client!Next
<1>9. ASSUME NEW i \in Slot, NEW p \in Point,
             InsertIntoNone(i, p) \/ \E x \in Leaf(tree) : InsertInto(i, p, x)
      PROVE  Client!Next
  BY <1>1, <1>9 DEF ElementsMatch, Client!Next
<1>10. ASSUME NEW b \in Boxes, BoxDelete(b)
       PROVE  Client!Next
  BY <1>1, <1>10 DEF ElementsMatch, Client!Next
<1>11. ASSUME NEW b \in Balls, RadiusCrop(b)
       PROVE  Client!Next
  BY <1>1, <1>11 DEF ElementsMatch, Client!Next
<1>12. ASSUME RebuildCall \/ UNCHANGED callvars
       PROVE  UNCHANGED Client!vars
  <2>1. call' = call /\ UNCHANGED <<points, live>>
    BY <1>12 DEF RebuildCall, RebuildAll, callvars, vars
  <2>2. Members' = Members
    BY <1>2, <2>1
  <2> QED
    BY <2>1, <2>2 DEF Client!vars, Members
<1> QED
  BY <1>3, <1>6, <1>7, <1>8, <1>9, <1>10, <1>11, <1>12 DEF CallsNext

\* To its client the tree is a set of points, whatever its constants, its size and its
\* history: each call adds or removes exactly the points it should and returns their
\* number.  The resolution squared must not have come out as 0, and entries must find room,
\* or the searches that duplicates and removals go by would miss points.
THEOREM PointSetImplemented ==
  ASSUME BucketFits, sq_resolution # 0
  PROVE  CallsSpec => ImplementsPointSet
<1>1. CallsInit => Client!Init
  BY DEF CallsInit, Init, NoCall, Client!Init
<1>2. SpatialInv /\ LivePointsApart /\ RecordsInv /\ [CallsNext]_callvars
      => [Client!Next]_(Client!vars)
  BY PointsStep
<1>3. SpatialInv /\ LivePointsApart /\ RecordsInv => ElementsMatch
  BY ElementsStep DEF RecordsInv
<1> QED
  BY <1>1, <1>2, <1>3, CallsPartition, ApartCorrect, RecordsInvCorrect, PTL
  DEF CallsSpec, ImplementsPointSet, Client!Spec

(* The balance. *)

\* alpha leaves room for the larger half of a node that is just built.
AlphaFits == \A n \in Nat : n > leaf_bucket_size => (n - n \div 2) * alpha[2] <= alpha[1] * n

\* Smaller children balance no worse.
LEMMA FewerBalance ==
  ASSUME NEW n \in Nat, NEW a \in Nat, NEW b \in Nat, NEW c \in Nat, NEW d \in Nat,
         c <= a, d <= b, ~ (n # 0 /\ Upper(a, b) * alpha[2] > alpha[1] * n)
  PROVE  ~ (n # 0 /\ Upper(c, d) * alpha[2] > alpha[1] * n)
<1> DEFINE m == Upper(a, b)
           k == Upper(c, d)
           q == alpha[2]
           r == alpha[1] * n
<1>1. m \in Nat /\ k \in Nat /\ k <= m
  BY DEF Upper
<1>2. q \in Nat /\ alpha[1] \in Nat
  BY CallsAssumption
<1>3. r \in Int
  BY <1>2
<1> HIDE DEF m, k, q, r
<1>4. k * q <= m * q
  BY <1>1, <1>2
<1>5. k * q \in Int /\ m * q \in Int
  BY <1>1, <1>2
<1>6. ~ (n # 0 /\ m * q > r) => ~ (n # 0 /\ k * q > r)
  BY <1>3, <1>4, <1>5
<1> QED
  BY <1>6 DEF m, k, q, r

\* Halves balance.
LEMMA HalvesBalance ==
  ASSUME AlphaFits, NEW n \in Nat, n > leaf_bucket_size
  PROVE  /\ n \div 2 \in Nat /\ n - n \div 2 \in Nat
         /\ ~ (n # 0 /\ Upper(n \div 2, n - n \div 2) * alpha[2] > alpha[1] * n)
<1>1. n \div 2 \in Nat /\ n - n \div 2 \in Nat /\ n \div 2 <= n - n \div 2
  OBVIOUS
<1>2. Upper(n \div 2, n - n \div 2) = n - n \div 2
  BY <1>1 DEF Upper
<1>3. (n - n \div 2) * alpha[2] <= alpha[1] * n
  BY DEF AlphaFits
<1> DEFINE h == n - n \div 2
<1>4. h * alpha[2] \in Int /\ alpha[1] * n \in Int
  BY <1>1, CallsAssumption
<1> QED
  BY <1>1, <1>2, <1>3, <1>4

\* A node that is just built is balanced, and its children with it.
LEMMA BuiltBalanced ==
  ASSUME AlphaFits, NEW t, NEW pts, NEW slots \in SUBSET Slot, TreeSound(t, pts, slots),
         NEW y \in Inner(t), BuiltHere(t, pts, y), NEW counts,
         \A z \in {y, Left(y), Right(y)} : counts[z] = Cardinality(Under(t, z))
  PROVE  ~ (counts[y] # 0 /\ Upper(counts[Left(y)], counts[Right(y)]) * alpha[2]
                                > alpha[1] * counts[y])
<1> DEFINE n == Cardinality(Under(t, y))
<1>1. y \notin Leaf(t)
  BY DEF TreeSound, Shaped
<1>2. /\ ~ (n <= leaf_bucket_size)
      /\ Cardinality(Under(t, Left(y))) = n \div 2
      /\ Under(t, Right(y)) = Under(t, y) \ Under(t, Left(y))
  BY <1>1 DEF BuiltHere
<1>3. /\ n \in Nat /\ IsFiniteSet(Under(t, y)) /\ Under(t, Left(y)) \subseteq Under(t, y)
  BY UnderLive, Slots DEF TreeSound
<1>4. Cardinality(Under(t, Right(y))) = n - n \div 2
  <2>1. /\ IsFiniteSet(Under(t, Left(y))) /\ IsFiniteSet(Under(t, Right(y)))
        /\ Cardinality(Under(t, Right(y))) \in Nat
    BY UnderLive
  <2>2. /\ Under(t, Left(y)) \cap Under(t, Right(y)) = {}
        /\ Under(t, y) = Under(t, Left(y)) \cup Under(t, Right(y))
    BY <1>2, <1>3
  <2>3. n = Cardinality(Under(t, Left(y))) + Cardinality(Under(t, Right(y)))
    BY <2>1, <2>2, CardSplit
  <2> HIDE DEF n
  <2> QED
    BY <1>2, <1>3, <2>1, <2>3
<1> HIDE DEF n
<1>5. n > leaf_bucket_size
  BY <1>2, <1>3, CallsAssumption
<1>6. counts[y] = n /\ counts[Left(y)] = n \div 2 /\ counts[Right(y)] = n - n \div 2
  BY <1>2, <1>4 DEF n
<1> QED
  BY <1>3, <1>5, <1>6, HalvesBalance

\* What is beneath a node that is beneath some nodes is beneath them.
LEMMA BeneathChildren ==
  ASSUME NEW t, Shaped(t), NEW y \in Inner(t), NEW roots, roots \subseteq Path, Beneath(roots, y)
  PROVE  Beneath(roots, Left(y)) /\ Beneath(roots, Right(y))
<1>1. y \in Path
  BY Slots DEF Node
<1>2. PICK r \in roots : Above(r, y)
  BY DEF Beneath
<1>3. Above(r, Left(y)) /\ Above(r, Right(y))
  BY <1>1, <1>2, Children
<1> QED
  BY <1>3 DEF Beneath

\* Every violator is rebuilt, with the topmost one above it if not by itself.
LEMMA TopmostAbove ==
  ASSUME NEW nodes, nodes \subseteq Path, NEW y \in nodes
  PROVE  Beneath(Topmost(nodes), y)
<1> DEFINE T == {z \in nodes : Above(z, y)}
<1>1. T \subseteq Path /\ T # {}
  BY AboveSame
<1>2. PICK x \in T : \A z \in T : Len(x) <= Len(z)
  <2> HIDE DEF T
  <2> QED
    BY <1>1, Shortest
<1>3. x \in nodes /\ Above(x, y) /\ x \in Path
  OBVIOUS
<1>4. ASSUME NEW z \in nodes, Above(z, x)
      PROVE  z = x
  <2>1. z \in Path /\ Above(z, y)
    BY <1>3, <1>4, AboveTrans
  <2>2. Len(x) <= Len(z) /\ Len(z) \in Nat /\ Len(x) \in Nat
    BY <1>2, <1>3, <1>4, <2>1, LenProperties DEF Path
  <2>3. z # x => Len(z) < Len(x)
    BY <1>3, <1>4, <2>1, AboveShorter
  <2> QED
    BY <2>2, <2>3
<1> QED
  BY <1>3, <1>4 DEF Topmost, Beneath

\* No node is out of balance.
Balanced == \A y \in Inner(tree) : ~ Unbalanced(y)

\* A sweep restores the balance, if it rebuilds at least the nodes that are out of it.
LEMMA SweptBalanced ==
  ASSUME AlphaFits, SpatialInv, SpatialInv', LedgerInv,
         NEW violators \in SUBSET Inner(tree), Swept(Topmost(violators)),
         \A y \in Inner(tree) : Unbalanced(y) => y \in violators
  PROVE  Balanced'
<1> DEFINE roots == Topmost(violators)
<1>1. /\ Shaped(tree) /\ Node(tree) \subseteq Path
      /\ live' \in SUBSET Slot /\ TreeSound(tree', points', live')
      /\ Shaped(tree') /\ Node(tree') \subseteq Path
  BY InvByNode, InvByNodeAfter, Slots DEF TreeSound
<1>2. /\ Rebuilt(tree, tree', points', roots) /\ Rewritten(filled, total, roots)
      /\ roots \subseteq violators /\ violators \subseteq Path /\ roots \in SUBSET Node(tree)
      /\ roots \subseteq Path
  <2>1. roots \subseteq violators /\ violators \subseteq Path /\ roots \in SUBSET Node(tree)
    BY <1>1 DEF Topmost, Node
  <2> QED
    BY <2>1 DEF Swept, Sweep
<1>3. \A y \in violators : Beneath(roots, y)
  BY <1>2, TopmostAbove
<1> HIDE DEF roots
<1>4. \A y \in Node(tree') :
        total'[y] = IF Beneath(roots, y) THEN Cardinality(Under(tree', y)) ELSE total[y]
  BY <1>2 DEF Rewritten
<1>5. ASSUME NEW y \in Inner(tree')
      PROVE  ~ (total'[y] # 0 /\ Upper(total'[Left(y)], total'[Right(y)]) * alpha[2]
                                    > alpha[1] * total'[y])
  <2>1. /\ y \in Node(tree') /\ Left(y) \in Node(tree') /\ Right(y) \in Node(tree')
        /\ y \in Path /\ Left(y) \in Path /\ Right(y) \in Path
    BY <1>1 DEF Shaped, Node
  <2>2. CASE Beneath(roots, y)
    <3>1. BuiltHere(tree', points', y)
      BY <1>2, <2>1, <2>2 DEF Beneath, Rebuilt, BuiltFrom
    <3>2. Beneath(roots, Left(y)) /\ Beneath(roots, Right(y))
      BY <1>1, <1>2, <2>2, BeneathChildren
    <3>3. \A z \in {y, Left(y), Right(y)} : total'[z] = Cardinality(Under(tree', z))
      BY <1>4, <2>1, <2>2, <3>2
    <3> QED
      BY <1>1, <3>1, <3>3, BuiltBalanced
  <2>3. CASE ~ Beneath(roots, y)
    <3>1. y \in Inner(tree) /\ Left(y) \in Node(tree) /\ Right(y) \in Node(tree)
      <4>1. y \in Inner(tree)
        BY <1>1, <1>2, <2>1, <2>3, Elsewhere
      <4> QED
        BY <1>1, <4>1 DEF Shaped
    <3>2. ~ (total[y] # 0 /\ Upper(total[Left(y)], total[Right(y)]) * alpha[2]
                                > alpha[1] * total[y])
      BY <1>3, <2>3, <3>1 DEF Unbalanced
    <3>3. ASSUME NEW z \in {Left(y), Right(y)}
          PROVE  total[z] \in Nat /\ total'[z] \in Nat /\ total'[z] <= total[z]
      <4>1. total[z] \in Nat /\ Cardinality(Under(tree, z)) <= total[z]
        BY <3>1 DEF LedgerInv, Tallied
      <4>2. CASE ~ Beneath(roots, z)
        BY <1>4, <2>1, <4>1, <4>2
      <4>3. CASE Beneath(roots, z)
        <5>1. ASSUME NEW r \in roots, Above(r, z)
              PROVE  r = z
          <6>1. r \in Path
            BY <1>2
          <6>2. r = z \/ Above(r, y)
            BY <2>1, <5>1, <6>1, Children
          <6> QED
            BY <2>3, <6>2 DEF Beneath
        <5>2. Under(tree', z) = Under(tree, z)
          BY <1>1, <1>2, <2>1, <5>1, UnderKept
        <5>3. Cardinality(Under(tree', z)) \in Nat
          BY <1>1, UnderLive
        <5> QED
          BY <1>4, <2>1, <4>1, <4>3, <5>2, <5>3
      <4> QED
        BY <4>2, <4>3
    <3>4. total'[y] = total[y] /\ total[y] \in Nat
      BY <1>4, <2>1, <2>3, <3>1 DEF LedgerInv, Tallied, Node
    <3> QED
      BY <3>2, <3>3, <3>4, FewerBalance
  <2> QED
    BY <2>2, <2>3
<1> QED
  BY <1>5 DEF Balanced, Unbalanced

\* So does building everything anew.
LEMMA RebuiltBalanced ==
  ASSUME AlphaFits, SpatialInv', RebuildCall
  PROVE  Balanced'
<1>1. /\ live' \in SUBSET Slot /\ TreeSound(tree', points', live')
      /\ Shaped(tree') /\ Node(tree') \subseteq Path
  BY InvByNodeAfter, Slots DEF TreeSound
<1>2. \A y \in Node(tree') : total'[y] = Cardinality(Under(tree', y))
  <2>1. \A y \in Node(tree') : Beneath({<<>>}, y)
    BY <1>1, AboveSame DEF Beneath
  <2> QED
    BY <2>1 DEF RebuildCall, Rewritten
<1>3. ASSUME NEW y \in Inner(tree')
      PROVE  ~ (total'[y] # 0 /\ Upper(total'[Left(y)], total'[Right(y)]) * alpha[2]
                                    > alpha[1] * total'[y])
  <2>1. y \in Node(tree') /\ Left(y) \in Node(tree') /\ Right(y) \in Node(tree')
    BY <1>1 DEF Shaped, Node
  <2>2. BuiltHere(tree', points', y)
    <3>1. BuildAll
      BY DEF RebuildCall, RebuildAll, NoTree, Inner
    <3> QED
      BY <1>1, <2>1, <3>1, AboveSame DEF BuildAll, BuiltFrom
  <2> QED
    BY <1>1, <1>2, <2>1, <2>2, BuiltBalanced
<1> QED
  BY <1>3 DEF Balanced, Unbalanced

\* Every step keeps the tree balanced, unless it inserts a point.
LEMMA BalanceNext ==
  ASSUME AlphaFits, SpatialInv, SpatialInv', LedgerInv, RecordsInv, StaysBalanced,
         [CallsNext]_callvars
  PROVE  StaysBalanced'
<1>1. /\ call \in Call /\ call.count \in Nat
      /\ (call.op = "insert" => call.count = 0) => Balanced
  BY DEF RecordsInv, Call, StaysBalanced, Balanced
<1>2. Balanced' => StaysBalanced'
  BY DEF StaysBalanced, Balanced
<1>3. ASSUME UNCHANGED <<total, tree>>
      PROVE  Balanced => Balanced'
  BY <1>3 DEF Balanced, Unbalanced, Inner
<1>4. ASSUME NEW gone, Cleared(gone)
      PROVE  Balanced => Balanced'
  <2>1. total' = total /\ Inner(tree') = Inner(tree)
    BY <1>4 DEF Cleared, Without, Inner
  <2> QED
    BY <2>1 DEF Balanced, Unbalanced
<1>5. ASSUME NEW op \in {"insert", "remove", "box_delete", "radius_crop"}, Begin(op)
      PROVE  StaysBalanced'
  <2>1. call.op = "none" /\ UNCHANGED <<total, tree>>
    BY <1>5 DEF Begin, vars
  <2> QED
    BY <1>1, <1>2, <1>3, <2>1
<1>6. ASSUME NEW p, InsertDuplicate(p)
      PROVE  StaysBalanced'
  <2>1. Consume("insert", 0) /\ UNCHANGED <<total, tree>>
    BY <1>6 DEF InsertDuplicate, vars
  <2>2. call'.op = "insert" /\ call'.count = call.count
    BY <1>1, <2>1, Consumed
  <2>3. (call'.op = "insert" => call'.count = 0) => Balanced
    BY <1>1, <2>2
  <2> QED
    BY <1>3, <2>1, <2>3 DEF StaysBalanced, Balanced
<1>7. ASSUME NEW i, NEW p, NEW x, InsertIntoNone(i, p) \/ InsertInto(i, p, x)
      PROVE  StaysBalanced'
  <2>1. call'.op = "insert" /\ call'.count = call.count + 1
    BY <1>1, <1>7, Consumed DEF InsertIntoNone, InsertInto
  <2>2. call'.count # 0
    BY <1>1, <2>1
  <2> QED
    BY <2>1, <2>2 DEF StaysBalanced
<1>8. ASSUME NEW reached \in SUBSET Inner(tree), SweepOver(reached), UNCHANGED stamp,
             Balanced \/ reached = Inner(tree)
      PROVE  Balanced'
  <2>1. PICK violators \in SUBSET Inner(tree) :
          /\ \A y \in reached : Unbalanced(y) => y \in violators
          /\ Swept(Topmost(violators))
    BY <1>8, SweepOverSwept
  <2>2. \A y \in Inner(tree) : Unbalanced(y) => y \in violators
    BY <1>8, <2>1 DEF Balanced
  <2> QED
    BY <2>1, <2>2, SweptBalanced
<1>9. ASSUME InsertReturn
      PROVE  StaysBalanced'
  <2>1. CASE call.count > 0
    <3>1. SweepOver(Inner(tree)) /\ UNCHANGED stamp
      BY <1>9, <2>1 DEF InsertReturn
    <3> QED
      BY <1>2, <1>8, <3>1
  <2>2. CASE ~ (call.count > 0)
    <3>1. UNCHANGED <<total, tree>>
      BY <1>9, <2>2 DEF InsertReturn, vars
    <3>2. call.count = 0
      BY <1>1, <2>2
    <3> QED
      BY <1>1, <1>2, <1>3, <3>1, <3>2
  <2> QED
    BY <2>1, <2>2
<1>10. ASSUME NEW op \in {"remove", "box_delete", "radius_crop"}, DeleteReturn(op)
       PROVE  StaysBalanced'
  <2>1. call.op = op /\ UNCHANGED stamp
    BY <1>10 DEF DeleteReturn, Return
  <2>2. Balanced
    BY <1>1, <2>1
  <2>3. UNCHANGED <<total, tree>> \/ \E reached \in {Inner(tree), Reached} : SweepOver(reached)
    BY <1>10 DEF DeleteReturn, vars
  <2>4. Reached \subseteq Inner(tree)
    BY DEF Reached
  <2> QED
    BY <1>2, <1>3, <1>8, <2>1, <2>2, <2>3, <2>4
<1>11. ASSUME NEW gone, Cleared(gone), call.op # "insert"
       PROVE  StaysBalanced'
  BY <1>1, <1>2, <1>4, <1>11
<1>12. ASSUME NEW q, RemoveQuery(q)
       PROVE  StaysBalanced'
  <2>1. Cleared(Near(q)) /\ call.op = "remove"
    BY <1>12, ClearKinds DEF RemoveQuery, Consume
  <2> QED
    BY <1>11, <2>1
<1>13. ASSUME NEW op \in {"box_delete", "radius_crop"}, NEW g, Delete(op, g)
       PROVE  StaysBalanced'
  <2>1. Cleared(Gone(tree, cells, points, g)) /\ call.op = op
    BY <1>13, ClearKinds DEF Delete, Consume
  <2> QED
    BY <1>11, <2>1
<1>14. ASSUME NEW b \in Boxes, BoxDelete(b)
       PROVE  StaysBalanced'
  BY <1>13, <1>14 DEF BoxDelete
<1>15. ASSUME NEW b \in Balls, RadiusCrop(b)
       PROVE  StaysBalanced'
  BY <1>13, <1>15 DEF RadiusCrop
<1>16. ASSUME RemoveReturn \/ BoxDeleteReturn \/ RadiusCropReturn
       PROVE  StaysBalanced'
  BY <1>10, <1>16 DEF RemoveReturn, BoxDeleteReturn, RadiusCropReturn
<1>17. ASSUME RebuildCall
       PROVE  StaysBalanced'
  BY <1>2, <1>17, RebuiltBalanced
<1>18. ASSUME UNCHANGED callvars
       PROVE  StaysBalanced'
  BY <1>18 DEF callvars, vars, StaysBalanced, Unbalanced
<1> QED
  BY <1>5, <1>6, <1>7, <1>9, <1>12, <1>14, <1>15, <1>16, <1>17, <1>18 DEF CallsNext

\* Between calls no child counts more than alpha of its parent, on a tree of any size and
\* after any calls, provided that alpha leaves room for the halves of a fresh split and
\* buckets for their entries.
THEOREM BalanceCorrect ==
  ASSUME BucketFits, AlphaFits
  PROVE  CallsSpec => []StaysBalanced
<1>1. CallsInit => StaysBalanced
  BY DEF CallsInit, Init, NoTree, Inner, StaysBalanced
<1>2. /\ SpatialInv /\ SpatialInv' /\ LedgerInv /\ RecordsInv
      /\ StaysBalanced /\ [CallsNext]_callvars
      => StaysBalanced'
  BY BalanceNext
<1> QED
  BY <1>1, <1>2, CallsPartition, LedgerCorrect, RecordsInvCorrect, PTL DEF CallsSpec

=============================================================================
