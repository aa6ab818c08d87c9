----------------------------- MODULE TreeCalls ------------------------------
(***************************************************************************)
(* The calls of the tree (kd_tree_impl.cpp) on the partition of            *)
(* SpatialTree: a step per element of a batch and one for the partial      *)
(* rebuild at its end, on trees and batches of every size.                 *)
(*                                                                         *)
(* Beside the partition there are the entries the buckets really hold,     *)
(* leftovers included, the total counts and the records of modified nodes. *)
(* Counters do not wrap.  The live counts are left out: which nodes have   *)
(* too many tombstones is arbitrary.  So are the order of evictions, and   *)
(* whether a delete has made enough records for a sweep of the whole tree. *)
(* The partition takes every entry to find room; where twice the leaf size *)
(* does not fit the capacity's field that is not so (RoomToPush).          *)
(***************************************************************************)
EXTENDS SpatialTree

CONSTANTS
  sq_resolution,  \* Config::resolution squared: closer points are duplicates
  alpha,          \* Config, a fraction <<numerator, denominator>>
  BucketMod       \* bucket capacities are kept modulo this; 2^16 in the code

ASSUME CallsAssumption ==
  /\ leaf_bucket_size \in Nat \ {0}
  /\ sq_resolution \in Nat
  /\ alpha \in Nat \X (Nat \ {0})
  /\ BucketMod \in Nat \ {0}

VARIABLES
  stamp,     \* generations_
  filled,    \* the entries in the bucket of each leaf
  total,     \* subtree_total_count of each node
  modified,  \* modified_nodes_, as a set of paths
  call       \* the call in progress: its name, elements used and running count

callvars == <<vars, stamp, filled, total, modified, call>>

NoCall == [op |-> "none", used |-> 0, count |-> 0]

CallsInit ==
  /\ Init
  /\ stamp = [i \in Slot |-> 0]
  /\ filled = <<>>
  /\ total = <<>>
  /\ modified = {}
  /\ call = NoCall

\* The entry written for slot i when it carries the stamp g.
Mark(i, g) == [index |-> i, gen |-> g]

\* The test every scan of a bucket makes before it uses an entry.
Current(e) == e.gen = stamp[e.index] /\ e.index \in live

-----------------------------------------------------------------------------
(* Calls and their elements.                                               *)

Begin(op) ==
  /\ call.op = "none"
  /\ call' = [NoCall EXCEPT !.op = op]
  /\ UNCHANGED <<vars, stamp, filled, total, modified>>

\* Fault: the count of the last element is returned.
ConsumeLast(op, k) ==
  /\ call.op = op
  /\ call' = [call EXCEPT !.used = @ + 1, !.count = k]

\* The next element of the batch, which adds k to the count the call returns.
Consume(op, k) ==
  /\ call.op = op
  /\ call' = [call EXCEPT !.used = @ + 1, !.count = @ + k]

Return(op) ==
  /\ call.op = op
  /\ call' = NoCall

\* Fault: a duplicate is looked for where the point would be inserted.
NearOnRoute(p) ==
  {i \in UNION {tree.buckets[x] : x \in {z \in Leaf(tree) : OnRoute(tree, p, z)}} :
     sq_dist(points[i], p) < sq_resolution}

\* The live slots within the resolution of p: what any_within() and
\* collect_indices_within() look for, and find on these trees (SearchSteps).
Near(p) == {i \in live : sq_dist(points[i], p) < sq_resolution}

\* The subtrees at `roots` are rebuilt: their nodes count what is below them and their
\* buckets hold nothing else.  Elsewhere there are the entries and counts given.
Rewritten(entries, counts, roots) ==
  /\ filled' = [x \in Leaf(tree') |->
                  IF Beneath(roots, x) THEN {Mark(i, stamp'[i]) : i \in tree'.buckets[x]}
                  ELSE entries[x]]
  /\ total' = [y \in Node(tree') |->
                 IF Beneath(roots, y) THEN Cardinality(Under(tree', y)) ELSE counts[y]]

-----------------------------------------------------------------------------
(* insert().                                                               *)

InsertDuplicate(p) ==
  /\ Near(p) # {}
  /\ Consume("insert", 0)
  /\ UNCHANGED <<vars, stamp, filled, total, modified>>

\* Fault: a free slot is handed out again with the stamp it had.
HandOutUnstamped(i) ==
  LET steps == IF i \in live THEN 2 ELSE 0
  IN  /\ i \in live => live = Slot
      /\ stamp[i] + steps < GenMod
      /\ stamp' = [stamp EXCEPT ![i] = @ + steps]

\* Fault: what is evicted is not stamped.
HandOutOnce(i) ==
  /\ i \in live => live = Slot
  /\ stamp[i] + 1 < GenMod
  /\ stamp' = [stamp EXCEPT ![i] = @ + 1]

\* acquire() hands out slot i and stamps it: a free one, or one that it evicts because
\* all are taken, which is stamped twice.
HandOut(i) ==
  LET steps == IF i \in live THEN 2 ELSE 1
  IN  /\ i \in live => live = Slot
      /\ stamp[i] + steps < GenMod
      /\ stamp' = [stamp EXCEPT ![i] = @ + steps]

InsertIntoNone(i, p) ==
  /\ Near(p) = {}
  /\ Consume("insert", 1)
  /\ HandOut(i)
  /\ InsertFirst(i, p)
  /\ Rewritten(filled, total, {<<>>})
  /\ modified' = {}

\* What a leaf has room for: twice its size, cut to the width of the field.
bucket_capacity == (2 * leaf_bucket_size) % BucketMod

\* Fault: a bucket is full when an entry does not fit.
FullTooLate(bucket) == Cardinality(bucket) > bucket_capacity

Full(bucket) == Cardinality(bucket) = bucket_capacity

\* LeafBucket::push(): a full bucket refuses the entry.
push(bucket, e) == IF Full(bucket) THEN bucket ELSE bucket \cup {e}

\* Fault: the descent counts from the root's child on.
CountedBelowRoot(x) ==
  [y \in Node(tree) |-> IF Above(y, x) /\ y # <<>> THEN total[y] + 1 ELSE total[y]]

\* Every node on the way to x counts the point.
Counted(x) == [y \in Node(tree) |-> IF Above(y, x) THEN total[y] + 1 ELSE total[y]]

\* The leaf x takes the entry, and is rebuilt when that fills it.
InsertInto(i, p, x) ==
  LET pushed == push(filled[x], Mark(i, stamp'[i]))
      roots  == IF Full(pushed) THEN {x} ELSE {}
  IN  /\ Near(p) = {}
      /\ Consume("insert", 1)
      /\ HandOut(i)
      /\ InsertPoint(i, p, x, roots)
      /\ Rewritten([filled EXCEPT ![x] = pushed], Counted(x), roots)
      /\ UNCHANGED modified

-----------------------------------------------------------------------------
(* The partial rebuild.                                                    *)

Unbalanced(y) ==
  /\ total[y] # 0
  /\ Upper(total[Left(y)], total[Right(y)]) * alpha[2] > alpha[1] * total[y]

\* Fault: those that are not above another.
Lowest(nodes) == {y \in nodes : \A z \in nodes : Above(y, z) => z = y}

\* Those of some nodes that are not below another.
Topmost(nodes) == {y \in nodes : \A z \in nodes : Above(z, y) => z = y}

\* A sweep that looks at the nodes `reached`, from the root down, rebuilds those that are
\* out of balance or have too many tombstones, and enters none of the rebuilt subtrees.
\* The second look at a node comes once its children are done.
SweepOver(reached) ==
  \E violators \in SUBSET reached :
    /\ \A y \in reached : Unbalanced(y) => y \in violators
    /\ Sweep(Topmost(violators))
    /\ Rewritten(filled, total, Topmost(violators))

InsertReturn ==
  /\ Return("insert")
  /\ UNCHANGED stamp
  /\ IF call.count > 0
     THEN modified' = {} /\ SweepOver(Inner(tree))
     ELSE UNCHANGED <<vars, filled, total, modified>>

\* The nodes that a scoped sweep comes to: below the root, recorded ones only.
Reached ==
  {y \in Inner(tree) : \A z \in Node(tree) : Above(z, y) /\ z # <<>> => z \in modified}

\* Fault: the records outlive the sweep.
DeleteReturnKeepsRecords(op) ==
  /\ Return(op)
  /\ UNCHANGED <<stamp, modified>>
  /\ IF call.count = 0 \/ modified = {} THEN UNCHANGED <<vars, filled, total>>
     ELSE \E reached \in {Inner(tree), Reached} : SweepOver(reached)

\* maybe_partial_rebuild(), if the call has cleared something.
DeleteReturn(op) ==
  /\ Return(op)
  /\ UNCHANGED stamp
  /\ IF call.count = 0 THEN UNCHANGED <<vars, filled, total, modified>>
     ELSE /\ modified' = {}
          /\ IF modified = {} THEN UNCHANGED <<vars, filled, total>>
             ELSE \E reached \in {Inner(tree), Reached} : SweepOver(reached)

-----------------------------------------------------------------------------
(* remove(), box_delete(), radius_crop().                                  *)

\* Each match is tombstoned, which records the inner nodes on its route, and released.
RemoveQuery(q) ==
  /\ Consume("remove", Cardinality(Near(q)))
  /\ Remove(Near(q))
  /\ modified' =
       modified \cup {y \in Inner(tree) : \E i \in Near(q) : OnRoute(tree, points[i], y)}
  /\ UNCHANGED <<stamp, filled, total>>

RemoveReturn == DeleteReturn("remove")

\* The descent records the nodes it clears something below: those it swallows, and inner
\* ones.
Recorded(g) ==
  {y \in Node(tree) : /\ Entered(tree, cells, g, y)
                      /\ Under(tree, y) \cap Gone(tree, cells, points, g) # {}
                      /\ Swallows(g, cells[y]) \/ y \in Inner(tree)}

Delete(op, g) ==
  /\ Consume(op, Cardinality(Gone(tree, cells, points, g)))
  /\ DeleteRegion(g)
  /\ modified' = modified \cup Recorded(g)
  /\ UNCHANGED <<stamp, filled, total>>

BoxDelete(b) == Delete("box_delete", BoxRegion(b))

BoxDeleteReturn == DeleteReturn("box_delete")

RadiusCrop(b) ==
  /\ call.used = 0
  /\ Delete("radius_crop", OutsideBall(b.center, b.sq_radius))

RadiusCropReturn ==
  /\ call.used = 1
  /\ DeleteReturn("radius_crop")

-----------------------------------------------------------------------------

\* rebuild_all(), which leaves the records alone when the store is empty.
RebuildCall ==
  /\ call = NoCall
  /\ UNCHANGED <<stamp, call>>
  /\ RebuildAll
  /\ Rewritten(filled, total, {<<>>})
  /\ modified' = IF live = {} THEN modified ELSE {}

CallsNext ==
  \/ \E op \in {"insert", "remove", "box_delete", "radius_crop"} : Begin(op)
  \/ \E p \in Point : InsertDuplicate(p)
  \/ \E i \in Slot, p \in Point :
       InsertIntoNone(i, p) \/ \E x \in Leaf(tree) : InsertInto(i, p, x)
  \/ InsertReturn
  \/ \E q \in Point : RemoveQuery(q)
  \/ RemoveReturn
  \/ \E b \in Boxes : BoxDelete(b)
  \/ BoxDeleteReturn
  \/ \E b \in Balls : RadiusCrop(b)
  \/ RadiusCropReturn
  \/ RebuildCall

CallsSpec == CallsInit /\ [][CallsNext]_callvars

-----------------------------------------------------------------------------
(* Properties.                                                             *)

CallsTypeOK ==
  /\ stamp \in [Slot -> 0 .. (GenMod - 1)]
  /\ filled \in [Leaf(tree) -> SUBSET [index : Slot, gen : 0 .. (GenMod - 1)]]
  /\ total \in [Node(tree) -> Nat]
  /\ call \in [op    : {"none", "insert", "remove", "box_delete", "radius_crop"},
               used  : Nat,
               count : Nat]

\* No two live points are duplicates of each other, whatever was evicted while a
\* batch was being checked against the tree.
LivePointsApart ==
  \A i, j \in live : i # j => sq_dist(points[i], points[j]) >= sq_resolution

\* No record of a modified node outlives the call that made it, and while it lasts it
\* names a node of the tree: the sweep never reads a stale one.
NoStaleRecords ==
  /\ call.op \in {"none", "insert"} => modified = {}
  /\ modified \subseteq Node(tree)

\* What passes the staleness test in a bucket are the live slots that belong there, and
\* each live slot has one such entry, in one leaf: the stamps tell the leftovers from
\* the contents, half-way through a batch too.
EntriesMatchLive ==
  /\ \A x \in Leaf(tree) : {e.index : e \in {f \in filled[x] : Current(f)}} = tree.buckets[x]
  /\ \A i \in live : \E x \in Leaf(tree) : \A z \in Leaf(tree) :
       Mark(i, stamp[i]) \in filled[z] <=> z = x

\* LeafBucket::push() always has room: a bucket that fills up is split in the same step,
\* however many stale entries it has gathered.
RoomToPush == \A x \in Leaf(tree) : Cardinality(filled[x]) < bucket_capacity

\* The node totals count at least the entries below: a leaf's total is the size of its
\* bucket, an inner node's at least the sum of its children's, and no node counts fewer
\* than its live points.
TotalsCover ==
  /\ \A x \in Leaf(tree) : total[x] = Cardinality(filled[x])
  /\ \A y \in Inner(tree) : total[y] >= total[Left(y)] + total[Right(y)]
  /\ \A y \in Node(tree) : total[y] >= Cardinality(Under(tree, y))

\* Only an insertion can unbalance a node, and the call that made it restores the balance
\* before it returns: deletes and what they rebuild, all or part, never leave a node of
\* which one child counts more than alpha of the total.
StaysBalanced ==
  (call.op = "insert" => call.count = 0) => \A y \in Inner(tree) : ~ Unbalanced(y)

\* The set of points the tree stands for.
Client ==
  INSTANCE PointSet WITH
    members <- {points[i] : i \in live},
    op      <- call.op,
    count   <- call.count

\* What each element of a batch does is what the abstract call does for that very
\* element: a delete that clears nothing must have had nothing to clear.
ElementsMatch ==
  /\ \A p \in Point :
       /\ \A i \in Slot : \/ InsertIntoNone(i, p)
                          \/ \E x \in Leaf(tree) : InsertInto(i, p, x)
                          => Client!Insert(p)
       /\ InsertDuplicate(p) => Client!Reject(p)
       /\ RemoveQuery(p) => Client!Remove(p)
  /\ \A b \in Boxes : BoxDelete(b) => Client!BoxDelete(b)
  /\ \A b \in Balls : RadiusCrop(b) => Client!RadiusCrop(b)

\* Every call adds and removes exactly the points its documentation says, and returns
\* their number, whatever tree it finds; nothing else, a sweep or a rebuild, changes the
\* set.
ImplementsPointSet == Client!Spec /\ [][ElementsMatch]_callvars

\* The stamps and the entries of all leaves keep the discipline of StampedEntries: each
\* step files, frees or drops as it allows.
Stamps == INSTANCE StampedEntries WITH entries <- UNION {filled[x] : x \in Leaf(tree)}

ImplementsStamps == Stamps!Spec

=============================================================================
