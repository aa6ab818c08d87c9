---------------------------- MODULE MCTreeCalls -----------------------------
(***************************************************************************)
(* A TLC instance of the calls on the partition.  The actions say which    *)
(* trees may come next; here the trees are constructed that TLC tries them *)
(* on.  Of the free slots the first is handed out.                         *)
(***************************************************************************)
EXTENDS TreeCalls, FiniteSetsExt, TLC

CONSTANTS
  MaxBatch,  \* bound on the elements of a batch
  MaxTotal   \* bound on the root's count of insertions since it was built

P(x, y) == <<x, y>>

Origin == P(0, 0)

Box(x1, y1, x2, y2) == [min_corner |-> P(x1, y1), max_corner |-> P(x2, y2)]

Ball(x, y, r2) == [center |-> P(x, y), sq_radius |-> r2]

\* The default configuration's 0.7.
Alpha == <<7, 10>>

\* Five points, of which two pairs tie on the x axis and one pair is close.
Five == {P(0, 0), P(0, 2), P(2, 0), P(3, 0), P(2, 2)}

\* A box with one of them, and an inverted box.
SomeBoxes == {Box(0, 0, 1, 1), Box(2, 2, 0, 0)}

\* A ball with one of them on its border, one that keeps one, and one that keeps none.
SomeBalls == {Ball(0, 0, 4), Ball(0, 0, 0), Ball(9, 9, 4)}

-----------------------------------------------------------------------------

Hull(pts, slots) == FoldSet(LAMBDA i, b : expand(b, pts[i]), EmptyBox, slots)

\* The trees below y that may be built of some slots.
RECURSIVE Built(_, _, _)
Built(pts, slots, y) ==
  IF Cardinality(slots) <= leaf_bucket_size
  THEN {[planes |-> <<>>, buckets |-> y :> slots, boxes |-> y :> Hull(pts, slots)]}
  ELSE UNION {LET split == Min({pts[j][a] : j \in slots \ low})
              IN  { [ planes  |-> (y :> [split_dim |-> a, split_value |-> split])
                                    @@ l.planes @@ r.planes,
                      buckets |-> l.buckets @@ r.buckets,
                      boxes   |-> l.boxes @@ r.boxes ] :
                    l \in Built(pts, low, Left(y)), r \in Built(pts, slots \ low, Right(y)) } :
              a \in Axis, low \in kSubset(Cardinality(slots) \div 2, slots)}

\* t with the subtree at r built anew.
Grafted(t, pts, r) ==
  LET Kept(f) == [z \in {y \in DOMAIN f : ~ Above(r, y)} |-> f[z]]
  IN  { [ planes  |-> b.planes @@ Kept(t.planes),
          buckets |-> b.buckets @@ Kept(t.buckets),
          boxes   |-> b.boxes @@ Kept(t.boxes) ] : b \in Built(pts, Under(t, r), r) }

RECURSIVE Cell(_, _, _)
Cell(t, box, y) ==
  IF y = <<>> THEN box
  ELSE LET up    == SubSeq(y, 1, Len(y) - 1)
           plane == t.planes[up]
       IN  IF y = Left(up)
           THEN LeftCell(Cell(t, box, up), plane.split_dim, plane.split_value)
           ELSE RightCell(Cell(t, box, up), plane.split_dim, plane.split_value)

Becomes(u, box) ==
  /\ tree' = u
  /\ cells' = [y \in Node(u) |-> Cell(u, box, y)]

\* The trees after rebuilds at some nodes, none of them below another.
RECURSIVE GraftedAll(_, _, _)
GraftedAll(t, pts, roots) ==
  IF roots = {} THEN {t}
  ELSE LET r == CHOOSE z \in roots : TRUE
       IN  UNION {GraftedAll(u, pts, roots \ {r}) : u \in Grafted(t, pts, r)}

\* Where acquire() may put the next point.
Handed == IF live = Slot THEN Slot ELSE {Min(Slot \ live)}

InBatch == call.used < MaxBatch

TryInsertIntoNone(i, p) ==
  /\ InBatch
  /\ \E u \in Built([points EXCEPT ![i] = p], {i}, <<>>) :
       Becomes(u, expand(EmptyBox, p)) /\ InsertIntoNone(i, p)

TryInsertInto(i, p) ==
  /\ InBatch
  /\ tree # NoTree => total[<<>>] < MaxTotal
  /\ \E x \in {z \in Leaf(tree) : OnRoute(tree, p, z)} :
       LET filed == Filed(tree, i, p, x)
       IN  \E u \in {filed} \cup Grafted(filed, [points EXCEPT ![i] = p], x) :
             Becomes(u, expand(cells[<<>>], p)) /\ InsertInto(i, p, x)

\* The roots are those of one of the rebuilds that the action allows.
TryReturn(Action) ==
  \/ /\ call.count > 0
     /\ \E roots \in SUBSET Inner(tree) :
          /\ roots = Topmost(roots)
          /\ \E u \in GraftedAll(tree, points, roots) : Becomes(u, cells[<<>>]) /\ Action
  \/ call.count = 0 /\ Action

TryRebuildCall ==
  \E u \in IF live = {} THEN {NoTree} ELSE Built(points, live, <<>>) :
    Becomes(u, Hull(points, live)) /\ RebuildCall

TryNext ==
  \/ \E op \in {"insert", "remove", "box_delete", "radius_crop"} : Begin(op)
  \/ \E p \in Point : InBatch /\ InsertDuplicate(p)
  \/ \E i \in Handed, p \in Point : TryInsertIntoNone(i, p) \/ TryInsertInto(i, p)
  \/ TryReturn(InsertReturn)
  \/ \E q \in Point : InBatch /\ RemoveQuery(q)
  \/ TryReturn(RemoveReturn)
  \/ \E b \in Boxes : InBatch /\ BoxDelete(b)
  \/ TryReturn(BoxDeleteReturn)
  \/ \E b \in Balls : RadiusCrop(b)
  \/ TryReturn(RadiusCropReturn)
  \/ TryRebuildCall

TrySpec == CallsInit /\ [][TryNext]_callvars

\* Two states that differ in the numbering of slots, in the values of stamps or in which
\* slot a leftover entry was for behave alike.
View ==
  << tree.planes, [x \in Leaf(tree) |-> {points[i] : i \in tree.buckets[x]}], tree.boxes, cells,
     [x \in Leaf(tree) |-> Cardinality(filled[x])], total, modified, call >>

=============================================================================
