--------------------------- MODULE MCSearchSteps ----------------------------
(***************************************************************************)
(* A TLC instance of the search: every tree that building from a set of    *)
(* slots, and then inserting points, can make.                             *)
(***************************************************************************)
EXTENDS SearchSteps, FiniteSetsExt

CONSTANTS
  leaf_bucket_size, alpha, tombstone_threshold, CountMod, BucketMod, Batches

\* No tree is deleted from.
Builder == INSTANCE FlatTrees WITH Boxes <- {}, Balls <- {}

P(x, y) == <<x, y>>

Origin == P(0, 0)

Quarter == <<1, 4>>

Alpha == <<7, 10>>

\* A dense row along the x axis, split on x again and again, with a tie at its start.
Row6 == {P(0, 0), P(0, 2), P(1, 0), P(2, 0), P(3, 0), P(5, 0)}

\* The points to build from, in the order of their slots, those inserted after, and
\* the slots then released.  A full store evicts: of the points it loses, leftovers
\* stay in the buckets.
SomeBatches ==
  { [build |-> <<P(0, 0), P(0, 2), P(1, 0), P(2, 0), P(3, 0), P(5, 0)>>,
     insert |-> <<>>, release |-> {0}],
    [build |-> <<P(3, 0), P(5, 0), P(1, 0), P(0, 0), P(0, 2), P(2, 0)>>,
     insert |-> <<P(3, 0), P(5, 0)>>, release |-> {}],
    [build |-> <<P(0, 0)>>, insert |-> <<P(0, 2), P(3, 0), P(5, 0)>>, release |-> {1}],
    [build |-> <<>>, insert |-> <<>>, release |-> {}] }

SomeQueries == {P(0, 0), P(2, 1), P(-1, 3), P(6, 0)}

-----------------------------------------------------------------------------

RECURSIVE Filled(_, _)
Filled(s, points) ==
  IF points = <<>> THEN s ELSE Filled(Acquired(s, Head(points)), Tail(points))

RECURSIVE Inserted(_, _, _)
Inserted(s, n, points) ==
  IF points = <<>> THEN {<<s, n>>}
  ELSE LET t == Acquired(s, Head(points))
       IN  UNION {Inserted(t, g.node, Tail(points)) :
                    g \in Builder!insert_index(t, n, AcquiredSlot(s))}

Emptied(s, slots) == FoldSet(LAMBDA i, t : Released(t, i), s, slots)

Grown(batch) ==
  LET s == Filled(NewStore, batch.build)
  IN  IF batch.build = <<>> THEN {Builder!NoTree(s, INVALID)}
      ELSE {Builder!FlatTree(Emptied(x[1], batch.release), x[2]) :
              x \in UNION {Inserted(s, n, batch.insert) :
                             n \in Builder!build_recursive(s, LiveSlots(s))}}

SomeTrees == UNION {Grown(b) : b \in Batches}

=============================================================================
