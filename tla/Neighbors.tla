----------------------------- MODULE Neighbors ------------------------------
(***************************************************************************)
(* What the searches (search_kernel.cpp) look at in a node, the trees they *)
(* are right on, and what they should find.                                *)
(***************************************************************************)
EXTENDS BucketEntries, FiniteSets

\* The child on the query's side of the split plane, and the other one.
NearChild(n, query) == IF query[n.split_dim] < n.split_value THEN n.left ELSE n.right

FarChild(n, query) == IF query[n.split_dim] < n.split_value THEN n.right ELSE n.left

\* Fault: a bound that is too large, so that the far child is skipped too early.
DoublePlaneDist(n, query) == 2 * Square(query[n.split_dim] - n.split_value)

\* Squared distance from the query to the split plane.
PlaneDist(n, query) == Square(query[n.split_dim] - n.split_value)

-----------------------------------------------------------------------------
(* A tree, given by the store, the nodes, which name their children, and    *)
(* the root.  `below`, which the code does not keep, is the set of the live *)
(* slots under each node.                                                   *)

\* Every entry of a leaf is one that some insertion may have written.
LeafCollects(t, x) ==
  /\ t.nodes[x].bucket \subseteq [index : Slot, gen : 0 .. (GenMod - 1)]
  /\ t.below[x] = ValidSlots(t.store, t.nodes[x].bucket)

\* The children share out the live slots of their parent, and the split plane lies
\* between them: points on it may be on either side.
SplitSeparates(t, x) ==
  LET n == t.nodes[x]
  IN  /\ {n.left, n.right} \subseteq DOMAIN t.nodes
      /\ n.split_dim \in Axis /\ n.split_value \in Int
      /\ t.below[x] = t.below[n.left] \cup t.below[n.right]
      /\ t.below[n.left] \cap t.below[n.right] = {}
      /\ \A i \in t.below[n.left] : t.store.points[i][n.split_dim] <= n.split_value
      /\ \A i \in t.below[n.right] : n.split_value <= t.store.points[i][n.split_dim]

\* What the searches rely on.  A tree that has never held a point has no root.
Searchable(t, no_root) ==
  /\ t.store \in Store
  /\ t.below \in [DOMAIN t.nodes -> SUBSET LiveSlots(t.store)]
  /\ IF t.root = no_root THEN LiveSlots(t.store) = {}
     ELSE t.root \in DOMAIN t.nodes /\ t.below[t.root] = LiveSlots(t.store)
  /\ \A x \in DOMAIN t.nodes :
       /\ t.nodes[x].is_leaf \in BOOLEAN
       /\ IF t.nodes[x].is_leaf THEN LeafCollects(t, x) ELSE SplitSeparates(t, x)

-----------------------------------------------------------------------------
(* The definitions the searches are measured against.                      *)

\* The live slots strictly within a radius of a query.
Within(s, query, sq_radius) ==
  {i \in LiveSlots(s) : sq_dist(s.points[i], query) < sq_radius}

\* A set of heap entries is k nearest of the live slots within the radius: it
\* holds k of them, or all when there are fewer, at their distances, and none
\* left out is nearer than one taken.
Nearest(s, query, k_max, sq_radius, heap) ==
  LET close == Within(s, query, sq_radius)
      taken == {e.index : e \in heap}
  IN  /\ taken \subseteq close
      /\ Cardinality(heap) = Cardinality(taken)
      /\ Cardinality(taken) = Lower(k_max, Cardinality(close))
      /\ \A e \in heap : e.sq_dist = sq_dist(s.points[e.index], query)
      /\ \A e \in heap, j \in close \ taken : e.sq_dist <= sq_dist(s.points[j], query)

=============================================================================
