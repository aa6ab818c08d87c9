---------------------------- MODULE SearchKernel ----------------------------
(***************************************************************************)
(* The searches (search_kernel.cpp), each as a function of a tree.         *)
(***************************************************************************)
EXTENDS TreeBuilder, Neighbors

RECURSIVE any_within(_, _, _, _)
any_within(s, n, query, sq_radius) ==
  IF n.is_leaf
  THEN \E i \in ValidSlots(s, n.bucket) : sq_dist(s.points[i], query) < sq_radius
  ELSE \/ any_within(s, NearChild(n, query), query, sq_radius)
       \/ /\ PlaneDist(n, query) < sq_radius
          /\ any_within(s, FarChild(n, query), query, sq_radius)

RECURSIVE collect_indices_within(_, _, _, _)
collect_indices_within(s, n, query, sq_radius) ==
  IF n.is_leaf
  THEN {i \in ValidSlots(s, n.bucket) : sq_dist(s.points[i], query) < sq_radius}
  ELSE collect_indices_within(s, NearChild(n, query), query, sq_radius)
         \cup IF PlaneDist(n, query) < sq_radius
              THEN collect_indices_within(s, FarChild(n, query), query, sq_radius)
              ELSE {}

-----------------------------------------------------------------------------
(* search(): a bounded heap of the nearest slots met so far, and worst, the *)
(* distance a slot must stay below to enter it.                            *)

\* The heap, which grows slot by slot and drops its farthest one when it holds
\* more than k_max.
RECURSIVE Offer(_, _, _, _, _)
Offer(s, slots, query, k_max, found) ==
  IF slots = {} THEN found
  ELSE LET i == CHOOSE j \in slots : TRUE
           d == sq_dist(s.points[i], query)
           heap == found.heap \cup {[sq_dist |-> d, index |-> i]}
           top == CHOOSE e \in heap : \A f \in heap : f.sq_dist <= e.sq_dist
           kept == IF Cardinality(heap) > k_max THEN heap \ {top} ELSE heap
           worst == IF Cardinality(heap) >= k_max
                    THEN Max({e.sq_dist : e \in kept})
                    ELSE found.worst
       IN  Offer(s, slots \ {i}, query, k_max,
                 IF d >= found.worst THEN found ELSE [heap |-> kept, worst |-> worst])

\* Fault: crossing a second plane on an axis adds to the first instead of
\* replacing it.
RECURSIVE descend_adding(_, _, _, _, _, _, _)
descend_adding(s, n, query, k_max, found, axis_dist, min_dist) ==
  IF n.is_leaf
  THEN Offer(s, ValidSlots(s, n.bucket), query, k_max, found)
  ELSE LET near    == descend_adding(s, NearChild(n, query), query, k_max, found,
                                     axis_dist, min_dist)
           far_min == min_dist + PlaneDist(n, query)
       IN  IF far_min < near.worst
           THEN descend_adding(s, FarChild(n, query), query, k_max, near, axis_dist, far_min)
           ELSE near

\* `axis_dist` is the squared distance from the query to the cell along each
\* axis, and `min_dist` their sum: the bound under which the far child is entered.
RECURSIVE descend(_, _, _, _, _, _, _)
descend(s, n, query, k_max, found, axis_dist, min_dist) ==
  IF n.is_leaf
  THEN Offer(s, ValidSlots(s, n.bucket), query, k_max, found)
  ELSE LET near    == descend(s, NearChild(n, query), query, k_max, found, axis_dist, min_dist)
           far_min == min_dist - axis_dist[n.split_dim] + PlaneDist(n, query)
       IN  IF far_min < near.worst
           THEN descend(s, FarChild(n, query), query, k_max, near,
                        [axis_dist EXCEPT ![n.split_dim] = PlaneDist(n, query)], far_min)
           ELSE near

\* The heap search() sorts into its result.
search(s, n, query, k_max, initial_sq_radius) ==
  IF k_max = 0 THEN {}
  ELSE descend(s, n, query, k_max, [heap |-> {}, worst |-> initial_sq_radius],
               [a \in Axis |-> 0], 0).heap

=============================================================================
