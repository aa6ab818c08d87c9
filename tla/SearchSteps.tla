---------------------------- MODULE SearchSteps -----------------------------
(***************************************************************************)
(* The searches as the code runs them (search_kernel.cpp), recursive call  *)
(* by recursive call, on a tree that stays as it is: search(), which keeps *)
(* the nearest slots in a bounded heap, collect_indices_within(), which    *)
(* keeps all within a radius, and any_within(), which stops at the first.  *)
(*                                                                         *)
(* A call owns its node and min_sq_dist.  All calls share the slots kept,  *)
(* the distance another must stay below, and, those of search(),           *)
(* min_sq_axis_dist, which a call overwrites while it is in its far child  *)
(* and restores afterwards.                                                *)
(***************************************************************************)
EXTENDS Neighbors, Sequences

CONSTANTS
  Trees,    \* the trees searched
  Queries,  \* the points they are searched from
  Ks,       \* the values of k_max
  Radii,    \* the values of initial_sq_radius and sq_radius
  INVALID   \* the root of a tree that has never held a point

ASSUME QuestionAssumption == Queries \subseteq Plane /\ Ks \subseteq Nat /\ Radii \subseteq Int

ASSUME TreesAssumption == \A t \in Trees : Searchable(t, INVALID)

VARIABLES
  tree,       \* nodes_, leaf_buckets_, points_ and the root
  asked,      \* the latest search and its arguments
  stack,      \* the calls in progress, the innermost last
  heap,       \* the slots taken, with their distances: heap, matches or the one found
  worst,      \* worst_sq_dist, and sq_radius where that stays the limit
  axis_dist   \* min_sq_axis_dist

vars == <<tree, asked, stack, heap, worst, axis_dist>>

HeapEntry(t, query, i) == [sq_dist |-> sq_dist(t.store.points[i], query), index |-> i]

Hit(i) == HeapEntry(tree, asked.query, i)

\* A call that has just been made.  `at` says how far it is: "entry", "scan" of a
\* bucket with the entries `todo`, in its "near" child, or in its far one, "far" when
\* there is an array to restore and "tail" when nothing is left to do.  `found` is
\* min_sq_axis_dist as the call found it, which no step reads.
Called(x, min_dist, found) ==
  [ node |-> x, min_dist |-> min_dist, found |-> found,
    at |-> "entry", todo |-> {}, saved |-> 0 ]

Running == stack[Len(stack)]

Node == tree.nodes[Running.node]

Suspended(at) == [stack EXCEPT ![Len(stack)].at = at]

At(at, is_leaf) == stack # <<>> /\ Running.at = at /\ Node.is_leaf = is_leaf

Leave == stack' = SubSeq(stack, 1, Len(stack) - 1)

-----------------------------------------------------------------------------
(* The calls from outside: nothing is done without a root or for no         *)
(* neighbours.                                                             *)

Nothing == [op |-> "search", query |-> <<0, 0>>, k_max |-> 0, sq_radius |-> 0]

Init ==
  /\ tree \in Trees
  /\ asked = Nothing
  /\ stack = <<>>
  /\ heap = {}
  /\ worst = 0
  /\ axis_dist = [a \in Axis |-> 0]

\* The slots are not counted where k_max is not asked for.
Start(op, query, k_max, sq_radius) ==
  /\ stack = <<>>
  /\ asked' = [op |-> op, query |-> query, k_max |-> k_max, sq_radius |-> sq_radius]
  /\ heap' = {}
  /\ worst' = sq_radius
  /\ axis_dist' = [a \in Axis |-> 0]
  /\ stack' = IF tree.root = INVALID \/ (op = "search" /\ k_max = 0) THEN <<>>
              ELSE <<Called(tree.root, 0, axis_dist')>>
  /\ UNCHANGED tree

Search(query, k_max, sq_radius) == Start("search", query, k_max, sq_radius)

CollectIndicesWithin(query, sq_radius) == Start("collect", query, 0, sq_radius)

AnyWithin(query, sq_radius) == Start("any", query, 0, sq_radius)

-----------------------------------------------------------------------------
(* scan_leaf(), collect_leaf() and any_within_leaf().  The entries of a     *)
(* bucket are met in an order the model does not keep.                     *)

EnterLeaf ==
  /\ At("entry", TRUE)
  /\ stack' = [stack EXCEPT ![Len(stack)].at = "scan", ![Len(stack)].todo = Node.bucket]
  /\ UNCHANGED <<tree, asked, heap, worst, axis_dist>>

\* The entries that may be at the front of a heap.
Fronts(entries) == {e \in entries : \A f \in entries : f.sq_dist <= e.sq_dist}

\* A heap that exceeds k_max loses its front; worst is the front of a full one.
Push(i) ==
  LET pushed == heap \cup {Hit(i)}
  IN  /\ IF Cardinality(pushed) > asked.k_max
         THEN \E e \in Fronts(pushed) : heap' = pushed \ {e}
         ELSE heap' = pushed
      /\ IF Cardinality(pushed) >= asked.k_max
         THEN \E e \in Fronts(heap') : worst' = e.sq_dist
         ELSE UNCHANGED worst

\* The entry leads to a slot that is near enough.
Meets(e) == Valid(tree.store, e) /\ Hit(e.index).sq_dist < worst

Passes(e) == stack' = [stack EXCEPT ![Len(stack)].todo = @ \ {e}]

Scan(e) ==
  /\ At("scan", TRUE) /\ asked.op = "search"
  /\ e \in Running.todo
  /\ Passes(e)
  /\ IF Meets(e) THEN Push(e.index) ELSE UNCHANGED <<heap, worst>>
  /\ UNCHANGED <<tree, asked, axis_dist>>

Collect(e) ==
  /\ At("scan", TRUE) /\ asked.op = "collect"
  /\ e \in Running.todo
  /\ Passes(e)
  /\ heap' = IF Meets(e) THEN heap \cup {Hit(e.index)} ELSE heap
  /\ UNCHANGED <<tree, asked, worst, axis_dist>>

\* The first slot that is near enough is the answer of every call.
Find(e) ==
  /\ At("scan", TRUE) /\ asked.op = "any"
  /\ e \in Running.todo
  /\ IF Meets(e)
     THEN stack' = <<>> /\ heap' = {Hit(e.index)}
     ELSE Passes(e) /\ UNCHANGED heap
  /\ UNCHANGED <<tree, asked, worst, axis_dist>>

LeaveLeaf ==
  /\ At("scan", TRUE)
  /\ Running.todo = {}
  /\ Leave
  /\ UNCHANGED <<tree, asked, heap, worst, axis_dist>>

-----------------------------------------------------------------------------
(* descend() at an inner node, and up to the near child the other two.      *)

EnterNear ==
  /\ At("entry", FALSE)
  /\ stack' = Append(Suspended("near"),
                     Called(NearChild(Node, asked.query), Running.min_dist, axis_dist))
  /\ UNCHANGED <<tree, asked, heap, worst, axis_dist>>

\* Fault: the new part is added, the old one stays.
FarMinAdding == Running.min_dist + PlaneDist(Node, asked.query)

\* Crossing the split plane replaces that axis's part of the distance.
FarMin ==
  Running.min_dist - axis_dist[Node.split_dim] + PlaneDist(Node, asked.query)

\* Fault: a call that has entered its far child finds itself at its near one again.
EnterFarAgain ==
  /\ At("near", FALSE) /\ asked.op = "search"
  /\ FarMin < worst
  /\ axis_dist' = [axis_dist EXCEPT ![Node.split_dim] = PlaneDist(Node, asked.query)]
  /\ stack' = Append(Suspended("far"), Called(NearChild(Node, asked.query), FarMin, axis_dist'))
  /\ UNCHANGED <<tree, asked, heap, worst>>

SkipFar ==
  /\ At("near", FALSE) /\ asked.op = "search"
  /\ FarMin >= worst
  /\ Leave
  /\ UNCHANGED <<tree, asked, heap, worst, axis_dist>>

EnterFar ==
  /\ At("near", FALSE) /\ asked.op = "search"
  /\ FarMin < worst
  /\ axis_dist' = [axis_dist EXCEPT ![Node.split_dim] = PlaneDist(Node, asked.query)]
  /\ stack' = Append([Suspended("far") EXCEPT ![Len(stack)].saved = axis_dist[Node.split_dim]],
                     Called(FarChild(Node, asked.query), FarMin, axis_dist'))
  /\ UNCHANGED <<tree, asked, heap, worst>>

\* Fault: the shared array keeps what was written for the far child.
LeaveFarUnrestored ==
  /\ At("far", FALSE)
  /\ Leave
  /\ UNCHANGED <<tree, asked, heap, worst, axis_dist>>

LeaveFar ==
  /\ At("far", FALSE)
  /\ axis_dist' = [axis_dist EXCEPT ![Node.split_dim] = Running.saved]
  /\ Leave
  /\ UNCHANGED <<tree, asked, heap, worst>>

-----------------------------------------------------------------------------
(* collect_descend() and any_within_descend() after their near child: the   *)
(* distance to the split plane alone decides.                              *)

StayNear ==
  /\ At("near", FALSE) /\ asked.op # "search"
  /\ PlaneDist(Node, asked.query) >= worst
  /\ Leave
  /\ UNCHANGED <<tree, asked, heap, worst, axis_dist>>

CrossPlane ==
  /\ At("near", FALSE) /\ asked.op # "search"
  /\ PlaneDist(Node, asked.query) < worst
  /\ stack' = Append(Suspended("tail"),
                     Called(FarChild(Node, asked.query), Running.min_dist, axis_dist))
  /\ UNCHANGED <<tree, asked, heap, worst, axis_dist>>

LeaveTail ==
  /\ At("tail", FALSE)
  /\ Leave
  /\ UNCHANGED <<tree, asked, heap, worst, axis_dist>>

-----------------------------------------------------------------------------

Next ==
  \/ \E query \in Queries, sq_radius \in Radii :
       \/ \E k_max \in Ks : Search(query, k_max, sq_radius)
       \/ CollectIndicesWithin(query, sq_radius)
       \/ AnyWithin(query, sq_radius)
  \/ EnterLeaf
  \/ stack # <<>> /\ \E e \in Running.todo : Scan(e) \/ Collect(e) \/ Find(e)
  \/ LeaveLeaf
  \/ EnterNear
  \/ SkipFar
  \/ EnterFar
  \/ LeaveFar
  \/ StayNear
  \/ CrossPlane
  \/ LeaveTail

Spec == Init /\ [][Next]_vars

-----------------------------------------------------------------------------
(* Properties.                                                             *)

\* The indices of the slots in the heap.
Taken == {e.index : e \in heap}

Frame(t) ==
  [ node     : DOMAIN t.nodes,
    min_dist : Int,
    found    : [Axis -> Int],
    at       : {"entry", "scan", "near", "far", "tail"},
    todo     : SUBSET [index : Slot, gen : 0 .. (GenMod - 1)],
    saved    : Int ]

\* The variables have the types their declarations give them.
TypeOK ==
  /\ tree \in Trees
  /\ asked \in [ op : {"search", "collect", "any"}, query : Plane, k_max : Nat,
                 sq_radius : Int ]
  /\ stack \in Seq(Frame(tree))
  /\ IsFiniteSet(heap)
  /\ worst \in Int
  /\ axis_dist \in [Axis -> Int]

\* The live slots a call may still meet.
Pending(t, query, f) ==
  IF f.at = "entry" THEN t.below[f.node]
  ELSE IF f.at = "scan" THEN ValidSlots(t.store, f.todo)
  ELSE IF f.at = "near" THEN t.below[FarChild(t.nodes[f.node], query)]
  ELSE {}

\* No two of the calls wait for the same slot, and none for one that is taken.
Apart(t, query, calls, taken) ==
  \A c \in DOMAIN calls :
    /\ Pending(t, query, calls[c]) \cap taken = {}
    /\ \A d \in DOMAIN calls \ {c} :
         Pending(t, query, calls[c]) \cap Pending(t, query, calls[d]) = {}

PendingApart == Apart(tree, asked.query, stack, Taken)

\* Some call may still meet slot i.
Awaited(t, query, calls, i) == \E c \in DOMAIN calls : i \in Pending(t, query, calls[c])

\* Every live slot is taken, still to be met, or too far away to be of use, unless
\* there is nothing to look for or the answer is known.
NoneForgotten ==
  \/ asked.op = "search" /\ asked.k_max = 0
  \/ asked.op = "any" /\ heap # {}
  \/ \A i \in LiveSlots(tree.store) :
       i \in Taken \/ Awaited(tree, asked.query, stack, i) \/ Hit(i).sq_dist >= worst

\* The heap is as large as it may become.
Full == asked.op = "search" /\ asked.k_max # 0 /\ Cardinality(heap) >= asked.k_max

\* What is kept are live slots within the radius, at most k_max of them in a heap, and
\* worst is the distance of the farthest when the heap is full.
HeapSound ==
  /\ heap \subseteq {Hit(i) : i \in LiveSlots(tree.store)}
  /\ \A e \in heap : e.sq_dist < asked.sq_radius
  /\ asked.op = "search" => Cardinality(heap) <= asked.k_max
  /\ IF Full THEN \E e \in Fronts(heap) : worst = e.sq_dist ELSE worst = asked.sq_radius

\* The array bounds, axis by axis, how near the live slots below a call can be, and
\* min_sq_dist is its sum.
Bounded(t, query, f) ==
  /\ f.min_dist = f.found[1] + f.found[2]
  /\ \A i \in t.below[f.node], a \in Axis :
       f.found[a] <= Square(t.store.points[i][a] - query[a])

\* A call is at a node of the kind it takes it for, has bounds that hold while it
\* may use them, and has saved what it overwrites.
CallSound(t, query, f) ==
  LET n == t.nodes[f.node]
  IN  /\ f.at = "scan" => n.is_leaf
      /\ f.at \in {"near", "far"} => ~ n.is_leaf
      /\ f.at \in {"entry", "near"} => Bounded(t, query, f)
      /\ f.at = "far" => f.saved = f.found[n.split_dim]

CallsSound == \A c \in DOMAIN stack : CallSound(tree, asked.query, stack[c])

\* min_sq_axis_dist as a call leaves it to the calls it makes.
Passed(t, query, f) ==
  LET n == t.nodes[f.node]
  IN  IF f.at = "far"
      THEN [f.found EXCEPT ![n.split_dim] = PlaneDist(n, query)]
      ELSE f.found

\* Every call has found the array as its caller passed it.
Chained(t, query, calls) ==
  \A c \in DOMAIN calls :
    c + 1 \in DOMAIN calls => calls[c + 1].found = Passed(t, query, calls[c])

\* And gets it back so from the calls it makes.
ArrayRestored ==
  /\ Chained(tree, asked.query, stack)
  /\ stack # <<>> => axis_dist = Passed(tree, asked.query, Running)

\* The inductive invariant.
SearchInv ==
  /\ TypeOK
  /\ PendingApart
  /\ NoneForgotten
  /\ HeapSound
  /\ CallsSound
  /\ ArrayRestored

\* Whatever the order of the scans and however ties fall, a search that has returned
\* holds k_max nearest of the live slots within the radius, or all there are; a
\* collection all of them; and the answer whether there are any is right.
Exact ==
  stack = <<>> =>
    LET within == Within(tree.store, asked.query, asked.sq_radius)
    IN  /\ asked.op = "search" =>
             Nearest(tree.store, asked.query, asked.k_max, asked.sq_radius, heap)
        /\ asked.op = "collect" => Taken = within
        /\ asked.op = "any" => (heap # {}) = (within # {})

\* No search offers the heap, or appends to the matches, a slot that is there, which
\* the sequences of the code would not notice: the removal of the matches would
\* release the slot twice.
NoneTwice ==
  [][stack # <<>> =>
       \A e \in Running.todo :
         (Scan(e) \/ Collect(e)) /\ Valid(tree.store, e) => e.index \notin Taken]_vars

=============================================================================
