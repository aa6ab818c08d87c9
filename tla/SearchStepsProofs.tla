------------------------- MODULE SearchStepsProofs --------------------------
(***************************************************************************)
(* Proofs about the searches, for every tree that is Searchable, whatever  *)
(* its shape, every query in the plane, k_max and radius.                  *)
(*                                                                         *)
(* The slots that are still of interest are shared out among the calls in  *)
(* progress; a step moves them between the innermost call and the one it   *)
(* makes, into what is taken, or drops those that its bound shows too far  *)
(* away.  When no call is left, all are accounted for.                     *)
(***************************************************************************)
EXTENDS SearchSteps, GeometryProofs, FiniteSetTheorems, SequenceTheorems

(* The stack. *)

\* The innermost call of a stack is replaced.
LEMMA Retopped ==
  ASSUME NEW S, NEW s \in Seq(S), s # <<>>, NEW f \in S,
         NEW t, t = [s EXCEPT ![Len(s)] = f]
  PROVE  /\ t \in Seq(S) /\ t # <<>> /\ Len(t) = Len(s)
         /\ t[Len(s)] = f
         /\ \A c \in 1 .. (Len(s) - 1) : t[c] = s[c]
OBVIOUS

\* It is replaced and another is put on top.
LEMMA Pushed ==
  ASSUME NEW S, NEW s \in Seq(S), s # <<>>, NEW f \in S, NEW g \in S,
         NEW t, t = Append([s EXCEPT ![Len(s)] = f], g)
  PROVE  /\ t \in Seq(S) /\ t # <<>> /\ Len(t) = Len(s) + 1
         /\ t[Len(s)] = f /\ t[Len(s) + 1] = g
         /\ \A c \in 1 .. (Len(s) - 1) : t[c] = s[c]
<1>1. PICK u : u = [s EXCEPT ![Len(s)] = f]
  OBVIOUS
<1>2. /\ u \in Seq(S) /\ Len(u) = Len(s) /\ u[Len(s)] = f
      /\ \A c \in 1 .. (Len(s) - 1) : u[c] = s[c]
  BY <1>1, Retopped
<1>3. t = Append(u, g)
  BY <1>1
<1>4. /\ t \in Seq(S) /\ t # <<>> /\ Len(t) = Len(u) + 1 /\ t[Len(u) + 1] = g
      /\ \A c \in 1 .. Len(u) : t[c] = u[c]
  BY <1>2, <1>3
<1>5. Len(s) \in Nat /\ Len(s) > 0
  OBVIOUS
<1> QED
  BY <1>2, <1>4, <1>5

\* It is taken off.
LEMMA Popped ==
  ASSUME NEW S, NEW s \in Seq(S), s # <<>>, NEW t, t = SubSeq(s, 1, Len(s) - 1)
  PROVE  /\ t \in Seq(S) /\ Len(t) = Len(s) - 1
         /\ \A c \in 1 .. (Len(s) - 1) : t[c] = s[c]
<1> DEFINE last == Len(s) - 1
<1>1. last \in Nat /\ \A c \in 1 .. last : s[c] \in S
  OBVIOUS
<1> HIDE DEF last
<1>2. (IF 1 <= last THEN last - 1 + 1 ELSE 0) = last
  BY <1>1
<1>3. \A c \in 1 .. last : c \in 1 .. (last - 1 + 1) /\ 1 + c - 1 = c
  BY <1>1
<1>4. /\ SubSeq(s, 1, last) \in Seq(S)
      /\ Len(SubSeq(s, 1, last)) = IF 1 <= last THEN last - 1 + 1 ELSE 0
      /\ \A c \in 1 .. (last - 1 + 1) : SubSeq(s, 1, last)[c] = s[1 + c - 1]
  BY <1>1, SubSeqProperties
<1>5. \A c \in 1 .. last : SubSeq(s, 1, last)[c] = s[c]
  BY <1>3, <1>4, Zenon
<1>6. Len(SubSeq(s, 1, last)) = last
  BY <1>2, <1>4
<1> QED
  BY <1>4, <1>5, <1>6, Zenon DEF last

(* The tree. *)

\* The point of a live slot is in the plane.
LEMMA LiveTyped ==
  ASSUME NEW t \in Trees, NEW i \in LiveSlots(t.store)
  PROVE  i \in Slot /\ t.store.points[i] \in Plane
<1>1. t.store \in Store
  BY TreesAssumption DEF Searchable
<1> QED
  BY <1>1, PlaneAssumption DEF Store, LiveSlots

\* What is below a node is live, and its points are in the plane.
LEMMA BelowTyped ==
  ASSUME NEW t \in Trees, NEW x \in DOMAIN t.nodes
  PROVE  /\ t.below[x] \subseteq LiveSlots(t.store)
         /\ \A i \in t.below[x] : t.store.points[i] \in Plane
<1>1. t.below \in [DOMAIN t.nodes -> SUBSET LiveSlots(t.store)]
  BY TreesAssumption DEF Searchable
<1> QED
  BY <1>1, LiveTyped

\* The two children of an inner node, seen from a query.
LEMMA Children ==
  ASSUME NEW t \in Trees, NEW x \in DOMAIN t.nodes, ~ t.nodes[x].is_leaf, NEW query \in Plane
  PROVE  LET n    == t.nodes[x]
             near == NearChild(n, query)
             far  == FarChild(n, query)
         IN  /\ near \in DOMAIN t.nodes /\ far \in DOMAIN t.nodes
             /\ n.split_dim \in Axis
             /\ PlaneDist(n, query) \in Int
             /\ t.below[x] = t.below[near] \cup t.below[far]
             /\ t.below[near] \cap t.below[far] = {}
             /\ \A i \in t.below[far] :
                  PlaneDist(n, query) <= Square(t.store.points[i][n.split_dim] - query[n.split_dim])
<1> DEFINE n == t.nodes[x]
           far == FarChild(n, query)
<1>1. SplitSeparates(t, x)
  BY TreesAssumption DEF Searchable
<1>2. /\ n.left \in DOMAIN t.nodes /\ n.right \in DOMAIN t.nodes
      /\ n.split_dim \in Axis /\ n.split_value \in Int
      /\ t.below[x] = t.below[n.left] \cup t.below[n.right]
      /\ t.below[n.left] \cap t.below[n.right] = {}
      /\ \A i \in t.below[n.left] : t.store.points[i][n.split_dim] <= n.split_value
      /\ \A i \in t.below[n.right] : n.split_value <= t.store.points[i][n.split_dim]
  BY <1>1 DEF SplitSeparates
<1>3. query[n.split_dim] \in Int
  BY <1>2 DEF Plane, Axis
<1>4. PlaneDist(n, query) \in Int
  BY <1>2, <1>3 DEF PlaneDist, Square
<1>5. ASSUME NEW i \in t.below[far]
      PROVE  PlaneDist(n, query) <= Square(t.store.points[i][n.split_dim] - query[n.split_dim])
  <2>1. far \in DOMAIN t.nodes
    BY <1>2 DEF FarChild
  <2>2. t.store.points[i] \in Plane
    BY <2>1, BelowTyped
  <2>3. t.store.points[i][n.split_dim] \in Int
    BY <1>2, <2>2 DEF Plane, Axis
  <2>4. IF query[n.split_dim] < n.split_value
        THEN n.split_value <= t.store.points[i][n.split_dim]
        ELSE t.store.points[i][n.split_dim] <= n.split_value
    BY <1>2 DEF FarChild
  <2> QED
    BY <1>2, <1>3, <2>3, <2>4, BeyondPlane DEF PlaneDist
<1> QED
  BY <1>2, <1>4, <1>5 DEF NearChild, FarChild

(* One step of the stack.  The innermost of the calls s is replaced (u is as long *)
(* as s), makes a call (u is longer) or returns (u is shorter).                   *)

\* s, of n calls, becomes u, of m, and only the innermost call of s is touched.
Stepped(s, n, u, m) ==
  /\ n \in Nat \ {0} /\ m \in {n - 1, n, n + 1}
  /\ DOMAIN s = 1 .. n /\ DOMAIN u = 1 .. m
  /\ \A c \in 1 .. (n - 1) : u[c] = s[c]

\* What the replaced call and the new one wait for, the replaced one waited for; and
\* they share it out.
Shared(t, query, s, n, u, m) ==
  /\ \A c \in n .. m : Pending(t, query, u[c]) \subseteq Pending(t, query, s[n])
  /\ m = n + 1 => Pending(t, query, u[n]) \cap Pending(t, query, u[m]) = {}

\* A step that shares the slots out keeps the calls apart, and apart from what is taken.
LEMMA ApartStep ==
  ASSUME NEW t, NEW query, NEW s, NEW n, NEW u, NEW m, Stepped(s, n, u, m),
         NEW taken, Apart(t, query, s, taken),
         Shared(t, query, s, n, u, m),
         NEW more,
         \A i \in more : \/ i \in taken
                        \/ /\ i \in Pending(t, query, s[n])
                           /\ \A c \in n .. m : i \notin Pending(t, query, u[c])
  PROVE  Apart(t, query, u, more)
<1> DEFINE p(c) == Pending(t, query, u[c])
           from(c) == IF c < n THEN c ELSE n
<1>1. ASSUME NEW c \in 1 .. m
      PROVE  /\ from(c) \in 1 .. n
             /\ p(c) \subseteq Pending(t, query, s[from(c)])
             /\ c < n => p(c) = Pending(t, query, s[c])
  BY DEF Stepped, Shared
<1>2. ASSUME NEW c \in 1 .. m
      PROVE  p(c) \cap more = {}
  <2>1. Pending(t, query, s[from(c)]) \cap taken = {}
    BY <1>1 DEF Apart, Stepped
  <2>2. CASE c < n
    <3>1. p(c) \cap Pending(t, query, s[n]) = {}
      BY <1>1, <2>2 DEF Apart, Stepped
    <3> QED
      BY <1>1, <2>1, <3>1
  <2>3. CASE ~ (c < n)
    <3>1. c \in n .. m
      BY <2>3 DEF Stepped
    <3> QED
      BY <1>1, <2>1, <3>1
  <2> QED
    BY <2>2, <2>3
<1>3. ASSUME NEW c \in 1 .. m, NEW d \in (1 .. m) \ {c}
      PROVE  p(c) \cap p(d) = {}
  <2>1. CASE from(c) # from(d)
    <3>1. Pending(t, query, s[from(c)]) \cap Pending(t, query, s[from(d)]) = {}
      BY <1>1, <2>1 DEF Apart, Stepped
    <3> QED
      BY <1>1, <3>1
  <2>2. CASE from(c) = from(d)
    <3>1. m = n + 1 /\ {c, d} = {n, m}
      BY <2>2 DEF Stepped
    <3> QED
      BY <3>1 DEF Shared
  <2> QED
    BY <2>1, <2>2
<1> QED
  BY <1>2, <1>3 DEF Apart, Stepped

\* A slot that was awaited still is, unless only the innermost call awaited it.
LEMMA AwaitedStep ==
  ASSUME NEW t, NEW query, NEW s, NEW n, NEW u, NEW m, Stepped(s, n, u, m),
         NEW i, Awaited(t, query, s, i)
  PROVE  \/ Awaited(t, query, u, i)
         \/ /\ i \in Pending(t, query, s[n])
            /\ \A c \in n .. m : i \notin Pending(t, query, u[c])
<1>1. PICK c \in 1 .. n : i \in Pending(t, query, s[c])
  BY DEF Awaited, Stepped
<1>2. CASE c < n
  <2>1. c \in 1 .. m /\ u[c] = s[c]
    BY <1>2 DEF Stepped
  <2> QED
    BY <1>1, <2>1 DEF Awaited, Stepped
<1>3. CASE c = n
  <2>1. \A d \in n .. m : d \in 1 .. m
    BY DEF Stepped
  <2> QED
    BY <1>1, <1>3, <2>1 DEF Awaited, Stepped
<1> QED
  BY <1>2, <1>3 DEF Stepped

\* A step after which the new call finds what its caller passes keeps the chain.
LEMMA ChainedStep ==
  ASSUME NEW t, NEW query, NEW s, NEW n, NEW u, NEW m, Stepped(s, n, u, m),
         Chained(t, query, s),
         m >= n => u[n].found = s[n].found,
         m = n + 1 => u[m].found = Passed(t, query, u[n])
  PROVE  Chained(t, query, u)
<1> SUFFICES ASSUME NEW c \in 1 .. m, c + 1 \in 1 .. m
             PROVE  u[c + 1].found = Passed(t, query, u[c])
  BY DEF Chained, Stepped
<1>1. CASE c < n
  <2>1. u[c] = s[c] /\ c \in 1 .. n /\ c + 1 \in 1 .. n
    BY <1>1 DEF Stepped
  <2>2. u[c + 1].found = s[c + 1].found
    BY <1>1 DEF Stepped
  <2> QED
    BY <2>1, <2>2 DEF Chained, Stepped
<1>2. CASE c = n
  BY <1>2 DEF Stepped
<1> QED
  BY <1>1, <1>2 DEF Stepped

\* A step that leaves its calls sound leaves all sound.
LEMMA SoundStep ==
  ASSUME NEW t, NEW query, NEW s, NEW n, NEW u, NEW m, Stepped(s, n, u, m),
         \A c \in DOMAIN s : CallSound(t, query, s[c]),
         \A c \in n .. m : CallSound(t, query, u[c])
  PROVE  \A c \in DOMAIN u : CallSound(t, query, u[c])
<1> SUFFICES ASSUME NEW c \in 1 .. m
             PROVE  CallSound(t, query, u[c])
  BY DEF Stepped
<1>1. CASE c < n
  BY <1>1 DEF Stepped
<1>2. CASE ~ (c < n)
  BY <1>2 DEF Stepped
<1> QED
  BY <1>1, <1>2

(* The invariant, action by action.  A step replaces the innermost call, and may  *)
(* add one or drop one.                                                         *)

\* What the invariant says of the innermost call.
LEMMA RunningTyped ==
  ASSUME SearchInv, stack # <<>>
  PROVE  /\ Len(stack) \in Nat /\ Len(stack) \in 1 .. Len(stack)
         /\ Running \in Frame(tree) /\ Running.node \in DOMAIN tree.nodes
         /\ tree \in Trees /\ asked.query \in Plane
<1>1. stack \in Seq(Frame(tree)) /\ tree \in Trees /\ asked.query \in Plane
  BY DEF SearchInv, TypeOK
<1>2. Len(stack) \in Nat /\ Len(stack) \in 1 .. Len(stack)
  BY <1>1
<1>3. Running \in Frame(tree)
  BY <1>1, <1>2 DEF Running
<1> QED
  BY <1>1, <1>2, <1>3 DEF Frame

\* Distances are natural numbers.
LEMMA HitTyped ==
  ASSUME SearchInv, NEW i \in LiveSlots(tree.store)
  PROVE  Hit(i).sq_dist \in Nat
<1>1. tree.store.points[i] \in Plane /\ asked.query \in Plane
  BY LiveTyped DEF SearchInv, TypeOK
<1> QED
  BY <1>1, SqDistType DEF Hit, HeapEntry

\* A step that leaves the heap alone keeps what the invariant says of it, if the slots
\* that are no longer awaited are too far away.
LEMMA HeapUntouched ==
  ASSUME SearchInv, UNCHANGED <<tree, asked, heap, worst>>,
         NEW n, NEW m, Stepped(stack, n, stack', m),
         Shared(tree, asked.query, stack, n, stack', m),
         \A i \in Pending(tree, asked.query, stack[n]) :
           \/ \E c \in n .. m : i \in Pending(tree, asked.query, stack'[c])
           \/ Hit(i).sq_dist >= worst
  PROVE  PendingApart' /\ NoneForgotten' /\ HeapSound'
<1>1. HeapSound'
  BY DEF SearchInv, HeapSound, Full, Hit
<1>2. Taken' = Taken
  BY DEF Taken
<1>3. Apart(tree, asked.query, stack', Taken)
  BY ApartStep DEF SearchInv, PendingApart
<1>4. PendingApart'
  BY <1>2, <1>3 DEF PendingApart
<1>5. NoneForgotten'
  <2> SUFFICES ASSUME ~ (asked.op = "search" /\ asked.k_max = 0),
                      ~ (asked.op = "any" /\ heap # {}),
                      NEW i \in LiveSlots(tree.store),
                      i \notin Taken, ~ (Hit(i).sq_dist >= worst)
               PROVE  Awaited(tree, asked.query, stack', i)
    BY <1>2 DEF NoneForgotten, Hit
  <2>1. Awaited(tree, asked.query, stack, i)
    BY DEF SearchInv, NoneForgotten
  <2> QED
    BY <2>1, AwaitedStep
<1> QED
  BY <1>1, <1>4, <1>5

\* A call that returns with the array as it found it gives it back to its caller as
\* the caller passed it.
LEMMA ReturnedArray ==
  ASSUME SearchInv, stack # <<>>, UNCHANGED <<tree, asked>>,
         Stepped(stack, Len(stack), stack', Len(stack) - 1),
         stack' \in Seq(Frame(tree)), Len(stack') = Len(stack) - 1,
         axis_dist' = stack[Len(stack)].found
  PROVE  ArrayRestored'
<1> DEFINE n == Len(stack)
<1>1. n \in Nat /\ n \in 1 .. n /\ stack \in Seq(Frame(tree))
  BY RunningTyped DEF SearchInv, TypeOK
<1>2. Chained(tree, asked.query, stack)
  BY DEF SearchInv, ArrayRestored
<1>3. Chained(tree, asked.query, stack')
  BY <1>1, <1>2, ChainedStep
<1>4. ASSUME stack' # <<>>
      PROVE  axis_dist' = Passed(tree, asked.query, stack'[Len(stack')])
  <2>1. n - 1 \in 1 .. n /\ (n - 1) + 1 = n
    BY <1>1, <1>4
  <2>2. stack[n].found = Passed(tree, asked.query, stack[n - 1])
    BY <1>1, <1>2, <2>1 DEF Chained
  <2>3. stack'[n - 1] = stack[n - 1]
    BY <1>1, <1>4, <2>1 DEF Stepped
  <2> QED
    BY <2>1, <2>2, <2>3
<1> QED
  BY <1>3, <1>4 DEF ArrayRestored, Running

\* A call turns to its bucket.
LEMMA EnterLeafInv ==
  ASSUME SearchInv, EnterLeaf
  PROVE  SearchInv'
<1> DEFINE n == Len(stack)
           f == [Running EXCEPT !.at = "scan", !.todo = Node.bucket]
<1>1. /\ stack # <<>> /\ Running.at = "entry" /\ Node.is_leaf
      /\ UNCHANGED <<tree, asked, heap, worst, axis_dist>>
  BY DEF EnterLeaf, At
<1>2. /\ n \in Nat /\ n \in 1 .. n
      /\ Running \in Frame(tree) /\ Running.node \in DOMAIN tree.nodes
      /\ tree \in Trees /\ asked.query \in Plane
  BY <1>1, RunningTyped
<1>3. LeafCollects(tree, Running.node)
  BY <1>1, <1>2, TreesAssumption DEF Searchable, Node
<1>4. f \in Frame(tree)
  BY <1>2, <1>3 DEF LeafCollects, Frame, Node
<1>5. stack' = [stack EXCEPT ![n] = f]
  BY DEF EnterLeaf, Running
<1>6. /\ stack \in Seq(Frame(tree))
      /\ stack' \in Seq(Frame(tree)) /\ stack' # <<>> /\ Len(stack') = n
      /\ stack'[n] = f
      /\ \A c \in 1 .. (n - 1) : stack'[c] = stack[c]
  BY <1>1, <1>4, <1>5, Retopped DEF SearchInv, TypeOK
<1>7. Stepped(stack, n, stack', n)
  BY <1>2, <1>6 DEF Stepped
<1>8. TypeOK'
  BY <1>1, <1>6 DEF SearchInv, TypeOK
<1>9. Pending(tree, asked.query, f) = Pending(tree, asked.query, stack[n])
  <2>1. Pending(tree, asked.query, stack[n]) = tree.below[Running.node]
    BY <1>1 DEF Pending, Running
  <2>2. Pending(tree, asked.query, f) = ValidSlots(tree.store, Node.bucket)
    BY <1>2 DEF Pending, Frame
  <2> QED
    BY <1>3, <2>1, <2>2 DEF LeafCollects, Node
<1>10. PendingApart' /\ NoneForgotten' /\ HeapSound'
  BY <1>1, <1>2, <1>6, <1>7, <1>9, HeapUntouched DEF Shared
<1>11. CallsSound'
  <2>1. CallSound(tree, asked.query, f)
    BY <1>1, <1>2 DEF CallSound, Frame, Node
  <2> QED
    BY <1>1, <1>2, <1>6, <1>7, <2>1, SoundStep DEF SearchInv, CallsSound
<1>12. ArrayRestored'
  BY <1>1, <1>2, <1>6, <1>7, ChainedStep DEF SearchInv, ArrayRestored, Passed, Running, Frame
<1> QED
  BY <1>8, <1>10, <1>11, <1>12 DEF SearchInv

\* A call returns.
LEMMA Returned ==
  ASSUME SearchInv, stack # <<>>, Leave, UNCHANGED <<tree, asked, heap, worst>>,
         axis_dist' = Running.found,
         \A i \in Pending(tree, asked.query, Running) : Hit(i).sq_dist >= worst
  PROVE  SearchInv'
<1> DEFINE n == Len(stack)
<1>1. /\ n \in Nat /\ n \in 1 .. n
      /\ Running \in Frame(tree)
  BY RunningTyped
<1>2. /\ stack \in Seq(Frame(tree))
      /\ stack' \in Seq(Frame(tree)) /\ Len(stack') = n - 1
      /\ \A c \in 1 .. (n - 1) : stack'[c] = stack[c]
  <2>1. stack \in Seq(Frame(tree)) /\ stack' = SubSeq(stack, 1, n - 1)
    BY DEF SearchInv, TypeOK, Leave
  <2> QED
    BY <2>1, Popped, Zenon
<1>3. Stepped(stack, n, stack', n - 1)
  BY <1>1, <1>2 DEF Stepped
<1>4. TypeOK'
  BY <1>1, <1>2 DEF SearchInv, TypeOK, Frame
<1>5. PendingApart' /\ NoneForgotten' /\ HeapSound'
  BY <1>1, <1>3, HeapUntouched DEF Shared, Running
<1>6. CallsSound'
  BY <1>1, <1>3, SoundStep DEF SearchInv, CallsSound
<1>7. ArrayRestored'
  BY <1>2, <1>3, ReturnedArray DEF Running
<1> QED
  BY <1>4, <1>5, <1>6, <1>7 DEF SearchInv

\* It has met every entry.
LEMMA LeaveLeafInv ==
  ASSUME SearchInv, LeaveLeaf
  PROVE  SearchInv'
<1>1. /\ stack # <<>> /\ Running.at = "scan" /\ Running.todo = {} /\ Leave
      /\ UNCHANGED <<tree, asked, heap, worst, axis_dist>>
  BY DEF LeaveLeaf, At
<1>2. Pending(tree, asked.query, Running) = {}
  BY <1>1 DEF Pending, ValidSlots
<1>3. axis_dist' = Running.found
  BY <1>1 DEF SearchInv, ArrayRestored, Passed
<1> QED
  BY <1>1, <1>2, <1>3, Returned

\* It restores the array after its far child and returns.
LEMMA LeaveFarInv ==
  ASSUME SearchInv, LeaveFar
  PROVE  SearchInv'
<1> DEFINE dim == Node.split_dim
<1>1. /\ stack # <<>> /\ Running.at = "far" /\ ~ Node.is_leaf /\ Leave
      /\ axis_dist' = [axis_dist EXCEPT ![dim] = Running.saved]
      /\ UNCHANGED <<tree, asked, heap, worst>>
  BY DEF LeaveFar, At
<1>2. /\ Len(stack) \in 1 .. Len(stack) /\ Running \in Frame(tree)
      /\ Running.node \in DOMAIN tree.nodes
      /\ tree \in Trees /\ asked.query \in Plane /\ stack \in Seq(Frame(tree))
  BY <1>1, RunningTyped DEF SearchInv, TypeOK
<1>3. dim \in Axis
  BY <1>1, <1>2, Children DEF Node
<1>4. axis_dist = [Running.found EXCEPT ![dim] = PlaneDist(Node, asked.query)]
  BY <1>1 DEF SearchInv, ArrayRestored, Passed, Node
<1>5. Running.saved = Running.found[dim]
  <2>1. CallSound(tree, asked.query, Running)
    BY <1>2 DEF SearchInv, CallsSound, Running
  <2> QED
    BY <1>1, <2>1 DEF CallSound, Node
<1>6. axis_dist' = Running.found
  <2>1. Running.found \in [Axis -> Int]
    BY <1>2 DEF Frame
  <2> QED
    BY <1>1, <1>3, <1>4, <1>5, <2>1
<1>7. Pending(tree, asked.query, Running) = {}
  BY <1>1 DEF Pending
<1> QED
  BY <1>1, <1>6, <1>7, Returned

(* The far child. *)

\* At an inner node whose near child has returned, min_sq_dist with the part of the
\* split axis replaced bounds the distance of what is below the far child, and so does
\* the array with that part replaced.
LEMMA FarBounds ==
  ASSUME SearchInv, At("near", FALSE)
  PROVE  LET far == FarChild(Node, asked.query)
             part == PlaneDist(Node, asked.query)
             array == [axis_dist EXCEPT ![Node.split_dim] = part]
         IN  /\ axis_dist = Running.found
             /\ Node.split_dim \in Axis /\ part \in Int /\ far \in DOMAIN tree.nodes
             /\ array \in [Axis -> Int]
             /\ FarMin \in Int
             /\ FarMin = array[1] + array[2]
             /\ \A i \in tree.below[far], a \in Axis :
                  array[a] <= Square(tree.store.points[i][a] - asked.query[a])
             /\ \A i \in tree.below[far] : FarMin <= Hit(i).sq_dist
<1> DEFINE query == asked.query
           dim == Node.split_dim
           far == FarChild(Node, query)
           part == PlaneDist(Node, query)
           array == [axis_dist EXCEPT ![dim] = part]
<1>1. /\ stack # <<>> /\ Running.at = "near" /\ ~ Node.is_leaf
      /\ Len(stack) \in 1 .. Len(stack) /\ Running \in Frame(tree)
      /\ Running.node \in DOMAIN tree.nodes
      /\ tree \in Trees /\ query \in Plane /\ stack \in Seq(Frame(tree))
  BY RunningTyped DEF SearchInv, TypeOK, At
<1>2. /\ far \in DOMAIN tree.nodes /\ dim \in Axis /\ part \in Int
      /\ tree.below[far] \subseteq tree.below[Running.node]
      /\ \A i \in tree.below[far] :
           part <= Square(tree.store.points[i][dim] - query[dim])
  BY <1>1, Children DEF Node
<1>3. axis_dist = Running.found /\ axis_dist \in [Axis -> Int]
  BY <1>1 DEF SearchInv, ArrayRestored, Passed, TypeOK
<1>4. Bounded(tree, query, Running)
  <2>1. CallSound(tree, query, Running)
    BY <1>1 DEF SearchInv, CallsSound, Running
  <2> QED
    BY <1>1, <2>1 DEF CallSound
<1>5. array \in [Axis -> Int] /\ array[dim] = part
  BY <1>2, <1>3
<1>6. FarMin = array[1] + array[2]
  <2>1. Running.min_dist = axis_dist[1] + axis_dist[2]
    BY <1>3, <1>4 DEF Bounded
  <2>2. 1 \in Axis /\ 2 \in Axis /\ (dim = 1 \/ dim = 2)
    BY <1>2 DEF Axis
  <2>3. axis_dist[1] \in Int /\ axis_dist[2] \in Int
    BY <1>3, <2>2
  <2>4. CASE dim = 1
    <3>1. array[1] = part /\ array[2] = axis_dist[2]
      BY <1>3, <2>2, <2>4
    <3> QED
      BY <1>2, <2>1, <2>3, <2>4, <3>1 DEF FarMin
  <2>5. CASE dim = 2
    <3>1. array[2] = part /\ array[1] = axis_dist[1]
      BY <1>3, <2>2, <2>5
    <3> QED
      BY <1>2, <2>1, <2>3, <2>5, <3>1 DEF FarMin
  <2> QED
    BY <2>2, <2>4, <2>5
<1>7. ASSUME NEW i \in tree.below[far], NEW a \in Axis
      PROVE  array[a] <= Square(tree.store.points[i][a] - query[a])
  <2>1. axis_dist[a] <= Square(tree.store.points[i][a] - query[a])
    BY <1>2, <1>3, <1>4 DEF Bounded
  <2> QED
    BY <1>2, <1>3, <2>1
<1>8. FarMin \in Int /\ \A i \in tree.below[far] : FarMin <= Hit(i).sq_dist
  <2>1. 1 \in Axis /\ 2 \in Axis
    BY DEF Axis
  <2>2. array[1] \in Int /\ array[2] \in Int
    BY <1>5, <2>1
  <2>3. ASSUME NEW i \in tree.below[far]
        PROVE  FarMin <= Hit(i).sq_dist
    <3>1. tree.store.points[i] \in Plane
      BY <1>1, <1>2, BelowTyped
    <3> DEFINE x == Square(tree.store.points[i][1] - query[1])
               y == Square(tree.store.points[i][2] - query[2])
    <3>2. x \in Int /\ y \in Int
      BY <1>1, <3>1 DEF Plane, Square
    <3>3. array[1] <= x /\ array[2] <= y
      BY <1>7, <2>1
    <3>4. Hit(i).sq_dist = x + y
      BY DEF Hit, HeapEntry, sq_dist
    <3> HIDE DEF x, y, array
    <3> QED
      BY <1>6, <2>2, <3>2, <3>3, <3>4
  <2> QED
    BY <1>6, <2>2, <2>3
<1> QED
  BY <1>2, <1>3, <1>5, <1>6, <1>7, <1>8

\* A far child that is skipped holds nothing nearer than worst.
LEMMA SkipFarInv ==
  ASSUME SearchInv, SkipFar
  PROVE  SearchInv'
<1>1. /\ stack # <<>> /\ Running.at = "near" /\ FarMin >= worst /\ Leave
      /\ At("near", FALSE)
      /\ UNCHANGED <<tree, asked, heap, worst, axis_dist>>
  BY DEF SkipFar, At
<1>2. axis_dist' = Running.found
  BY <1>1, FarBounds
<1>3. ASSUME NEW i \in Pending(tree, asked.query, Running)
      PROVE  Hit(i).sq_dist >= worst
  <2>1. i \in tree.below[FarChild(Node, asked.query)]
    BY <1>1 DEF Pending, Node
  <2>2. FarMin <= Hit(i).sq_dist /\ FarMin \in Int /\ worst \in Int
    BY <1>1, <2>1, FarBounds DEF SearchInv, TypeOK
  <2>3. Hit(i).sq_dist \in Int
    BY <1>1, <2>1, HitTyped, FarBounds, BelowTyped DEF SearchInv, TypeOK
  <2> QED
    BY <1>1, <2>2, <2>3
<1> QED
  BY <1>1, <1>2, <1>3, Returned

(* Calls. *)

\* A call makes another.
LEMMA Descended ==
  ASSUME SearchInv, stack # <<>>, UNCHANGED <<tree, asked, heap, worst>>,
         NEW f \in Frame(tree), NEW g \in Frame(tree),
         stack' = Append([stack EXCEPT ![Len(stack)] = f], g),
         f.found = Running.found,
         axis_dist' = Passed(tree, asked.query, f), axis_dist' = g.found, g.at = "entry",
         axis_dist' \in [Axis -> Int],
         CallSound(tree, asked.query, f), CallSound(tree, asked.query, g),
         Pending(tree, asked.query, f) \cap Pending(tree, asked.query, g) = {},
         Pending(tree, asked.query, f) \cup Pending(tree, asked.query, g)
           = Pending(tree, asked.query, Running)
  PROVE  SearchInv'
<1> DEFINE n == Len(stack)
<1>1. n \in Nat /\ n \in 1 .. n /\ stack \in Seq(Frame(tree))
  BY RunningTyped DEF SearchInv, TypeOK
<1>2. /\ stack' \in Seq(Frame(tree)) /\ stack' # <<>> /\ Len(stack') = n + 1
      /\ stack'[n] = f /\ stack'[n + 1] = g
      /\ \A c \in 1 .. (n - 1) : stack'[c] = stack[c]
  BY <1>1, Pushed
<1>3. Stepped(stack, n, stack', n + 1)
  BY <1>1, <1>2 DEF Stepped
<1>4. TypeOK'
  BY <1>2 DEF SearchInv, TypeOK
<1>5. PendingApart' /\ NoneForgotten' /\ HeapSound'
  <2>1. n .. (n + 1) = {n, n + 1}
    BY <1>1
  <2>2. Shared(tree, asked.query, stack, n, stack', n + 1)
    BY <1>2, <2>1 DEF Shared, Running
  <2>3. \A i \in Pending(tree, asked.query, stack[n]) :
          \E c \in n .. (n + 1) : i \in Pending(tree, asked.query, stack'[c])
    BY <1>2, <2>1 DEF Running
  <2> QED
    BY <1>3, <2>2, <2>3, HeapUntouched
<1>6. CallsSound'
  <2>1. \A c \in n .. (n + 1) : CallSound(tree, asked.query, stack'[c])
    BY <1>1, <1>2
  <2> QED
    BY <1>3, <2>1, SoundStep DEF SearchInv, CallsSound
<1>7. ArrayRestored'
  <2>1. Chained(tree, asked.query, stack')
    <3>1. Chained(tree, asked.query, stack)
      BY DEF SearchInv, ArrayRestored
    <3>2. stack'[n].found = stack[n].found
      BY <1>2 DEF Running
    <3>3. stack'[n + 1].found = Passed(tree, asked.query, stack'[n])
      BY <1>2
    <3> QED
      BY <1>3, <3>1, <3>2, <3>3, ChainedStep
  <2>2. axis_dist' = Passed(tree, asked.query, g)
    BY DEF Passed
  <2> QED
    BY <1>2, <2>1, <2>2 DEF ArrayRestored, Running
<1> QED
  BY <1>4, <1>5, <1>6, <1>7 DEF SearchInv

\* What a call that has just been made looks like.
LEMMA CalledTyped ==
  ASSUME NEW t, NEW x \in DOMAIN t.nodes, NEW min_dist \in Int, NEW found \in [Axis -> Int],
         NEW g, g = Called(x, min_dist, found)
  PROVE  /\ g \in Frame(t)
         /\ g.at = "entry" /\ g.node = x /\ g.min_dist = min_dist /\ g.found = found
BY DEF Called, Frame

\* A call at an inner node calls its near child.
LEMMA EnterNearInv ==
  ASSUME SearchInv, EnterNear
  PROVE  SearchInv'
<1> DEFINE near == NearChild(Node, asked.query)
           f == [Running EXCEPT !.at = "near"]
           g == Called(near, Running.min_dist, axis_dist)
<1>1. /\ stack # <<>> /\ Running.at = "entry" /\ ~ Node.is_leaf
      /\ UNCHANGED <<tree, asked, heap, worst, axis_dist>>
      /\ Running \in Frame(tree) /\ Running.node \in DOMAIN tree.nodes
      /\ tree \in Trees /\ asked.query \in Plane
      /\ stack \in Seq(Frame(tree)) /\ Len(stack) \in 1 .. Len(stack)
  BY RunningTyped DEF EnterNear, At, SearchInv, TypeOK
<1>2. /\ axis_dist \in [Axis -> Int] /\ axis_dist = Running.found
  BY <1>1 DEF SearchInv, TypeOK, ArrayRestored, Passed
<1>3. /\ near \in DOMAIN tree.nodes
      /\ tree.below[Running.node]
           = tree.below[near] \cup tree.below[FarChild(Node, asked.query)]
      /\ tree.below[near] \cap tree.below[FarChild(Node, asked.query)] = {}
  <2>1. /\ tree \in Trees /\ Running.node \in DOMAIN tree.nodes
        /\ ~ tree.nodes[Running.node].is_leaf /\ asked.query \in Plane
    BY <1>1 DEF Node
  <2>2. near \in DOMAIN tree.nodes
    BY <2>1, Children DEF Node
  <2>3. tree.below[Running.node]
           = tree.below[near] \cup tree.below[FarChild(Node, asked.query)]
    BY <2>1, Children DEF Node
  <2>4. tree.below[near] \cap tree.below[FarChild(Node, asked.query)] = {}
    BY <2>1, Children DEF Node
  <2> QED
    BY <2>2, <2>3, <2>4
<1>4. /\ f \in Frame(tree) /\ g \in Frame(tree)
      /\ f.at = "near" /\ f.node = Running.node /\ f.found = Running.found
      /\ f.min_dist = Running.min_dist
      /\ g.at = "entry" /\ g.node = near /\ g.found = axis_dist
      /\ g.min_dist = Running.min_dist
  <2>1. Running.min_dist \in Int
    BY <1>1 DEF Frame
  <2>2. f \in Frame(tree) /\ f.at = "near" /\ f.node = Running.node
        /\ f.found = Running.found /\ f.min_dist = Running.min_dist
    BY <1>1 DEF Frame
  <2> QED
    BY <1>2, <1>3, <2>1, <2>2, CalledTyped
<1>5. stack' = Append([stack EXCEPT ![Len(stack)] = f], g)
  BY DEF EnterNear, Suspended, Running
<1> HIDE DEF f, g
<1>6. Bounded(tree, asked.query, Running)
  <2>1. CallSound(tree, asked.query, Running)
    BY <1>1 DEF SearchInv, CallsSound, Running
  <2> QED
    BY <1>1, <2>1 DEF CallSound
<1>7. CallSound(tree, asked.query, f)
  BY <1>1, <1>4, <1>6 DEF CallSound, Bounded, Node
<1>8. CallSound(tree, asked.query, g)
  BY <1>2, <1>3, <1>4, <1>6 DEF CallSound, Bounded
<1>9. /\ Pending(tree, asked.query, Running) = tree.below[Running.node]
      /\ Pending(tree, asked.query, f) = tree.below[FarChild(Node, asked.query)]
      /\ Pending(tree, asked.query, g) = tree.below[near]
  BY <1>1, <1>4 DEF Pending, Node
<1>10. axis_dist' = Passed(tree, asked.query, f)
  BY <1>1, <1>2, <1>4 DEF Passed
<1>11. /\ Pending(tree, asked.query, f) \cap Pending(tree, asked.query, g) = {}
       /\ Pending(tree, asked.query, f) \cup Pending(tree, asked.query, g)
            = Pending(tree, asked.query, Running)
  BY <1>3, <1>9
<1> QED
  BY <1>1, <1>2, <1>4, <1>5, <1>7, <1>8, <1>10, <1>11, Descended

\* descend() calls its far child with that axis's part of the distance replaced.
LEMMA EnterFarInv ==
  ASSUME SearchInv, EnterFar
  PROVE  SearchInv'
<1> DEFINE far == FarChild(Node, asked.query)
           dim == Node.split_dim
           array == [axis_dist EXCEPT ![dim] = PlaneDist(Node, asked.query)]
           f == [Running EXCEPT !.at = "far", !.saved = axis_dist[dim]]
           g == Called(far, FarMin, array)
<1>1. /\ stack # <<>> /\ Running.at = "near" /\ ~ Node.is_leaf /\ At("near", FALSE)
      /\ axis_dist' = array
      /\ UNCHANGED <<tree, asked, heap, worst>>
      /\ Running \in Frame(tree) /\ Running.node \in DOMAIN tree.nodes
      /\ tree \in Trees /\ asked.query \in Plane
      /\ stack \in Seq(Frame(tree)) /\ Len(stack) \in 1 .. Len(stack)
  BY RunningTyped DEF EnterFar, At, SearchInv, TypeOK
<1>2. /\ axis_dist = Running.found /\ dim \in Axis
      /\ far \in DOMAIN tree.nodes /\ array \in [Axis -> Int]
      /\ FarMin \in Int /\ FarMin = array[1] + array[2]
      /\ \A i \in tree.below[far], a \in Axis :
           array[a] <= Square(tree.store.points[i][a] - asked.query[a])
  BY <1>1, FarBounds
<1>3. axis_dist[dim] \in Int
  BY <1>2 DEF SearchInv, TypeOK
<1>4. /\ f \in Frame(tree) /\ g \in Frame(tree)
      /\ f.at = "far" /\ f.node = Running.node /\ f.found = Running.found
      /\ f.saved = axis_dist[dim]
      /\ g.at = "entry" /\ g.node = far /\ g.found = array /\ g.min_dist = FarMin
  <2>1. /\ f \in Frame(tree) /\ f.at = "far" /\ f.node = Running.node
        /\ f.found = Running.found /\ f.saved = axis_dist[dim]
    BY <1>1, <1>3 DEF Frame
  <2> QED
    BY <1>2, <2>1, CalledTyped
<1>5. stack' = Append([stack EXCEPT ![Len(stack)] = f], g)
  BY <1>1 DEF EnterFar, Suspended, Running
<1> HIDE DEF f, g, array
<1>6. CallSound(tree, asked.query, f)
  BY <1>1, <1>2, <1>4 DEF CallSound, Node
<1>7. CallSound(tree, asked.query, g)
  BY <1>2, <1>4 DEF CallSound, Bounded
<1>8. /\ Pending(tree, asked.query, Running) = tree.below[far]
      /\ Pending(tree, asked.query, f) = {}
      /\ Pending(tree, asked.query, g) = tree.below[far]
  BY <1>1, <1>4 DEF Pending, Node
<1>9. axis_dist' = Passed(tree, asked.query, f)
  BY <1>1, <1>2, <1>4 DEF Passed, array, Node
<1>10. /\ Pending(tree, asked.query, f) \cap Pending(tree, asked.query, g) = {}
       /\ Pending(tree, asked.query, f) \cup Pending(tree, asked.query, g)
            = Pending(tree, asked.query, Running)
  BY <1>8
<1> QED
  BY <1>1, <1>2, <1>4, <1>5, <1>6, <1>7, <1>9, <1>10, Descended

(* The heap. *)

\* What an offer that is accepted does: the heap stays sound, worst does not rise, and
\* a slot that is not kept is no nearer than worst.
LEMMA PushSound ==
  ASSUME SearchInv, UNCHANGED <<tree, asked>>, asked.op = "search",
         NEW i \in LiveSlots(tree.store), i \notin Taken, Hit(i).sq_dist < worst,
         Push(i)
  PROVE  /\ HeapSound' /\ IsFiniteSet(heap)' /\ worst' \in Int /\ worst' <= worst
         /\ Taken' \subseteq Taken \cup {i}
         /\ \A j \in LiveSlots(tree.store) :
              j \in Taken \cup {i} => j \in Taken' \/ Hit(j).sq_dist >= worst'
<1> DEFINE live == LiveSlots(tree.store)
           k == asked.k_max
           radius == asked.sq_radius
           pushed == heap \cup {Hit(i)}
<1>1. /\ IsFiniteSet(heap) /\ worst \in Int /\ k \in Nat /\ radius \in Int
      /\ heap \subseteq {Hit(j) : j \in live}
      /\ \A e \in heap : e.sq_dist < radius
      /\ Cardinality(heap) <= k
      /\ IF Full THEN \E e \in Fronts(heap) : worst = e.sq_dist ELSE worst = radius
  BY DEF SearchInv, TypeOK, HeapSound
<1>2. \A j \in live : Hit(j).sq_dist \in Int /\ Hit(j).index = j
  BY HitTyped DEF Hit, HeapEntry
<1>3. \A e \in pushed : e.sq_dist \in Int /\ e.index \in live /\ e = Hit(e.index)
  BY <1>1, <1>2
<1>4. worst <= radius
  <2>1. \A e \in Fronts(heap) : e.sq_dist \in Int /\ e.sq_dist < radius
    BY <1>1, <1>3 DEF Fronts
  <2> QED
    BY <1>1, <2>1
<1>5. \A e \in pushed : e.sq_dist < radius
  BY <1>1, <1>2, <1>4
<1>6. Cardinality(heap) \in Nat /\ IsFiniteSet(pushed) /\ Cardinality(pushed) = Cardinality(heap) + 1
  <2>1. Hit(i) \notin heap
    BY <1>2 DEF Taken
  <2> QED
    BY <1>1, <2>1, FS_AddElement, FS_CardinalityType
<1>7. Taken = {e.index : e \in heap} /\ Taken' = {e.index : e \in heap'}
  BY DEF Taken
<1>8. CASE Cardinality(pushed) > k
  <2>1. PICK top \in Fronts(pushed) : heap' = pushed \ {top}
    BY <1>8 DEF Push
  <2>2. PICK front \in Fronts(heap') : worst' = front.sq_dist
    BY <1>1, <1>6, <1>8 DEF Push
  <2>3. /\ top \in pushed /\ \A e \in pushed : e.sq_dist <= top.sq_dist
        /\ front \in heap' /\ \A e \in heap' : e.sq_dist <= front.sq_dist
        /\ front \in pushed
    BY <2>1, <2>2 DEF Fronts
  <2>4. IsFiniteSet(heap') /\ Cardinality(heap') = k /\ Cardinality(heap) = k
    <3>1. Cardinality(heap) = k /\ Cardinality(pushed) = k + 1
      BY <1>1, <1>6, <1>8
    <3>2. IsFiniteSet(heap') /\ Cardinality(heap') = Cardinality(pushed) - 1
      BY <1>6, <2>1, <2>3, FS_RemoveElement
    <3> QED
      BY <1>1, <3>1, <3>2
  <2>5. k # 0
    BY <2>3, <2>4, FS_EmptySet
  <2>6. HeapSound'
    <3>1. heap' \subseteq {Hit(j) : j \in live} /\ \A e \in heap' : e.sq_dist < radius
      BY <1>1, <1>5, <2>1
    <3>2. Full' /\ Cardinality(heap') <= k
      BY <1>1, <2>4, <2>5 DEF Full
    <3> QED
      BY <2>2, <3>1, <3>2 DEF HeapSound, Hit
  <2>7. worst' \in Int /\ worst' <= worst
    <3>1. PICK e \in Fronts(heap) : worst = e.sq_dist
      BY <1>1, <2>4, <2>5 DEF Full
    <3>2. \A h \in heap : h.sq_dist <= worst
      BY <3>1 DEF Fronts
    <3>3. front \in heap \/ front = Hit(i)
      BY <2>3
    <3> QED
      BY <1>1, <1>2, <1>3, <2>2, <2>3, <3>2, <3>3
  <2>8. ASSUME NEW j \in live, j \in Taken \cup {i}, j \notin Taken'
        PROVE  Hit(j).sq_dist >= worst'
    <3>1. Hit(j) \in pushed
      BY <1>3, <1>7, <2>8
    <3>2. Hit(j) = top
      BY <1>2, <1>7, <2>1, <2>8, <3>1
    <3> QED
      BY <1>3, <2>2, <2>3, <3>2
  <2>9. Taken' \subseteq Taken \cup {i}
    BY <1>2, <1>7, <2>1
  <2> QED
    BY <2>4, <2>6, <2>7, <2>8, <2>9
<1>9. CASE ~ (Cardinality(pushed) > k)
  <2>1. heap' = pushed
    BY <1>9 DEF Push
  <2>2. Cardinality(heap) < k /\ k # 0 /\ worst = radius
    <3>1. Cardinality(heap) < k /\ k # 0
      BY <1>1, <1>6, <1>9
    <3> QED
      BY <1>1, <1>6, <3>1 DEF Full
  <2>3. /\ Cardinality(pushed) < k => worst' = radius
        /\ Cardinality(pushed) >= k => \E e \in Fronts(heap') : worst' = e.sq_dist
    <3>1. IF Cardinality(pushed) >= k
          THEN \E e \in Fronts(heap') : worst' = e.sq_dist
          ELSE worst' = worst
      BY DEF Push
    <3>2. Cardinality(pushed) \in Int /\ k \in Int
      BY <1>1, <1>6
    <3> HIDE DEF pushed
    <3> QED
      BY <2>2, <3>1, <3>2
  <2>4. HeapSound'
    <3>1. heap' \subseteq {Hit(j) : j \in live} /\ \A e \in heap' : e.sq_dist < radius
      BY <1>1, <1>5, <2>1
    <3>2. Cardinality(heap') <= k
      BY <1>1, <1>6, <1>9, <2>1
    <3>3. IF Full' THEN \E e \in Fronts(heap') : worst' = e.sq_dist ELSE worst' = radius
      <4>1. Cardinality(pushed) \in Int /\ k \in Int
        BY <1>1, <1>6
      <4>2. Full' <=> Cardinality(pushed) >= k
        BY <2>1, <2>2 DEF Full
      <4> HIDE DEF pushed
      <4> QED
        BY <2>3, <4>1, <4>2
    <3> QED
      BY <3>1, <3>2, <3>3 DEF HeapSound, Hit
  <2>5. worst' \in Int /\ worst' <= worst
    <3>1. CASE Cardinality(pushed) < k
      BY <1>1, <2>2, <2>3, <3>1
    <3>2. CASE ~ (Cardinality(pushed) < k)
      <4>1. PICK e \in Fronts(heap') : worst' = e.sq_dist
        BY <1>1, <1>6, <2>3, <3>2
      <4>2. e \in pushed
        BY <2>1, <4>1 DEF Fronts
      <4> QED
        BY <1>1, <1>3, <1>5, <2>2, <4>1, <4>2
    <3> QED
      BY <3>1, <3>2
  <2>6. Taken' = Taken \cup {i}
    BY <1>2, <1>7, <2>1
  <2> QED
    BY <1>6, <2>1, <2>4, <2>5, <2>6
<1> QED
  BY <1>8, <1>9

\* What a scan offers the heap is live and not taken yet.
LEMMA Offered ==
  ASSUME SearchInv, stack # <<>>, Running.at = "scan",
         NEW e \in Running.todo, Valid(tree.store, e)
  PROVE  /\ e.index \in LiveSlots(tree.store)
         /\ e.index \in Pending(tree, asked.query, Running)
         /\ e.index \notin Taken
<1>1. e.index \in LiveSlots(tree.store)
  BY DEF Valid, is_live, LiveSlots
<1>2. e.index \in Pending(tree, asked.query, Running)
  BY DEF Pending, ValidSlots
<1>3. Pending(tree, asked.query, Running) \cap Taken = {}
  BY RunningTyped DEF SearchInv, PendingApart, Apart, Running, TypeOK
<1> QED
  BY <1>1, <1>2, <1>3

\* The slots an entry less leads to: no two entries that are valid name one slot.
LEMMA OneLess ==
  ASSUME NEW s, NEW todo \in SUBSET [index : Slot, gen : 0 .. (GenMod - 1)],
         NEW e \in todo
  PROVE  /\ ValidSlots(s, todo \ {e}) \subseteq ValidSlots(s, todo)
         /\ Valid(s, e) => e.index \notin ValidSlots(s, todo \ {e})
         /\ \A i \in ValidSlots(s, todo) \ ValidSlots(s, todo \ {e}) : Valid(s, e) /\ i = e.index
<1>1. ASSUME NEW d \in todo, Valid(s, d), Valid(s, e), d.index = e.index
      PROVE  d = e
  <2>1. d.gen = e.gen
    BY <1>1 DEF Valid
  <2> QED
    BY <1>1, <2>1
<1> QED
  BY <1>1 DEF ValidSlots

\* The stack after an entry has been looked at: the call no longer waits for the slot
\* the entry leads to, if it leads to one.
LEMMA PassedOver ==
  ASSUME SearchInv, At("scan", TRUE), NEW e \in Running.todo, Passes(e),
         UNCHANGED <<tree, asked, axis_dist>>
  PROVE  /\ stack' \in Seq(Frame(tree))
         /\ Stepped(stack, Len(stack), stack', Len(stack))
         /\ Shared(tree, asked.query, stack, Len(stack), stack', Len(stack))
         /\ \A j \in Pending(tree, asked.query, stack[Len(stack)]) :
              \/ \E c \in Len(stack) .. Len(stack) : j \in Pending(tree, asked.query, stack'[c])
              \/ Valid(tree.store, e) /\ j = e.index
         /\ Valid(tree.store, e) =>
              \A c \in Len(stack) .. Len(stack) :
                e.index \notin Pending(tree, asked.query, stack'[c])
         /\ CallsSound' /\ ArrayRestored'
<1> DEFINE n == Len(stack)
           f == [Running EXCEPT !.todo = Running.todo \ {e}]
           i == e.index
           query == asked.query
<1>1. /\ stack # <<>> /\ Running.at = "scan" /\ Node.is_leaf
      /\ UNCHANGED <<tree, asked, axis_dist>>
      /\ stack' = [stack EXCEPT ![n] = f]
  BY DEF Passes, At, Running
<1>2. /\ n \in Nat /\ n \in 1 .. n /\ stack \in Seq(Frame(tree))
      /\ Running \in Frame(tree) /\ Running.node \in DOMAIN tree.nodes
      /\ tree \in Trees /\ query \in Plane
  BY <1>1, RunningTyped DEF SearchInv, TypeOK
<1>3. Running.todo \in SUBSET [index : Slot, gen : 0 .. (GenMod - 1)]
  BY <1>2 DEF Frame
<1>4. /\ f \in Frame(tree) /\ f.at = "scan" /\ f.node = Running.node
      /\ f.found = Running.found /\ f.todo = Running.todo \ {e}
  BY <1>1, <1>2, <1>3 DEF Frame
<1> HIDE DEF f
<1>5. /\ stack' \in Seq(Frame(tree)) /\ stack' # <<>> /\ Len(stack') = n
      /\ stack'[n] = f
      /\ \A c \in 1 .. (n - 1) : stack'[c] = stack[c]
  BY <1>1, <1>2, <1>4, Retopped
<1>6. Stepped(stack, n, stack', n)
  BY <1>2, <1>5 DEF Stepped
<1>7. /\ Pending(tree, query, stack[n]) = ValidSlots(tree.store, Running.todo)
      /\ Pending(tree, query, f) = ValidSlots(tree.store, Running.todo \ {e})
  BY <1>1, <1>4 DEF Pending, Running
<1>8. /\ Pending(tree, query, f) \subseteq Pending(tree, query, stack[n])
      /\ Valid(tree.store, e) => i \notin Pending(tree, query, f)
      /\ \A j \in Pending(tree, query, stack[n]) \ Pending(tree, query, f) :
           Valid(tree.store, e) /\ j = i
  <2>1. /\ ValidSlots(tree.store, Running.todo \ {e}) \subseteq ValidSlots(tree.store, Running.todo)
        /\ Valid(tree.store, e) => i \notin ValidSlots(tree.store, Running.todo \ {e})
        /\ \A j \in ValidSlots(tree.store, Running.todo)
                  \ ValidSlots(tree.store, Running.todo \ {e}) :
             Valid(tree.store, e) /\ j = i
    BY <1>3, OneLess
  <2> QED
    BY <1>7, <2>1
<1>9. n .. n = {n}
  BY <1>2
<1>10. Shared(tree, query, stack, n, stack', n)
  BY <1>2, <1>5, <1>8, <1>9 DEF Shared
<1>11. CallsSound'
  <2>1. CallSound(tree, query, f)
    BY <1>1, <1>4 DEF CallSound, Node
  <2>2. \A c \in n .. n : CallSound(tree, query, stack'[c])
    BY <1>5, <1>9, <2>1
  <2>3. \A c \in DOMAIN stack : CallSound(tree, query, stack[c])
    BY DEF SearchInv, CallsSound
  <2>4. \A c \in DOMAIN stack' : CallSound(tree, query, stack'[c])
    BY <1>6, <2>2, <2>3, SoundStep
  <2> QED
    BY <1>1, <2>4 DEF CallsSound
<1>12. ArrayRestored'
  <2>1. Chained(tree, query, stack')
    BY <1>2, <1>4, <1>5, <1>6, ChainedStep DEF SearchInv, ArrayRestored, Running
  <2>2. axis_dist = Running.found /\ Passed(tree, query, f) = f.found
    BY <1>1, <1>4 DEF SearchInv, ArrayRestored, Passed
  <2> QED
    BY <1>1, <1>4, <1>5, <2>1, <2>2 DEF ArrayRestored, Running
<1>13. \A c \in n .. n : stack'[c] = f
  BY <1>5, <1>9
<1> QED
  BY <1>5, <1>6, <1>8, <1>9, <1>10, <1>11, <1>12, <1>13

\* An entry that leads to no slot, or to one too far away, is of no use.
LEMMA PassInv ==
  ASSUME SearchInv, At("scan", TRUE), NEW e \in Running.todo, Passes(e),
         UNCHANGED <<tree, asked, heap, worst, axis_dist>>, ~ Meets(e)
  PROVE  SearchInv'
<1>1. Valid(tree.store, e) => Hit(e.index).sq_dist >= worst
  BY Offered, HitTyped DEF At, Meets, SearchInv, TypeOK
<1>2. /\ stack' \in Seq(Frame(tree))
      /\ Stepped(stack, Len(stack), stack', Len(stack))
      /\ Shared(tree, asked.query, stack, Len(stack), stack', Len(stack))
      /\ \A j \in Pending(tree, asked.query, stack[Len(stack)]) :
           \/ \E c \in Len(stack) .. Len(stack) : j \in Pending(tree, asked.query, stack'[c])
           \/ Valid(tree.store, e) /\ j = e.index
      /\ CallsSound' /\ ArrayRestored'
  BY PassedOver
<1>3. TypeOK'
  BY <1>2 DEF SearchInv, TypeOK
<1>4. PendingApart' /\ NoneForgotten' /\ HeapSound'
  BY <1>1, <1>2, HeapUntouched
<1> QED
  BY <1>2, <1>3, <1>4 DEF SearchInv

\* A slot is taken, and another may be given up for it.
LEMMA TakeInv ==
  ASSUME SearchInv, At("scan", TRUE), NEW e \in Running.todo, Passes(e), Meets(e),
         UNCHANGED <<tree, asked, axis_dist>>,
         HeapSound', IsFiniteSet(heap)', worst' \in Int, worst' <= worst,
         Taken' \subseteq Taken \cup {e.index},
         \A j \in LiveSlots(tree.store) :
           j \in Taken \cup {e.index} => j \in Taken' \/ Hit(j).sq_dist >= worst',
         asked.op = "any" => heap = {}
  PROVE  SearchInv'
<1> DEFINE n == Len(stack)
           i == e.index
           query == asked.query
<1>1. /\ i \in LiveSlots(tree.store) /\ i \in Pending(tree, query, stack[n])
      /\ i \notin Taken
  BY Offered DEF Running, At, Meets
<1>2. /\ stack' \in Seq(Frame(tree))
      /\ Stepped(stack, n, stack', n)
      /\ Shared(tree, query, stack, n, stack', n)
      /\ \A j \in Pending(tree, query, stack[n]) :
           \/ \E c \in n .. n : j \in Pending(tree, query, stack'[c])
           \/ Valid(tree.store, e) /\ j = i
      /\ \A c \in n .. n : i \notin Pending(tree, query, stack'[c])
      /\ CallsSound' /\ ArrayRestored'
  BY PassedOver DEF Meets
<1>3. TypeOK'
  BY <1>2 DEF SearchInv, TypeOK
<1>4. PendingApart'
  <2>1. Apart(tree, query, stack, Taken)
    BY DEF SearchInv, PendingApart
  <2>2. \A j \in Taken' : \/ j \in Taken
                         \/ /\ j \in Pending(tree, query, stack[n])
                            /\ \A c \in n .. n : j \notin Pending(tree, query, stack'[c])
    BY <1>1, <1>2
  <2>3. Apart(tree, query, stack', Taken')
    BY <1>2, <2>1, <2>2, ApartStep
  <2> QED
    BY <2>3 DEF PendingApart
<1>5. NoneForgotten'
  <2> SUFFICES ASSUME ~ (asked.op = "search" /\ asked.k_max = 0),
                      NEW j \in LiveSlots(tree.store)
               PROVE  \/ j \in Taken' \/ Awaited(tree, query, stack', j)
                      \/ Hit(j).sq_dist >= worst'
    BY DEF NoneForgotten, Hit
  <2>1. CASE j \in Taken \cup {i}
    BY <2>1
  <2>2. CASE Hit(j).sq_dist >= worst
    BY <2>2, HitTyped DEF SearchInv, TypeOK
  <2>3. CASE Awaited(tree, query, stack, j) /\ j # i
    <3>1. \/ Awaited(tree, query, stack', j)
          \/ /\ j \in Pending(tree, query, stack[n])
             /\ \A c \in n .. n : j \notin Pending(tree, query, stack'[c])
      BY <1>2, <2>3, AwaitedStep
    <3> QED
      BY <1>2, <2>3, <3>1
  <2> QED
    BY <2>1, <2>2, <2>3 DEF SearchInv, NoneForgotten
<1> QED
  BY <1>2, <1>3, <1>4, <1>5 DEF SearchInv

\* A step of scan_leaf(), of collect_leaf() and of any_within_leaf().
LEMMA ScanInv ==
  ASSUME SearchInv, stack # <<>>, NEW e \in Running.todo, Scan(e)
  PROVE  SearchInv'
<1>1. /\ At("scan", TRUE) /\ Passes(e) /\ asked.op = "search"
      /\ UNCHANGED <<tree, asked, axis_dist>>
      /\ IF Meets(e) THEN Push(e.index) ELSE UNCHANGED <<heap, worst>>
  BY DEF Scan
<1>2. CASE Meets(e)
  <2>1. /\ e.index \in LiveSlots(tree.store) /\ e.index \notin Taken
        /\ Hit(e.index).sq_dist < worst
    BY <1>1, <1>2, Offered DEF At, Meets
  <2>2. /\ HeapSound' /\ IsFiniteSet(heap)' /\ worst' \in Int /\ worst' <= worst
        /\ Taken' \subseteq Taken \cup {e.index}
        /\ \A j \in LiveSlots(tree.store) :
             j \in Taken \cup {e.index} => j \in Taken' \/ Hit(j).sq_dist >= worst'
    BY <1>1, <1>2, <2>1, PushSound
  <2> QED
    BY <1>1, <1>2, <2>2, TakeInv
<1>3. CASE ~ Meets(e)
  BY <1>1, <1>3, PassInv
<1> QED
  BY <1>2, <1>3

\* What is added without a limit.
LEMMA Added ==
  ASSUME SearchInv, At("scan", TRUE), NEW e \in Running.todo, Meets(e),
         asked.op # "search", UNCHANGED <<tree, asked, worst>>,
         heap' = heap \cup {Hit(e.index)}
  PROVE  HeapSound' /\ IsFiniteSet(heap)' /\ Taken' = Taken \cup {e.index}
<1>1. /\ IsFiniteSet(heap) /\ worst = asked.sq_radius
      /\ heap \subseteq {Hit(j) : j \in LiveSlots(tree.store)}
      /\ \A h \in heap : h.sq_dist < asked.sq_radius
  BY DEF SearchInv, TypeOK, HeapSound, Full
<1>2. e.index \in LiveSlots(tree.store) /\ Hit(e.index).sq_dist < worst
  BY Offered DEF At, Meets
<1>3. IsFiniteSet(heap')
  BY <1>1, FS_AddElement
<1>4. HeapSound'
  <2>1. ~ Full'
    BY DEF Full
  <2> QED
    BY <1>1, <1>2, <2>1 DEF HeapSound, Hit
<1>5. Taken' = Taken \cup {e.index}
  <2>1. Hit(e.index).index = e.index
    BY DEF Hit, HeapEntry
  <2>2. Taken' = {h.index : h \in heap \cup {Hit(e.index)}}
    BY DEF Taken
  <2> QED
    BY <2>1, <2>2 DEF Taken
<1> QED
  BY <1>3, <1>4, <1>5

\* A step of collect_leaf().
LEMMA CollectInv ==
  ASSUME SearchInv, stack # <<>>, NEW e \in Running.todo, Collect(e)
  PROVE  SearchInv'
<1>1. /\ At("scan", TRUE) /\ Passes(e) /\ asked.op = "collect"
      /\ UNCHANGED <<tree, asked, worst, axis_dist>>
      /\ heap' = IF Meets(e) THEN heap \cup {Hit(e.index)} ELSE heap
  BY DEF Collect
<1>2. CASE Meets(e)
  <2>1. HeapSound' /\ IsFiniteSet(heap)' /\ Taken' = Taken \cup {e.index}
    BY <1>1, <1>2, Added
  <2>2. worst' \in Int /\ worst' <= worst
    BY <1>1 DEF SearchInv, TypeOK
  <2> QED
    BY <1>1, <1>2, <2>1, <2>2, TakeInv
<1>3. CASE ~ Meets(e)
  BY <1>1, <1>3, PassInv
<1> QED
  BY <1>2, <1>3

\* A step of any_within_leaf(), and the return of every call once it has found a slot.
LEMMA FindInv ==
  ASSUME SearchInv, stack # <<>>, NEW e \in Running.todo, Find(e)
  PROVE  SearchInv'
<1>1. /\ At("scan", TRUE) /\ asked.op = "any"
      /\ UNCHANGED <<tree, asked, worst, axis_dist>>
      /\ IF Meets(e)
         THEN stack' = <<>> /\ heap' = {Hit(e.index)}
         ELSE Passes(e) /\ UNCHANGED heap
  BY DEF Find
<1>2. CASE Meets(e)
  <2>1. IsFiniteSet(heap')
    BY <1>1, <1>2, FS_Singleton
  <2>2. /\ e.index \in LiveSlots(tree.store) /\ Hit(e.index).sq_dist < worst
        /\ worst = asked.sq_radius
    BY <1>1, <1>2, Offered DEF At, Meets, SearchInv, HeapSound, Full
  <2>3. TypeOK'
    BY <1>1, <1>2, <2>1 DEF SearchInv, TypeOK
  <2>4. HeapSound'
    <3>1. ~ Full'
      BY <1>1 DEF Full
    <3> QED
      BY <1>1, <1>2, <2>2, <3>1 DEF HeapSound, Hit
  <2>5. PendingApart' /\ NoneForgotten' /\ CallsSound' /\ ArrayRestored'
    <3>1. stack' = <<>> /\ DOMAIN stack' = {}
      BY <1>1, <1>2
    <3>2. NoneForgotten'
      BY <1>1, <1>2 DEF NoneForgotten
    <3>3. PendingApart' /\ CallsSound'
      BY <3>1 DEF PendingApart, Apart, CallsSound
    <3>4. ArrayRestored'
      BY <3>1 DEF ArrayRestored, Chained
    <3> QED
      BY <3>2, <3>3, <3>4
  <2> QED
    BY <2>3, <2>4, <2>5 DEF SearchInv
<1>3. CASE ~ Meets(e)
  BY <1>1, <1>3, PassInv
<1> QED
  BY <1>2, <1>3

(* The far child of collect_descend() and any_within_descend(). *)

\* What is below the far child is no nearer than the split plane.
LEMMA BeyondSplit ==
  ASSUME SearchInv, At("near", FALSE), NEW i \in tree.below[FarChild(Node, asked.query)]
  PROVE  /\ PlaneDist(Node, asked.query) <= Hit(i).sq_dist
         /\ PlaneDist(Node, asked.query) \in Int /\ Hit(i).sq_dist \in Int
<1> DEFINE query == asked.query
           dim == Node.split_dim
           part == PlaneDist(Node, query)
           x == Square(tree.store.points[i][1] - query[1])
           y == Square(tree.store.points[i][2] - query[2])
<1>1. /\ stack # <<>> /\ ~ Node.is_leaf /\ Running.node \in DOMAIN tree.nodes
      /\ tree \in Trees /\ query \in Plane
  BY RunningTyped DEF At
<1>2. /\ FarChild(Node, query) \in DOMAIN tree.nodes /\ dim \in Axis /\ part \in Int
      /\ part <= Square(tree.store.points[i][dim] - query[dim])
  BY <1>1, Children DEF Node
<1>3. tree.store.points[i] \in Plane
  BY <1>1, <1>2, BelowTyped
<1>4. x \in Nat /\ y \in Nat
  <2>1. /\ tree.store.points[i][1] - query[1] \in Int
        /\ tree.store.points[i][2] - query[2] \in Int
    BY <1>1, <1>3 DEF Plane
  <2> QED
    BY <2>1, SquareInt
<1>5. part <= x \/ part <= y
  BY <1>2 DEF Axis
<1>6. Hit(i).sq_dist = x + y
  BY DEF Hit, HeapEntry, sq_dist
<1> HIDE DEF x, y, part
<1>7. part <= Hit(i).sq_dist /\ Hit(i).sq_dist \in Int
  BY <1>2, <1>4, <1>5, <1>6
<1> QED
  BY <1>2, <1>7 DEF part

\* A far child that is skipped holds nothing within the radius.
LEMMA StayNearInv ==
  ASSUME SearchInv, StayNear
  PROVE  SearchInv'
<1>1. /\ stack # <<>> /\ Running.at = "near" /\ PlaneDist(Node, asked.query) >= worst /\ Leave
      /\ At("near", FALSE)
      /\ UNCHANGED <<tree, asked, heap, worst, axis_dist>>
  BY DEF StayNear, At
<1>2. axis_dist' = Running.found
  BY <1>1, FarBounds
<1>3. ASSUME NEW i \in Pending(tree, asked.query, Running)
      PROVE  Hit(i).sq_dist >= worst
  <2>1. i \in tree.below[FarChild(Node, asked.query)]
    BY <1>1 DEF Pending, Node
  <2> QED
    BY <1>1, <2>1, BeyondSplit DEF SearchInv, TypeOK
<1> QED
  BY <1>1, <1>2, <1>3, Returned

\* The far child is called last.
LEMMA CrossPlaneInv ==
  ASSUME SearchInv, CrossPlane
  PROVE  SearchInv'
<1> DEFINE far == FarChild(Node, asked.query)
           f == [Running EXCEPT !.at = "tail"]
           g == Called(far, Running.min_dist, axis_dist)
<1>1. /\ stack # <<>> /\ Running.at = "near" /\ ~ Node.is_leaf
      /\ UNCHANGED <<tree, asked, heap, worst, axis_dist>>
      /\ Running \in Frame(tree) /\ Running.node \in DOMAIN tree.nodes
      /\ tree \in Trees /\ asked.query \in Plane
      /\ stack \in Seq(Frame(tree)) /\ Len(stack) \in 1 .. Len(stack)
  BY RunningTyped DEF CrossPlane, At, SearchInv, TypeOK
<1>2. /\ axis_dist \in [Axis -> Int] /\ axis_dist = Running.found
  BY <1>1 DEF SearchInv, TypeOK, ArrayRestored, Passed
<1>3. far \in DOMAIN tree.nodes /\ tree.below[far] \subseteq tree.below[Running.node]
  <2>1. /\ tree \in Trees /\ Running.node \in DOMAIN tree.nodes
        /\ ~ tree.nodes[Running.node].is_leaf /\ asked.query \in Plane
    BY <1>1 DEF Node
  <2>2. far \in DOMAIN tree.nodes
    BY <2>1, Children DEF Node
  <2>3. tree.below[Running.node] = tree.below[NearChild(Node, asked.query)] \cup tree.below[far]
    BY <2>1, Children DEF Node
  <2> QED
    BY <2>2, <2>3
<1>4. /\ f \in Frame(tree) /\ g \in Frame(tree)
      /\ f.at = "tail" /\ f.node = Running.node /\ f.found = Running.found
      /\ g.at = "entry" /\ g.node = far /\ g.found = axis_dist
      /\ g.min_dist = Running.min_dist
  <2>1. Running.min_dist \in Int
    BY <1>1 DEF Frame
  <2>2. f \in Frame(tree) /\ f.at = "tail" /\ f.node = Running.node /\ f.found = Running.found
    BY <1>1 DEF Frame
  <2> QED
    BY <1>2, <1>3, <2>1, <2>2, CalledTyped
<1>5. stack' = Append([stack EXCEPT ![Len(stack)] = f], g)
  BY DEF CrossPlane, Suspended, Running
<1> HIDE DEF f, g
<1>6. Bounded(tree, asked.query, Running)
  <2>1. CallSound(tree, asked.query, Running)
    BY <1>1 DEF SearchInv, CallsSound, Running
  <2> QED
    BY <1>1, <2>1 DEF CallSound
<1>7. CallSound(tree, asked.query, f)
  BY <1>4 DEF CallSound
<1>8. CallSound(tree, asked.query, g)
  BY <1>2, <1>3, <1>4, <1>6 DEF CallSound, Bounded
<1>9. /\ Pending(tree, asked.query, Running) = tree.below[far]
      /\ Pending(tree, asked.query, f) = {}
      /\ Pending(tree, asked.query, g) = tree.below[far]
  BY <1>1, <1>4 DEF Pending, Node
<1>10. axis_dist' = Passed(tree, asked.query, f)
  BY <1>1, <1>2, <1>4 DEF Passed
<1>11. /\ Pending(tree, asked.query, f) \cap Pending(tree, asked.query, g) = {}
       /\ Pending(tree, asked.query, f) \cup Pending(tree, asked.query, g)
            = Pending(tree, asked.query, Running)
  BY <1>9
<1> QED
  BY <1>1, <1>2, <1>4, <1>5, <1>7, <1>8, <1>10, <1>11, Descended

\* It has returned.
LEMMA LeaveTailInv ==
  ASSUME SearchInv, LeaveTail
  PROVE  SearchInv'
<1>1. /\ stack # <<>> /\ Running.at = "tail" /\ Leave
      /\ UNCHANGED <<tree, asked, heap, worst, axis_dist>>
  BY DEF LeaveTail, At
<1>2. Pending(tree, asked.query, Running) = {}
  BY <1>1 DEF Pending
<1>3. axis_dist' = Running.found
  BY <1>1 DEF SearchInv, ArrayRestored, Passed
<1> QED
  BY <1>1, <1>2, <1>3, Returned

(* A search starts. *)

\* Before the first search nothing is asked.
LEMMA InitInv ==
  ASSUME Init
  PROVE  SearchInv
<1>1. /\ tree \in Trees /\ asked = Nothing /\ stack = <<>> /\ heap = {}
      /\ worst = 0 /\ axis_dist = [a \in Axis |-> 0]
  BY DEF Init
<1>2. asked.op = "search" /\ asked.k_max = 0 /\ asked.sq_radius = 0
  BY <1>1 DEF Nothing
<1>3. IsFiniteSet(heap) /\ Cardinality(heap) = 0
  BY <1>1, FS_EmptySet
<1>4. TypeOK
  BY <1>1, <1>3 DEF TypeOK, Nothing, Plane
<1>5. PendingApart /\ NoneForgotten /\ CallsSound /\ ArrayRestored
  BY <1>1, <1>2 DEF PendingApart, Apart, NoneForgotten, CallsSound, ArrayRestored, Chained
<1>6. HeapSound
  BY <1>1, <1>2, <1>3 DEF HeapSound, Full
<1> QED
  BY <1>4, <1>5, <1>6 DEF SearchInv

\* A search starts with all live slots waiting, below the root.
LEMMA StartInv ==
  ASSUME SearchInv, NEW op \in {"search", "collect", "any"},
         NEW query \in Plane, NEW k_max \in Nat, NEW sq_radius \in Int,
         Start(op, query, k_max, sq_radius)
  PROVE  SearchInv'
<1> DEFINE zeros == [a \in Axis |-> 0]
           idle == tree.root = INVALID \/ (op = "search" /\ k_max = 0)
           first == Called(tree.root, 0, zeros)
           live == LiveSlots(tree.store)
<1>1. /\ UNCHANGED tree /\ tree \in Trees
      /\ asked' = [op |-> op, query |-> query, k_max |-> k_max, sq_radius |-> sq_radius]
      /\ heap' = {} /\ worst' = sq_radius /\ axis_dist' = zeros
      /\ stack' = IF idle THEN <<>> ELSE <<first>>
  BY DEF Start, SearchInv, TypeOK
<1>2. /\ asked'.op = op /\ asked'.query = query /\ asked'.k_max = k_max
      /\ asked'.sq_radius = sq_radius
  BY <1>1
<1>3. /\ tree.root = INVALID => live = {}
      /\ tree.root # INVALID => tree.root \in DOMAIN tree.nodes /\ tree.below[tree.root] = live
  BY <1>1, TreesAssumption DEF Searchable
<1>4. zeros \in [Axis -> Int]
  OBVIOUS
<1>5. ASSUME ~ idle
      PROVE  /\ first \in Frame(tree) /\ first.at = "entry" /\ first.node = tree.root
             /\ first.min_dist = 0 /\ first.found = zeros
  <2>1. tree.root \in DOMAIN tree.nodes
    BY <1>3, <1>5
  <2>2. 0 \in Int
    OBVIOUS
  <2> HIDE DEF zeros
  <2> QED
    BY <1>4, <2>1, <2>2, CalledTyped
<1>6. IsFiniteSet(heap') /\ Cardinality(heap') = 0
  BY <1>1, FS_EmptySet
<1> HIDE DEF zeros, first
<1>7. stack' \in Seq(Frame(tree))
  <2>1. CASE idle
    BY <1>1, <2>1
  <2>2. CASE ~ idle
    BY <1>1, <1>5, <2>2
  <2> QED
    BY <2>1, <2>2
<1>8. TypeOK'
  BY <1>1, <1>2, <1>4, <1>6, <1>7 DEF TypeOK
<1>9. /\ DOMAIN stack' \subseteq {1}
      /\ \A c \in DOMAIN stack' : ~ idle /\ stack'[c] = first
      /\ ~ idle => 1 \in DOMAIN stack' /\ stack' # <<>> /\ Len(stack') = 1 /\ stack'[1] = first
      /\ stack' # <<>> => ~ idle
  BY <1>1
<1>10. Taken' = {}
  BY <1>1 DEF Taken
<1>11. PendingApart'
  BY <1>9, <1>10 DEF PendingApart, Apart
<1>12. NoneForgotten'
  <2> SUFFICES ASSUME ~ (op = "search" /\ k_max = 0), NEW i \in live
               PROVE  Awaited(tree, query, stack', i)
    BY <1>1, <1>2 DEF NoneForgotten
  <2>1. ~ idle
    BY <1>3
  <2>2. Pending(tree, query, first) = live
    BY <1>3, <1>5, <2>1 DEF Pending
  <2> QED
    BY <1>9, <2>1, <2>2 DEF Awaited
<1>13. HeapSound'
  <2>1. ~ Full'
    BY <1>2, <1>6 DEF Full
  <2> QED
    BY <1>1, <1>2, <1>6, <2>1 DEF HeapSound
<1>14. CallsSound'
  <2> SUFFICES ASSUME ~ idle
               PROVE  CallSound(tree, query, first)
    BY <1>1, <1>2, <1>9 DEF CallsSound
  <2>1. first.found[1] = 0 /\ first.found[2] = 0 /\ \A a \in Axis : first.found[a] = 0
    BY <1>5 DEF zeros, Axis
  <2>2. ASSUME NEW i \in tree.below[first.node], NEW a \in Axis
        PROVE  first.found[a] <= Square(tree.store.points[i][a] - query[a])
    <3>1. tree.store.points[i] \in Plane
      BY <1>1, <1>3, <1>5, LiveTyped
    <3>2. tree.store.points[i][a] - query[a] \in Int
      BY <1>2, <3>1 DEF Plane, Axis
    <3> QED
      BY <2>1, <3>2, SquareInt
  <2> QED
    BY <1>5, <2>1, <2>2 DEF CallSound, Bounded
<1>15. ArrayRestored'
  <2>1. Chained(tree, query, stack')
    BY <1>9 DEF Chained
  <2>2. stack' # <<>> => axis_dist' = Passed(tree, query, stack'[Len(stack')])
    BY <1>1, <1>5, <1>9 DEF Passed
  <2> QED
    BY <1>1, <1>2, <2>1, <2>2 DEF ArrayRestored, Running
<1> QED
  BY <1>8, <1>11, <1>12, <1>13, <1>14, <1>15 DEF SearchInv

(* The theorems. *)

\* Every step keeps the invariant.
LEMMA StepInv ==
  ASSUME SearchInv, [Next]_vars
  PROVE  SearchInv'
<1>1. ASSUME NEW query \in Queries, NEW k_max \in Ks, NEW sq_radius \in Radii,
             Search(query, k_max, sq_radius)
      PROVE  SearchInv'
  BY <1>1, StartInv, PlaneAssumption, QuestionAssumption DEF Search
<1>2. ASSUME NEW query \in Queries, NEW sq_radius \in Radii,
             CollectIndicesWithin(query, sq_radius) \/ AnyWithin(query, sq_radius)
      PROVE  SearchInv'
  BY <1>2, StartInv, PlaneAssumption, QuestionAssumption
     DEF CollectIndicesWithin, AnyWithin
<1>3. CASE EnterLeaf
  BY <1>3, EnterLeafInv
<1>4. ASSUME stack # <<>>, NEW e \in Running.todo, Scan(e) \/ Collect(e) \/ Find(e)
      PROVE  SearchInv'
  BY <1>4, ScanInv, CollectInv, FindInv
<1>5. CASE LeaveLeaf
  BY <1>5, LeaveLeafInv
<1>6. CASE EnterNear
  BY <1>6, EnterNearInv
<1>7. CASE SkipFar \/ EnterFar
  BY <1>7, SkipFarInv, EnterFarInv
<1>8. CASE LeaveFar
  BY <1>8, LeaveFarInv
<1>9. CASE StayNear \/ CrossPlane
  BY <1>9, StayNearInv, CrossPlaneInv
<1>10. CASE LeaveTail
  BY <1>10, LeaveTailInv
<1>11. CASE UNCHANGED vars
  BY <1>11 DEF vars, SearchInv, TypeOK, PendingApart, NoneForgotten, HeapSound, CallsSound,
               ArrayRestored, Taken, Hit, Full, Running
<1>12. CASE \E query \in Queries, sq_radius \in Radii :
              \/ \E k_max \in Ks : Search(query, k_max, sq_radius)
              \/ CollectIndicesWithin(query, sq_radius)
              \/ AnyWithin(query, sq_radius)
  BY <1>1, <1>2, <1>12
<1>13. CASE stack # <<>> /\ \E e \in Running.todo : Scan(e) \/ Collect(e) \/ Find(e)
  BY <1>4, <1>13
<1> QED
  BY <1>3, <1>5, <1>6, <1>7, <1>8, <1>9, <1>10, <1>11, <1>12, <1>13 DEF Next

\* While search() runs, what its calls still wait for, what they pass one another in
\* min_sq_axis_dist and what the heap holds fit together as SearchInv says.
THEOREM SearchInvariant == Spec => []SearchInv
<1>1. Init => SearchInv
  BY InitInv
<1>2. SearchInv /\ [Next]_vars => SearchInv'
  BY StepInv
<1> QED
  BY <1>1, <1>2, PTL DEF Spec

\* A heap holds as many entries as slots.
LEMMA TakenCounted ==
  ASSUME SearchInv
  PROVE  IsFiniteSet(Taken) /\ Cardinality(Taken) = Cardinality(heap)
<1> DEFINE slot == [e \in heap |-> e.index]
<1>1. IsFiniteSet(heap) /\ \A e \in heap : e = Hit(e.index)
  BY DEF SearchInv, TypeOK, HeapSound, Hit, HeapEntry
<1>2. slot \in [heap -> Taken]
  BY DEF Taken
<1>3. \A a, b \in heap : slot[a] = slot[b] => a = b
  BY <1>1
<1>4. \A i \in Taken : \E e \in heap : slot[e] = i
  BY DEF Taken
<1>5. slot \in Surjection(heap, Taken) /\ slot \in Injection(heap, Taken)
  BY <1>2, <1>3, <1>4 DEF Surjection, Injection, IsInjective
<1> QED
  BY <1>1, <1>5, FS_Surjection

\* What the invariant comes to when search() has returned.
LEMMA ReturnedNearest ==
  ASSUME SearchInv, stack = <<>>, asked.op = "search"
  PROVE  Nearest(tree.store, asked.query, asked.k_max, asked.sq_radius, heap)
<1> DEFINE k == asked.k_max
           radius == asked.sq_radius
           close == Within(tree.store, asked.query, radius)
<1>1. /\ k \in Nat /\ radius \in Int /\ worst \in Int /\ IsFiniteSet(heap)
      /\ heap \subseteq {Hit(i) : i \in LiveSlots(tree.store)}
      /\ \A e \in heap : e.sq_dist < radius
      /\ Cardinality(heap) <= k
      /\ Cardinality(heap) < k => worst = radius
      /\ k # 0 /\ ~ (Cardinality(heap) < k) => \E e \in Fronts(heap) : worst = e.sq_dist
  <2>1. Cardinality(heap) \in Nat
    BY FS_CardinalityType DEF SearchInv, TypeOK
  <2> QED
    BY <2>1 DEF SearchInv, TypeOK, HeapSound, Full
<1>2. \A i : /\ Hit(i).index = i
             /\ Hit(i).sq_dist = sq_dist(tree.store.points[i], asked.query)
  BY DEF Hit, HeapEntry
<1>3. \A i \in LiveSlots(tree.store) : Hit(i).sq_dist \in Int
  BY HitTyped
<1>4. \A e \in heap : /\ e.index \in LiveSlots(tree.store) /\ e = Hit(e.index)
                      /\ e.sq_dist \in Int
  BY <1>1, <1>2, <1>3
<1>5. \A i : i \in close <=> i \in LiveSlots(tree.store) /\ Hit(i).sq_dist < radius
  BY <1>2 DEF Within
<1>6. Taken \subseteq close
  BY <1>1, <1>4, <1>5 DEF Taken
<1>7. IsFiniteSet(Taken) /\ Cardinality(Taken) = Cardinality(heap)
  BY TakenCounted
<1>8. IsFiniteSet(close)
  <2>1. IsFiniteSet(Slot)
    BY CapacityAssumption, FS_Interval DEF Slot
  <2>2. close \in SUBSET Slot
    BY DEF Within, LiveSlots
  <2> QED
    BY <2>1, <2>2, FS_Subset
<1>9. /\ Cardinality(Taken) \in Nat /\ Cardinality(close) \in Nat
      /\ Cardinality(Taken) <= Cardinality(close)
  BY <1>6, <1>7, <1>8, FS_Subset, FS_CardinalityType
<1>10. ASSUME k # 0, NEW i \in LiveSlots(tree.store), i \notin Taken
       PROVE  Hit(i).sq_dist >= worst
  BY <1>10 DEF SearchInv, NoneForgotten, Awaited
<1>11. ASSUME k # 0, Cardinality(heap) < k
       PROVE  close = Taken
  <2>1. worst = radius
    BY <1>1, <1>11
  <2> SUFFICES ASSUME NEW i \in close, i \notin Taken
               PROVE  FALSE
    BY <1>6
  <2>2. i \in LiveSlots(tree.store) /\ Hit(i).sq_dist < radius
    BY <1>5
  <2> QED
    BY <1>1, <1>3, <1>10, <1>11, <2>1, <2>2
<1>12. Cardinality(Taken) = Lower(k, Cardinality(close))
  <2>1. CASE Cardinality(heap) < k
    BY <1>1, <1>7, <1>9, <1>11, <2>1 DEF Lower
  <2>2. CASE ~ (Cardinality(heap) < k)
    BY <1>1, <1>7, <1>9, <2>2 DEF Lower
  <2> QED
    BY <2>1, <2>2
<1>13. ASSUME NEW e \in heap, NEW j \in close \ Taken
       PROVE  e.sq_dist <= Hit(j).sq_dist
  <2>1. Cardinality(heap) # 0 /\ k # 0
    BY <1>1, <1>7, <1>9, FS_EmptySet
  <2>2. ~ (Cardinality(heap) < k)
    BY <1>11, <1>13, <2>1
  <2>3. e.sq_dist <= worst
    BY <1>1, <2>1, <2>2 DEF Fronts
  <2>4. j \in LiveSlots(tree.store) /\ Hit(j).sq_dist >= worst
    BY <1>5, <1>10, <2>1
  <2> QED
    BY <1>1, <1>3, <1>4, <2>3, <2>4
<1>14. \A e \in heap : e.sq_dist = sq_dist(tree.store.points[e.index], asked.query)
  BY <1>2, <1>4
<1> HIDE DEF close
<1>15. Taken = {e.index : e \in heap}
  BY DEF Taken
<1> QED
  BY <1>2, <1>6, <1>7, <1>12, <1>13, <1>14, <1>15 DEF Nearest, close

\* And the two searches without a limit.
LEMMA ReturnedWithin ==
  ASSUME SearchInv, stack = <<>>, asked.op # "search"
  PROVE  LET within == Within(tree.store, asked.query, asked.sq_radius)
         IN  /\ Taken \subseteq within
             /\ \/ within \subseteq Taken
                \/ asked.op = "any" /\ heap # {}
<1> DEFINE within == Within(tree.store, asked.query, asked.sq_radius)
<1>1. /\ worst = asked.sq_radius /\ worst \in Int
      /\ heap \subseteq {Hit(i) : i \in LiveSlots(tree.store)}
      /\ \A e \in heap : e.sq_dist < asked.sq_radius
  BY DEF SearchInv, TypeOK, HeapSound, Full
<1>2. \A i : i \in within <=> i \in LiveSlots(tree.store) /\ Hit(i).sq_dist < asked.sq_radius
  BY DEF Within, Hit, HeapEntry
<1>3. Taken \subseteq within
  BY <1>1, <1>2 DEF Taken, Hit, HeapEntry
<1>4. ASSUME ~ (asked.op = "any" /\ heap # {}), NEW i \in within
      PROVE  i \in Taken
  <2>1. ~ Awaited(tree, asked.query, stack, i)
    BY DEF Awaited
  <2>2. i \in Taken \/ Hit(i).sq_dist >= worst
    BY <1>2, <1>4, <2>1 DEF SearchInv, NoneForgotten
  <2>3. Hit(i).sq_dist \in Int /\ Hit(i).sq_dist < worst
    BY <1>1, <1>2, HitTyped
  <2> QED
    BY <1>1, <2>2, <2>3
<1> QED
  BY <1>3, <1>4

\* What the invariant comes to when any of the searches has returned.
LEMMA ReturnedExact ==
  ASSUME SearchInv
  PROVE  Exact
<1> SUFFICES ASSUME stack = <<>>
             PROVE  LET within == Within(tree.store, asked.query, asked.sq_radius)
                    IN  /\ asked.op = "search" =>
                             Nearest(tree.store, asked.query, asked.k_max, asked.sq_radius, heap)
                        /\ asked.op = "collect" => Taken = within
                        /\ asked.op = "any" => (heap # {}) = (within # {})
  BY DEF Exact
<1> DEFINE within == Within(tree.store, asked.query, asked.sq_radius)
<1>1. asked.op = "search" =>
        Nearest(tree.store, asked.query, asked.k_max, asked.sq_radius, heap)
  BY ReturnedNearest
<1>2. ASSUME asked.op # "search"
      PROVE  /\ Taken \subseteq within
             /\ within \subseteq Taken \/ (asked.op = "any" /\ heap # {})
  BY <1>2, ReturnedWithin
<1>3. heap # {} <=> Taken # {}
  BY DEF Taken
<1> HIDE DEF within
<1>4. asked.op = "collect" => Taken = within
  BY <1>2
<1>5. asked.op = "any" => (heap # {}) = (within # {})
  BY <1>2, <1>3
<1> QED
  BY <1>1, <1>4, <1>5 DEF within

\* Whatever tree a search ran on, in whatever order it met the entries and whichever of
\* several farthest ones the heap dropped: when it has returned, search() holds k_max
\* nearest of the live slots within the radius, or all there are,
\* collect_indices_within() holds all of them, and any_within() knows if there are any.
THEOREM SearchExact == Spec => []Exact
<1>1. SearchInv => Exact
  BY ReturnedExact
<1> QED
  BY <1>1, SearchInvariant, PTL

\* No slot is offered to the heap while it holds it, and none is appended twice to the
\* matches: neither sequence, which the code does not search for duplicates, ever gets
\* one.
THEOREM SearchNoneTwice == Spec => NoneTwice
<1>1. ASSUME SearchInv, stack # <<>>, NEW e \in Running.todo, Scan(e) \/ Collect(e),
             Valid(tree.store, e)
      PROVE  e.index \notin Taken
  BY <1>1, Offered DEF Scan, Collect, At
<1>2. SearchInv /\ [Next]_vars =>
        [stack # <<>> =>
           \A e \in Running.todo :
             (Scan(e) \/ Collect(e)) /\ Valid(tree.store, e) => e.index \notin Taken]_vars
  BY <1>1
<1> QED
  BY <1>2, SearchInvariant, PTL DEF Spec, NoneTwice

=============================================================================
