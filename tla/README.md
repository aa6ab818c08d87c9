# A verification of copse

copse is a C++20 library: a kd-tree over a fixed number of slots, for points that stream in, are queried
and age out. This directory models it, and the two viewers that come with it, in TLA+, checks the models
with TLC on small instances and proves, with TLAPS, what holds of its slot store, of its stamp discipline,
of the partition its tree keeps, of its calls and what they promise, of its searches and spatial deletes, of its
partial rebuilds and of its handles for every value of the parameters.

The library is sequential. Its header says that the caller serialises all calls on one tree
(`include/copse/kd_tree.hpp`), it starts no thread, keeps no file and registers no callback. Its difficulty
is elsewhere: it forgets points without looking for the places that refer to them, keeps counters that
are never recomputed, reorganises itself by thresholds on those counters, and allocates in the middle of
all this, where any call "may throw" (`kd_tree.hpp`). What goes wrong in such code takes a long sequence of
legal calls, which is what a model checker enumerates.

## The system

| Component | State | Operations | Hard part | What makes it correct |
|---|---|---|---|---|
| `PointStore` | points, live bits, generations, a circular buffer with head and tail, back-pointers | `acquire`, `release`, `for_each_live` | one buffer is both eviction queue and free list; `release` follows a back-pointer unchecked; wrap-around; eviction and reuse in one call | the buffer stays a permutation, its window the live slots; a reused slot gets a new stamp |
| `TreeNode`, `LeafBucket` | node pool, bucket pool, box pool, counters per node | `allocate`, `push` | nothing removes an entry from a bucket; 16-bit capacities; pools that only grow | a bucket always has room; entries of dead points are recognised |
| `TreeBuilder` | `modified_nodes_`, root box, the pools by reference | build, `insert_index`, `tombstone_index`, `box_delete`, `radius_crop`, the two sweeps | ties with a split plane; counters that drift; records of modified nodes that must not outlive a call | points lie in their cells and boxes; no live point is lost; sweeps leave no violator with live points below it |
| `SearchKernel` | none | `any_within`, `collect_indices_within`, `search` | pruning bounds, strict or inclusive at the border, leftovers in buckets | each search equals a scan of the live points |
| `KDTreeImpl` | the store, the pools, the root, the configuration | `insert`, `remove`, `box_delete`, `radius_crop`, `rebuild_all`, searches | duplicates inside a batch that also evicts; the tree half-way through a batch | the set of points and the returned count are what the client is promised |
| `BBox`, `Point` | none | `expand`, `contains`, `disjoint`, distances | inclusive and strict borders | a box that is discarded or swallowed is judged as all of its points would be |
| `KDTree` facade, `Config` | pointer to the implementation | construct, move, destroy, forwards | validation with NaN about; moves, also onto itself | only legal configurations are accepted; objects are independent values |
| `public_viz` | the tree, a drawn cloud, highlights | buttons | sees the tree through searches alone | the screen shows the live points and one query's hits |
| `structure_viz`, `InspectableKdTree` | the tree built from the library's parts, two queues, a drawn scene, highlights | buttons, a step of animation per frame | queues drained while other buttons are pressed | what is drawn is the tree; deletions prevail; the queues drain |

`KDTreeImpl` calls `PointStore::acquire`, then `TreeBuilder::insert_index`, with no message back when
`acquire` evicts: the tree learns of an eviction only when a scan meets an entry whose stamp is out of date.
`remove` asks `SearchKernel` for slots, tells `TreeBuilder` to discount each, then releases it. The spatial
deletes release slots from inside the builder. Each call ends with a sweep that rebuilds subtrees that are
out of balance or hold too many dead points. `structure_viz` drives the store, the builder and the kernel
itself, through `InspectableKdTree`; `public_viz` calls `KDTree`.

## The modules

| Module | Models | Notes |
|---|---|---|
| `PointStore` | `point_store.cpp` | the store is one record; `Acquired` and `Released` map stores to stores so that a caller can compose them |
| `PointStoreSpec` | the store as a state machine | any client that releases live slots only |
| `EvictionQueue` | what the store promises | a queue of handles; `Spec` as the code behaves, `FifoSpec` as its comment says |
| `StampedEntries` | the stamp discipline between store and buckets | no tree and no queue: any leftover may be dropped at any time |
| `Geometry` | `bbox.hpp`, `point.hpp` | two dimensions, integers |
| `Regions` | the tests of `box_delete` and `radius_crop` | a region judges a point, or a box for all of its points |
| `Floats` | comparisons of floats, for `Config` | NaN and two zeros; no arithmetic |
| `BucketEntries` | `leaf_bucket.hpp` | what an entry of a bucket is and when it is valid |
| `TreeBuilder` | `tree_builder.cpp`, `leaf_bucket.cpp`, `tree_node.hpp` | operators from trees to sets of possible outcomes |
| `SpatialTree` | `tree_builder.cpp`, without its counters | a state machine over planes, buckets, boxes and partitions of nodes named by their paths; it is what is proved |
| `TreeCalls` | `kd_tree_impl.cpp` and the counters of `tree_builder.cpp`, without live counts | the calls, element by element, on `SpatialTree`, with stamps, the entries of buckets, total counts and records; it is what is proved |
| `Neighbors` | what `search_kernel.cpp` reads of a node | with the trees its searches are right on, `Searchable`, and what they should find |
| `SearchKernel` | `search_kernel.cpp` | each search as a recursive function of a tree, which `KDTree` calls |
| `SearchSteps` | `search_kernel.cpp` | each search call by call, with the state the calls share; it is what is proved |
| `FlatTrees` | | the trees of `TreeBuilder` as `SearchSteps` looks at them |
| `KDTree` | `kd_tree_impl.cpp` | the state machine over all of these |
| `PointSet` | what the tree promises its client | a set of points and a count |
| `NodePool` | `tree_builder.cpp`, `leaf_bucket.cpp`, `tree_node.hpp` | the same operations as `TreeBuilder` on indices, slices and copies, each allocation of which may throw |
| `PooledTree` | `kd_tree_impl.cpp` | the calls on that tree, and what a call that throws leaves behind |
| `KDTreeHandle` | `kd_tree.cpp`, the checks of `Config` | objects that point to implementations |
| `TreeValues` | what the facade promises | objects that hold trees |
| `PublicViz` | `public_viz.cpp` | the tree behind it is a set of points |
| `InspectableKdTree` | `inspectable_kd_tree.hpp` | each call as one operator, from the operators of `TreeBuilder` and `SearchKernel` |
| `StructureViz` | `structure_viz.cpp` | a frame is two steps: the animation's, then the panel's |
| `MCPointStore`, `MCKDTree`, `MCTreeCalls`, `MCSearchSteps`, `MCPooledTree`, `MCKDTreeHandle`, `MCViz` | instances for TLC, refinement mappings | |
| `PointStoreProofs`, `EvictionQueueProofs`, `StampedEntriesProofs`, `GeometryProofs`, `SpatialTreeProofs`, `TreeCallsProofs`, `SearchStepsProofs`, `KDTreeHandleProofs` | theorems | |

Refinements, each checked by a run of the detailed module: `PointStoreSpec` implements `EvictionQueue`; `PooledTree`
implements `KDTree` when nothing throws; `KDTree` implements `TreeCalls`, which implements `SpatialTree`, `StampedEntries`
and `PointSet`; `KDTreeHandle` implements `TreeValues`; `StructureViz` implements `PublicViz`. Those of `PointStoreSpec`, of
`TreeCalls` (all three) and of `KDTreeHandle` are proved too.

Operators keep the names of the functions they translate. Where the code leaves a choice to the library
(how `nth_element` orders equal coordinates, in which order matches are visited) the operator returns all
outcomes. One divergence of form: the code's nodes live in a pool and are replaced by copying a new root
over an old one; in `TreeBuilder` a node holds its children and its index is the path that leads to it. Of
nodes that have been replaced only their number is kept, because the choice between the full and the scoped
sweep depends on it. `NodePool` keeps the pools as they are, with records of modified nodes as indices, and
`ImplementsTree` shows that the two amount to the same, `Records` being the paths of those indices.

In `NodePool` an operation has a set of outcomes, and one that threw carries the tree as the exception leaves
it. A vector throws only when it grows beyond every size it has had (`reserved`), which is the weakest thing
the standard promises; `view()`, `push()`, `release_subtree()` and the sort of the records cannot throw. What
the code does after a failed `rebuild_all()` on a root without a box is undefined: `Usable` stops other calls
there, and `LeavesHaveBoxes` shows that the state is reached.

A call that takes a batch is one step per element and one step for the sweep at its end, so every
invariant also speaks of the tree half-way through a batch. `box_delete_recurse` and
`radius_crop_recurse` are one operator, `delete_recurse`, with the region as a parameter: the two functions
differ only in the four tests on boxes and points, which are `Hits`, `Misses` and `Swallows`.

`SpatialTree` is the second form of the builder. A node is the path of `"left"` and `"right"` that leads to it, so "under"
is a prefix and needs no recursion; a tree is three functions on paths. Where `TreeBuilder` computes the outcomes of a
rebuild, an action of `SpatialTree` says what they have in common, node by node: how many slots go left, that no slot
on the left lies above one on the right, that the plane is the least coordinate on the right, that a leaf's box is the
hull of its points. Which axis is split, when a leaf is split, which subtrees a sweep rebuilds and which slot is
evicted are left open: the counters and the queue that decide them are left out, and what follows holds whatever
they are. The partition a delete hands each node on its way down is a variable, `cells`, and a delete is one step that
releases what the descent would (`Entered`, `Releases`).

`TreeCalls` is the second form of the calls, on the second form of the builder: `Begin`, a step per element, a step for the
sweep and the return, as in `KDTree`. It adds what `SpatialTree` leaves out of a node, as functions on the same paths: the entries
its bucket really holds (`filled`; `tree.buckets` has the slots that the valid ones lead to), `subtree_total_count` (`total`)
and the records of modified nodes. Every rebuild, of a full leaf, a swept subtree or the whole tree, is `Rewritten`. A sweep is one
step: it may rebuild any inner nodes it reaches that none above them covers, and must rebuild those whose totals are out
of balance; how many tombstones a node has, which the live counts decide, is left open. A duplicate is looked for among all live
points, which is what the search for it finds by `SearchExact`. Counters do not wrap, and stamps stop below
`GenMod`; the capacity of a bucket is cut to its width (`BucketMod`). That the code does no more than this is `ImplementsTreeCalls`.

`SearchSteps` is the second form of the searches. In `SearchKernel` a search is a function, evaluated inside a step of
`KDTree`; here each recursive call is a frame on a stack and each entry of a bucket a step, so the three things the
calls of one search share can be looked at between any two of them: what has been taken (`heap`), the limit (`worst`),
and the array `min_sq_axis_dist` (`axis_dist`), which a call overwrites for its far child and restores. A tree is a
function from names to nodes that name their children. Two fields are there for the invariants only, and no step
reads them: `below`, the live slots under a node, and `found`, the array as a call met it. `any_within()` stops at its
first hit, and the model returns through all calls at once, since none of them does anything more. The order in
which a bucket is scanned is left open.

Definitions whose comment starts with "Fault:" are not used by any specification. Each is a plausible
mistake in the definition below it, and PROJECT.json pairs it with the property that exposes it.

## The runs

| Run | Checks | Shows |
|---|---|---|
| `store` | `TypeOK`, `RingInv`, `ReuseRestamps`, `ImplementsQueue`, `NeverSetBack`, `AgesOut` | the circular buffer is sound in every order of calls and is an eviction queue; under a stream that goes on every point is evicted in the end, although releases reorder the queue |
| `stamps` | `Discipline`, `StaleStaysStale` | live slots stay findable, leftovers never come back |
| `spatial_tree` | `SpatialInv`, `DeletesExact`, `LivePointsApart`, `NoStaleRecords`, `EntriesMatchLive`, `RoomToPush`, `TotalsCover`, `StaysBalanced`, `ImplementsPointSet`, `ImplementsStamps` | what is proved of `TreeCalls`, on two slots: points stay on their side of every plane and in their boxes; a delete would release, in any state, exactly the live points in its region; the stamps single out the live entries, a bucket has room, totals cover what is below, no stale record is read, only insertions unbalance; the client gets what it is promised |
| `tree_spatial` | `ImplementsTreeCalls` | each step of the tree of `KDTree` is that very step of `TreeCalls`, which the proofs are about |
| `tree_structure` | `TypeOK`, `SearchesExact`, `InsertLeavesNoViolator`, `DeleteLeavesDeadViolators` | one point per leaf: the searches find what a scan would; what the full sweep of `insert` and the scoped one of the deletes achieve, live counts included |
| `tree_buckets` | `ImplementsPointSet` | what a client sees, with two points per leaf, so that live entries and leftovers share buckets, and counters that wrap at either end, on which nothing but balance depends |
| `search_steps` | `SearchInv`, `Exact`, `NoneTwice` | the searches call by call, on trees of up to six points, two planes on one axis and leftovers |
| `tree_tie_counts` | `TotalAtLeastLive` (violated) | the finding |
| `pooled_tree` | `ImplementsTree` | indices, slices and copies amount to the tree of `KDTree` |
| `pool_failures` | `NothingShared`, `NoEntryTwice`, `RecordsNameNodes`, `FailuresStayLocal`, `RebuildRestores` | whatever throws, the reachable tree is whole and only the point being inserted is lost; a `rebuild_all()` that returns makes it findable |
| `handles` | `OneOwner`, `ImplementsValues` | objects are values, with legal configurations only |
| `structure_viz` | `DeletesPrevail`, `SceneIsTree`, `HighlightsCurrent`, `ImplementsPublicViz`, `Drains` | the animated viewer never draws a stale tree or highlight, deletes what was queued before a deletion, and empties its queues when no more is added |

`SearchesExact` asks the three searches of the header, and the two internal queries, for every query point,
radius and cap of the configuration, between any two calls; `Exact` says the same of every search that has returned, for the
searches as `SearchSteps` runs them. `DeletesExact` asks every region of the configuration in every state, not only when a delete is
called. `ImplementsPointSet` is the refinement of `PointSet` and, beside it, that each element of a batch takes the
abstract step for that very element: a delete that clears nothing would otherwise pass as a stutter. `ImplementsTreeCalls` does
the same with `StepsMatch`. `StaysBalanced` speaks of every state but those of an `insert` that has inserted something and not yet
returned; `InsertLeavesNoViolator` adds the tombstones, which only `KDTree` counts, for `insert`, whose sweep enters every
node. The sweeps of `remove`, `box_delete` and `radius_crop` enter only nodes that are recorded, and may leave violators: one below a
partition that a region swallowed, which a later `remove` elsewhere does not reach either. `DeleteLeavesDeadViolators` says that
there is nothing live below such a node.

Bounds, and why they are enough for what the runs ask:

* `Capacity` 3 in the store run lets the window wrap, a slot in the middle be released and every slot be
  evicted and reused; stamps count modulo 3, the least modulus under which a slot stamped twice in one call
  differs from itself, so the wrap of a stamp is checked too; the safety properties are proved for every capacity. Three and four slots in the tree runs give
  trees with several splits on one path, evictions inside a batch and subtrees with no live point.
* The point sets are chosen for their ties: `Square5` has equal coordinates on both axes and neighbours
  exactly at the resolution; `Row6` of `MCSearchSteps` is split on one axis again and again, where the far bound of
  `descend` must replace an earlier contribution; `Tie4` shows the finding, and `Wide5` the violators that a delete overlooks.
* `SomeBoxes` holds a box with half of the points, a single point, and an inverted box; `SomeBalls` has points
  on its border, one point inside, and none inside. The two largest runs take fewer (`TwoBoxes`, `HalfBox`, `TwoBalls`).
* `MaxBatch` 2 is the least number at which a batch meets its own effects. `MaxTotal` bounds the root's count
  of insertions since its last rebuild: it is above `Capacity`, so leftovers of evicted points accumulate,
  and a rebuild brings the count down again, so runs are not bounded in length.
* `GenMod` 1000000 and `CountMod` 1024 stand for 2^32: no run that has them comes near them except by
  passing below 0, and a count that does is above every honest one. TLC's integers have 32 bits. In
  `tree_buckets` counters are five values wide, above the capacity, so that totals wrap at the top and live
  counts at the bottom; `TotalAtLeastLive` fails there, as it should. In the runs of failures
  and viewers `CountMod` is 8 and 4: a removal that is begun again after it threw decrements counts once more
  each time, and a small width makes that drift finite.
* `View`: the runs that name it identify states that differ in the numbering of slots, in the value of stamps,
  in the slot a leftover was written for, or in how far the pool exceeds `ManyNodes`. Nothing the
  code decides depends on these: slots are compared for identity only, stamps for equality with the
  current one (which leftovers never have again, the subject of `StampedEntries`), and the pool's size is
  compared with a number of records that stays below `ManyNodes`. The `View` of `spatial_tree` shows of a bucket its points and
  the number of its entries.
* `tree_structure` covers what one point per leaf can show, the deepest trees; `tree_buckets` covers what
  needs more than one.
* `tree_structure` has its `tombstone_threshold` at 0.7: with a low one, a delete that clears two points of six makes the root a
  violator, everything is rebuilt, and no violator is ever left. At 0.7, with three slots, five points and totals up to
  six, violators are left, by spatial deletes and by a `remove` elsewhere after them: `MCTreeDeleteSweep.cfg` is the same
  instance with `DeleteLeavesNoViolator`, which fails there. Batches have one element; `spatial_tree` and `tree_buckets` have those of two.
* `tree_spatial` has one point per leaf, all ties of `Square5` and evictions; its batches have one element, since what
  `StepsMatch` compares is one element, and three slots give it splits, leftovers and sweeps of subtrees.
* `spatial_tree` has two slots, so that every further point evicts, five points of which two pairs tie and one pair are
  duplicates, and batches of two. TLC cannot guess trees, so `MCTreeCalls` constructs those it tries (`Built`, `Grafted`) and the actions
  of `TreeCalls` judge them. `MaxTotal` 4 lets leftovers fill a bucket and totals unbalance a node; everything the run checks
  is proved without bounds.
* `search_steps` takes every tree that `build_recursive` may make of its batches, ties included, with and without
  leftovers, and the tree without a root; caps of none, one, some and more than there are; radii with points on the
  border, none inside and all inside. What it shows is proved without bounds.
* The runs of failures have two or three slots and batches of one element: each allocation of each call may
  throw in each state, so a batch of two is two calls of which the first threw or returned. `MaxRecords`
  bounds the records that failed calls leave behind for a new call to find (one is enough to meet a rebuilt or
  emptied pool). `UsedUp` takes the memory that `rebuild_all()` keeps for spent when it returns, which only
  adds failures; `View` shows the reachable tree, and of the pools how far they are from what the code
  compares them with.
* `handles`: three objects and three addresses allow a chain of moves beside a third owner. `SomeConfigs` has
  both sides of every bound, both zeros, and NaN in each float.
* Viewers: two or three slots, batches that overlap in a point, boxes with points on the bands' borders and one
  inverted, chunks of one insertion and two bands for a box (60 and 12 in the code), `MaxPending` on the
  queue's length when a button adds to it, and `MaxNodes` on the pool's size above the records of one call. Two
  chunks and two bands are the least that leave a queue half drained between two buttons.

Deadlock is checked in all runs: each state has a successor.

Fairness. The library starts nothing by itself: that a call returns follows from its recursion over a
finite tree, and fairness is stated for what happens between calls, in two runs.

* `store`: `SF(AcquireFull)`, the stream. The promise is that points age out of a full store while a stream
  goes on (`README.md:4`), so the premise is a stream: if the store is full again and again, an acquire
  meets it full again and again. It is strong because the client may release a slot at any moment and so
  disable it; releases are unconstrained. Its safety companion, `NeverSetBack`, says why the promise holds
  although `release()` reorders the queue: the swap only moves slots forward.
* `structure_viz`: `WF(Frame)`, where each step of the specification is a `Frame`. Polyscope's loop calls `user_callback()` for every frame until the window is closed,
  and each frame runs `step_animation()` before the panel, which the two steps of a frame make explicit. The
  user may press anything; the premise is only that the queues are not added to for ever.

## The findings

One claim of the sources is refuted by a run: `subtree_total_count` is "always >= subtree_live_count"
(`tree_node.hpp:23`). `tombstone_index` sends ties right while `nth_element` may have put them left; the live count of
a node that never held the point is decremented, and at 0 it wraps above the total.

Others are stated in the modules, with an instance on which TLC refutes them (with `-continue`, where a file names two), and are not among the runs:

| Claim | Definition, instance | What happens |
|---|---|---|
| the buffer is "in arrival order" (`point_store.hpp:69`), the oldest point makes room (`README.md:17`) | `MCPointStore.ImplementsFifo`, as the PROPERTY of `MCPointStore.cfg` | `release()` fills the gap with the newest queued slot, so a later eviction can take a point that is not the oldest |
| memory is "flat under an unbounded stream" (`README.md:27`) | `KDTree.PoolStaysFlat`, `MCTreePool.cfg` | replaced subtrees stay in the pools until `rebuild_all` |
| `subtree_live_count` counts live points (`tree_node.hpp:22`) | `KDTree.LiveCountsExact`, `MCTreePool.cfg` | an eviction is not reported to the tree, which counts the evicted point until a rebuild |
| the sweep rebuilds "every violator subtree" (`tree_builder.hpp:46`) | `KDTree.DeleteLeavesNoViolator`, `MCTreeDeleteSweep.cfg` | of a partition that a region swallows only the top is recorded; dead violators below it survive, and a later `remove` elsewhere leaves them too, until an `insert` or a rebuild above them. What does hold is `DeleteLeavesDeadViolators` |
| `bucket_size <= bucket_capacity` (`tree_node.hpp:34`) | `KDTree.BucketWithinCapacity`, `MCTreeBucketWidth.cfg` | `leaf_bucket_size` 32768 passes the constructor and makes the 16-bit capacity 0; `RoomCorrect` has the leaf sizes for which every push finds room |
| the tree "prunes itself back into balance" (`README.md:18`) | `KDTree.InsertLeavesNoViolator`, `MCTreeSmallAlpha.cfg` | with alpha below 2/3 a node of three points is a violator as it is built; `BalanceCorrect` says for which alpha that cannot be |
| `remove` clears what is within the resolution (`kd_tree.hpp:83`) | `KDTree.RemoveClearsQuery`, `MCTreeTinyResolution.cfg` | a resolution whose square underflows to 0 clears nothing |
| the push after an eager split succeeds (`tree_builder.cpp:550`) | `PooledTree.PushNeverFails`, `MCPoolAftermath.cfg` | a leaf whose split threw stays full, and the next entry sent there is refused |
| duplicates are judged "against the live set" (`README.md:57`) | `PooledTree.LivePointsApart`, `MCPoolAftermath.cfg` | `insert` does not give the slot back when the tree throws: a live point no search finds |
| `leaf_bbox_idx` is an index into the boxes (`tree_node.hpp:36`) | `PooledTree.LeavesHaveBoxes`, `MCPoolNoBox.cfg` | a `rebuild_all` that throws leaves `root_` on a node without a box, or beyond the pool |

The finding, and the claims of the table on order, memory, live counts, sweeps and balance, lose no point and falsify
no search: `EntriesMatchLive`, `SearchesExact` and `ImplementsPointSet` hold beside them. They misplace evictions,
misjudge balance and use memory. The last three of the table need an allocation to fail, and `FailuresStayLocal` and `RebuildRestores` say how
far the damage goes and what repairs it.

Two orders the viewer allows are not called findings, because no comment says which is meant: inserts
queued after a deletion are drained before its remaining bands and deleted by them (`structure_viz.cpp:148`), and a
deletion made after "animate" is switched off takes effect before inserts still queued (`:264`).

Two branches were found never to be taken in the configurations checked: the rebuild of a leaf with more
than `2 * leaf_bucket_size` entries (`tree_builder.cpp:183` and `:221`; `push` refuses at that size), and the
second look at a node once its children are swept (`:202`, `:258`; the totals of its children can only have
shrunk, and its own counters are not touched).

## What is proved

`PointStoreProofs`, from `CapacityAssumption`, `ZeroPointAssumption` and `GenModAssumption`:

* `RingCorrect`: `Spec => []RingInv`. `Ring` is the inductive invariant: the fields have their types, the tail
  is where the live window ends, the buffer is a permutation, a slot is live exactly when the window holds
  it, and the back-pointer of a live slot leads to it. The last part follows from the two before it only by
  counting (a permutation of a finite set is onto), which is out of reach of the provers; stated as a
  conjunct of its own it is inductive and needs no counting. The proof has a lemma per operation and,
  under it, a step per conjunct; the arithmetic of the wrapping window is stated once, without `%`, by
  cases on whether the head wraps.
* `TypeCorrect`: `Spec => []TypeOK`, from the same invariant. It includes that no position used as an array
  index is ever outside the array.
* `RestampCorrect`: `Spec => ReuseRestamps`. A slot is stamped once, or twice when it is evicted and reused in
  one call; it needs a modulus above 2.

`StampedEntriesProofs`, from `GenModAssumption`, for as long as no stamp wraps (the guard of `File`):

* `DisciplineCorrect` and `LiveFindableCorrect`: live slots keep the entry that leads to them. `NoFutureStamp` is
  the strengthening: without it a new stamp could meet an old entry.
* `StaleCorrect`: a leftover never becomes valid again.

`StampsImplemented`, below, ties the second module to the calls.

`SpatialTreeProofs`, from `PlaneAssumption` (points have integer coordinates), `RegionAssumption` (so have boxes and
balls) and `FarAssumption`, for any number of slots, any bucket size (every entry is taken to find room, which is the subject of
`RoomCorrect` below) and trees of any shape:

* `SpatialCorrect`: `Spec => []SpatialInv`. `SpatialInv` is inductive as the runs check it. `RebuiltSound` has the argument
  for rebuilds: a node of a rebuilt subtree is sound by what `build_recursive` makes of it (`BuiltSound`), and a node
  above it keeps the same slots below it on both sides, because a rebuild neither loses slots nor moves any out of
  the subtree. `FiledSound` has it for insertions: the new point is on the right side of the planes it was routed by,
  ties included, and every box it passes is grown. `WithoutSound` covers removals, evictions and deletes, which only
  take slots away.
* `DeletesCorrect`: `Spec => []DeletesExact`. `CellsHold` shows that the partition handed to a node holds the points below it,
  going down from the root; `JudgedByBox` that a box judged as a whole is judged as each of its points would be, by
  `BoxDistances`. `GoneHit` and `HitGone` are the two directions; in the second, a point in the region is released by the
  first node on its path where the descent ends, which may be above its leaf. Both arguments along a path take the
  shortest counterexample (`Shortest`), so no induction over the tree is needed.
* `SearchableCorrect`: `Spec => []AlwaysSearchable`. Put any leftovers into the buckets, as long as the valid entries lead to
  the slots `SpatialTree` files there, and the tree is `Searchable`: the assumption of `SearchStepsProofs` is met by
  every tree, of any size, that calls of `SpatialTree` leave.

`TreeCallsProofs`, from the assumptions of `SpatialTreeProofs` and `CallsAssumption` (the leaf size is positive), for any number of
slots and any resolution, batches of any length and trees of any shape, for as long as no stamp reaches `GenMod`. All theorems but
`CallsPartition` and `RecordsCorrect` have a hypothesis on the leaf size, `BucketFits`: its double is below `BucketMod`, so that the
cast to 16 bits (`tree_builder.cpp:32`) cuts nothing off. The constructor does not ask for it. From 32768 on, leaves are built with
buckets smaller than their contents, and `RoomToPush` is false; no theorem speaks of such trees. `ApartCorrect` and `PointSetImplemented`
have it although their proofs do not use it: the model takes the duplicates and matches that the code searches for from the
points themselves, and a point whose entry was refused would not be found. For the same reason `CallsPartition`, which only says that one model
implements the other, says nothing of the code beyond that limit.

* `CallsPartition`: `CallsSpec => Spec /\ []SpatialInv`. Each step of a call is a step of `SpatialTree` or leaves it alone
  (`CallsStep`), so the three theorems about `SpatialTree` hold of the calls. `Kinds` sorts the actions into those that file,
  clear, rebuild or do nothing, and the proofs below go by kind.
* `ApartCorrect`: `CallsSpec => []LivePointsApart`. A point is compared with all live points before it is handed a slot, and
  evictions only take points away.
* `EntriesCorrect`, `RoomCorrect`, `TotalsCorrect`, from one inductive invariant, `LedgerInv`: stamps, entries and counts have their
  types, each bucket `Leads` by its valid entries to the slots that the partition has in that leaf, holds no entry with a stamp
  its slot has not had and has room left, and the counts are `Tallied`: a leaf's is the size of its bucket, an inner
  node's at least the sum of its children's and the number of live slots below. That no stamp is from the future is
  what keeps `Leads` when a slot is handed out anew: the new stamp meets no old entry. `RebuiltLedger` has rebuilds, where the counts
  are exact below the root of the rebuild and ancestors keep theirs, since no slot enters or leaves the subtree
  (`UnderKept`); `FiledTallied` has insertions, where all the counts on the route grow by one and at most one slot is new below
  each. A rebuild gives room: a leaf of it holds at most `leaf_bucket_size` entries, below the capacity, which `BucketFits` makes twice that (`WholeCapacity`).
* `RecordsCorrect`: `CallsSpec => []NoStaleRecords`, from `RecordsInv`, which adds that records are made only for something
  the call in progress has cleared. Without that conjunct a call that returns 0, and so skips the sweep that empties
  the list, could leave records behind.
* `CallsTypeCorrect`: `CallsSpec => []CallsTypeOK`.
* `StampsImplemented`: `CallsSpec => ImplementsStamps`. The entries of all leaves together, each operation of the tree being one of
  `StampedEntries`: an insertion files, or replaces, a removal or delete frees, and a sweep or split drops entries, none of
  which is valid (`DropsLeftovers`). `OneLeaf`, that a slot is in one bucket only, is needed when it is evicted.
* `PointSetImplemented`: `CallsSpec => ImplementsPointSet`, if `sq_resolution # 0`. With `ApartCorrect` two live slots have different
  points, so the number of slots cleared, which a call returns, is the number of points that leave the set (`ImageCard`); with
  `DeletesCorrect` those of a spatial delete are the ones in its region. The hypothesis is needed: were the squared
  resolution 0, as after an underflow, equal points would be stored twice and `remove` would clear none of them.
* `BalanceCorrect`: `CallsSpec => []StaysBalanced`, if `AlphaFits`. Totals above a rebuilt subtree are left as they are, too high, while
  its own totals shrink; `FewerBalance` says that this can only balance the nodes above it better, because a
  smaller child counts against the same total. Nodes of the rebuilt subtree are split in halves (`BuiltBalanced`), and
  a swept node that was out of balance is in a rebuilt subtree (`TopmostAbove`, by the shortest path again). `AlphaFits` says
  that the larger half of a node of `n` points is at most `alpha * n`, for each `n` above the leaf size: the default 0.7
  satisfies it whatever the leaf size, and so does any alpha of 2/3 or more; below 2/3 and with one point per leaf it is false,
  and the table of findings has what happens then.

`ImplementsTreeCalls` ties all of this to the trees of `KDTree`, by TLC.

`KDTreeHandleProofs`, from `ConfigAssumption` (fields have their C++ types) and `MarkAssumption` (null and "no object"
are not addresses or implementations):

* `OwnerCorrect`: `Spec => []OneOwner`, with the types of the two variables as the strengthening: an object that
  holds an address holds an allocated implementation because of the second part of `OneOwner`, so a step that
  frees an address frees nobody else's because of the first.
* `ValuesCorrect`: `Spec => ImplementsValues`, a refinement, step by step: each operation on pointers is the
  operation of the same name on values. `RejectedIffOutOfRange` is where the configuration comes in: for every
  configuration, NaN and both zeros included, the constructor's comparisons refuse exactly what lies outside
  the documented ranges.

`EvictionQueueProofs`, from the assumptions of `PointStoreProofs` and its invariant:

* `NeverSetBackCorrect`: `Spec => NeverSetBack`. Ranks in the queue are positions relative to the head; a release moves
  one slot, the newest, into the gap, and all others keep their rank or, when the head moves on, gain one.
* `StoreImplementsQueue`: `Spec => ImplementsQueue`, step by step: the window of the circular buffer, read from the
  head, is the abstract queue. Each operation has a lemma that says what it does to that sequence; the arithmetic
  of the wrap is the lemma `Wrap` of `PointStoreProofs` again.

`GeometryProofs`, from no assumption:

* `BoxDistances`: no point of a box is nearer than `min_sq_dist` or farther than `max_sq_dist`. Its lemmas say that the
  two halves of a cell cover it, that a grown box still covers, and what a plane does to a distance; products of
  variables are out of the provers' reach, so squares are compared through two lemmas on monotony.

`SearchStepsProofs`, from `PlaneAssumption`, `QuestionAssumption` (caps are naturals, radii numbers) and `TreesAssumption`: each tree is
`Searchable`, that is, split planes lie between the points of the children (a tie may be on either side) and leaves
lead to the live slots, each from one leaf. The trees may have any shape and size. TLC evaluates the assumption on
the trees of `search_steps`, and `SearchableCorrect` proves it of those of `SpatialTree`, so, by `CallsPartition` and `EntriesCorrect`, of
every tree that calls of `TreeCalls` leave.

* `SearchInvariant`: `Spec => []SearchInv`, the inductive invariant. `NoneForgotten` is its heart: each live slot is
  taken, still awaited by some call, or no nearer than `worst`. To keep it when a far child is skipped, `CallsSound`
  says that `min_sq_dist` is a sum of per-axis bounds that hold for all points below a call; to keep that when the array
  is shared, `ArrayRestored` says that each call found the array as its caller passes it on. `PendingApart`, that no two
  calls wait for one slot, makes the heap a set of slots, and `HeapSound` ties `worst` to it.
* `SearchExact`: `Spec => []Exact`. When the stack is empty nothing is awaited, and `NoneForgotten` with `HeapSound` is the
  reference definition `Nearest`. That the number of slots taken is the smaller of `k_max` and the number of those within
  the radius is a counting argument: a heap that is not full has left none out.
* `SearchNoneTwice`: `Spec => NoneTwice`, from `PendingApart`.

Only model-checked: that `KDTree` implements `TreeCalls` (`ImplementsTreeCalls`); its `TypeOK` and `SearchesExact`; what depends on live
counts, tombstones or counters that wrap (`InsertLeavesNoViolator`, `DeleteLeavesDeadViolators`, `tree_buckets`); the pools with their
failures (`ImplementsTree` and the properties of `pool_failures`); and the viewers. `TreeBuilder`, `KDTree`, `NodePool`,
`PooledTree`, `InspectableKdTree` and `StructureViz` define recursive operators over trees, and the provers cannot do
induction over them; `SearchKernel` likewise. That is why searches, partition, deletes and calls were written a second time,
as steps and as functions on paths. `AgesOut` and `Drains` are liveness. That searches and descents end is not stated:
it is the termination of a recursion over a finite tree.

## What is not modelled

* Floating-point arithmetic: coordinates are integers, so rounding and comparisons with infinity are left out.
  `Far` stands beyond every coordinate. The squared resolution is a constant of its own, which may be 0.
  NaN and the two zeros are modelled only where `Floats` is used, in `Config`.
* Three and four dimensions: the code is one template whose only use of the dimension is a loop over axes.
* Calls on objects that were moved from: they follow a null pointer, and clients that make them are left out.
* Leaf sizes of 32768 and more, beyond `BucketWithinCapacity`: what `build_recursive` writes past a slice of truncated capacity is undefined.
* A capacity of 2^32 and more, where 32-bit slot numbers repeat; stamps that wrap round while one bucket is
  not rebuilt.
* The order of results in a search. Allocation failure in a search: a search changes nothing.
* Drawing: colours, sizes, cameras, and the dump and screenshot modes, which act once and exit.
* Tests, benchmarks, the example of an installed client, and packaging.

## Plan

What was planned is modelled and, as far as the provers reach, proved. What is left:

1. The live counts on paths: how far evictions and ties let them drift, and from which configurations a count can pass below
   0, for every size.
2. `NodePool` as functions on indices, so that `NothingShared` and `RecordsNameNodes` can be proved of calls that throw.
3. The queues of `StructureViz` apart from its tree, so that `DeletesPrevail` can be proved for queues of any length.
