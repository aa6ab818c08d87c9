------------------------- MODULE EvictionQueueProofs -------------------------
(***************************************************************************)
(* The slot store implements the eviction queue, and never sets a point    *)
(* back in it: for every capacity, point set and generation width.         *)
(***************************************************************************)
EXTENDS MCPointStore, PointStoreProofs, SequenceTheorems

-----------------------------------------------------------------------------
(* The queue as a sequence: where its k-th slot lies, and which slots it   *)
(* holds.                                                                  *)

\* The buffer position of the k-th queued slot, with the modulus gone.
Place(s, k) == IF s.buf_head + k - 1 < Capacity
               THEN s.buf_head + k - 1
               ELSE s.buf_head + k - 1 - Capacity

\* The k-th place from the head is a slot of the buffer.
LEMMA PlaceValue ==
  ASSUME NEW s \in Store, NEW k \in 1 .. Capacity
  PROVE  /\ Place(s, k) \in Slot
         /\ (s.buf_head + k - 1) % Capacity = Place(s, k)
<1>1. s.buf_head \in Slot
  BY DEF Store
<1> QED
  BY <1>1, CapacityAssumption DEF Place, Slot

\* The window holds the first `live` places, each of them once.
LEMMA PlaceInWindow ==
  ASSUME NEW s \in Store, NEW k \in 1 .. s.live
  PROVE  /\ k \in 1 .. Capacity
         /\ InWindow(s, Place(s, k))
         /\ \A l \in 1 .. s.live : Place(s, l) = Place(s, k) => l = k
<1>1. s.buf_head \in Slot /\ s.live \in 0 .. Capacity
  BY DEF Store
<1> QED
  BY <1>1, CapacityAssumption DEF Place, InWindow, Slot

\* Every place of the window is the k-th one for some k.
LEMMA WindowHasPlace ==
  ASSUME NEW s \in Store, NEW j \in Slot, InWindow(s, j)
  PROVE  \E k \in 1 .. s.live : Place(s, k) = j
<1>1. s.buf_head \in Slot /\ s.live \in 0 .. Capacity
  BY DEF Store
<1> DEFINE k == IF s.buf_head <= j THEN j - s.buf_head + 1
                                   ELSE j - s.buf_head + 1 + Capacity
<1>2. k \in 1 .. s.live
  BY <1>1, CapacityAssumption DEF InWindow, Slot
<1>3. Place(s, k) = j
  BY <1>1, CapacityAssumption DEF InWindow, Place, Slot
<1> QED
  BY <1>2, <1>3

\* The queue without the modulus.
LEMMA VisitedValue ==
  ASSUME NEW s, Ring(s)
  PROVE  /\ Visited(s) = [k \in 1 .. s.live |-> s.buffer[Place(s, k)]]
         /\ s.live \in Nat
         /\ Visited(s) \in Seq(Slot)
         /\ Len(Visited(s)) = s.live
<1>1. s \in Store /\ s.live \in 0 .. Capacity
  BY DEF Ring, Store
<1>2. \A k \in 1 .. s.live : (s.buf_head + k - 1) % Capacity = Place(s, k)
  BY <1>1, PlaceValue, PlaceInWindow
<1>3. Visited(s) = [k \in 1 .. s.live |-> s.buffer[Place(s, k)]]
  BY <1>2 DEF Visited
<1>4. \A k \in 1 .. s.live : s.buffer[Place(s, k)] \in Slot
  <2> TAKE k \in 1 .. s.live
  <2>1. Place(s, k) \in Slot
    BY <1>1, PlaceValue, PlaceInWindow
  <2> QED
    BY <1>1, <2>1 DEF Store
<1>5. s.live \in Nat
  BY <1>1
<1> QED
  BY <1>3, <1>4, <1>5

\* Each queued slot is live, knows its place, and is queued once.
LEMMA VisitedLive ==
  ASSUME NEW s, Ring(s), NEW k \in 1 .. s.live
  PROVE  /\ Visited(s)[k] \in LiveSlots(s)
         /\ s.buf_pos[Visited(s)[k]] = Place(s, k)
         /\ Ahead(s, Visited(s)[k]) = k - 1
         /\ \A l \in 1 .. s.live : Visited(s)[l] = Visited(s)[k] => l = k
<1>1. s \in Store /\ s.live \in 0 .. Capacity /\ s.buf_head \in Slot
  BY DEF Ring, Store
<1>2. Place(s, k) \in Slot /\ InWindow(s, Place(s, k)) /\ k \in 1 .. Capacity
  BY <1>1, PlaceValue, PlaceInWindow
<1>3. Visited(s)[k] = s.buffer[Place(s, k)] /\ s.buffer[Place(s, k)] \in Slot
  BY <1>1, <1>2, VisitedValue DEF Store
<1>4. s.live_bits[Visited(s)[k]] /\ s.buf_pos[Visited(s)[k]] = Place(s, k)
  BY <1>2, <1>3 DEF Ring, QueueIndexed
<1>5. Ahead(s, Visited(s)[k]) = k - 1
  <2>1. Ahead(s, Visited(s)[k]) = (Place(s, k) + Capacity - s.buf_head) % Capacity
    BY <1>4 DEF Ahead
  <2> QED
    BY <1>1, <1>2, <2>1, CapacityAssumption DEF Place, Slot
<1>6. \A l \in 1 .. s.live : Visited(s)[l] = Visited(s)[k] => l = k
  <2> SUFFICES ASSUME NEW l \in 1 .. s.live, Visited(s)[l] = Visited(s)[k]
               PROVE  l = k
    OBVIOUS
  <2>1. Place(s, l) \in Slot
    BY <1>1, PlaceValue, PlaceInWindow
  <2>2. s.buffer[Place(s, l)] = s.buffer[Place(s, k)]
    BY VisitedValue
  <2>3. Place(s, l) = Place(s, k)
    BY <1>2, <2>1, <2>2 DEF Ring, BufferIsPermutation
  <2> QED
    BY <1>1, <2>3, PlaceInWindow
<1> QED
  BY <1>3, <1>4, <1>5, <1>6 DEF LiveSlots

\* Each live slot is queued.
LEMMA LiveVisited ==
  ASSUME NEW s, Ring(s), NEW i \in LiveSlots(s)
  PROVE  \E k \in 1 .. s.live : Visited(s)[k] = i
<1>1. s \in Store /\ i \in Slot /\ s.buf_pos[i] \in Slot /\ s.buffer[s.buf_pos[i]] = i
  BY DEF Ring, BackPointers, LiveSlots
<1>2. InWindow(s, s.buf_pos[i])
  BY <1>1 DEF Ring, QueueIndexed, LiveSlots
<1>3. PICK k \in 1 .. s.live : Place(s, k) = s.buf_pos[i]
  BY <1>1, <1>2, WindowHasPlace
<1> QED
  BY <1>1, <1>3, VisitedValue

\* for_each_live() visits the live slots and no others.
LEMMA VisitedAll ==
  ASSUME NEW s, Ring(s)
  PROVE  LiveSlots(s) = {Visited(s)[k] : k \in 1 .. s.live}
BY VisitedLive, LiveVisited

-----------------------------------------------------------------------------
(* What acquire() and release() do to the queue.                           *)

\* An eviction takes the front off.
LEMMA EvictQueue ==
  ASSUME NEW s, Ring(s), s.live = Capacity
  PROVE  /\ Visited(Evict(s)) = Tail(Visited(s))
         /\ LiveSlots(Evict(s)) = LiveSlots(s) \ {s.buffer[s.buf_head]}
         /\ Evict(s).points = s.points
         /\ Evict(s).buffer = s.buffer
         /\ Evict(s).buf_tail = s.buf_tail
<1> DEFINE victim == s.buffer[s.buf_head]
<1>1. s \in Store /\ victim \in Slot /\ s.buf_head \in Slot
  BY DEF Ring, Store
<1>2. PICK t : t = Evict(s)
  OBVIOUS
<1>3. /\ t.live = Capacity - 1
      /\ t.live_bits = [s.live_bits EXCEPT ![victim] = FALSE]
      /\ t.points = s.points
      /\ t.buffer = s.buffer
      /\ t.buf_head = Next1(s.buf_head)
      /\ t.buf_tail = s.buf_tail
  BY <1>1, <1>2 DEF Evict, Store
<1>4. Ring(t)
  BY <1>2, EvictRing
<1>5. \A k \in 1 .. Capacity - 1 : Place(t, k) = Place(s, k + 1)
  BY <1>1, <1>3, Next1Value, CapacityAssumption DEF Place, Slot
<1>6. Visited(t) = Tail(Visited(s))
  <2>1. Visited(t) = [k \in 1 .. Capacity - 1 |-> s.buffer[Place(t, k)]]
    BY <1>3, <1>4, VisitedValue
  <2>2. Visited(s) = [k \in 1 .. Capacity |-> s.buffer[Place(s, k)]]
    BY VisitedValue
  <2>3. /\ Visited(s) \in Seq(Slot) /\ Len(Visited(s)) = Capacity
        /\ Visited(s) # <<>>
    BY VisitedValue, CapacityAssumption
  <2>4. /\ Tail(Visited(s)) \in Seq(Slot) /\ Len(Tail(Visited(s))) = Capacity - 1
        /\ \A k \in 1 .. Capacity - 1 : Tail(Visited(s))[k] = Visited(s)[k + 1]
    BY <2>3, CapacityAssumption, HeadTailProperties
  <2>5. \A k \in 1 .. Capacity - 1 : Visited(s)[k + 1] = s.buffer[Place(t, k)]
    BY <1>5, <2>2, CapacityAssumption
  <2>6. Visited(t) \in Seq(Slot) /\ Len(Visited(t)) = Capacity - 1
    BY <1>3, <1>4, VisitedValue
  <2> QED
    BY <2>1, <2>4, <2>5, <2>6, SeqEqual
<1>7. LiveSlots(t) = LiveSlots(s) \ {victim}
  BY <1>1, <1>3 DEF LiveSlots, Store
<1> QED
  BY <1>2, <1>3, <1>6, <1>7

\* A newcomer takes a free slot and joins at the back.
LEMMA OccupyQueue ==
  ASSUME NEW s, Ring(s), s.live < Capacity, NEW p \in Point
  PROVE  /\ Visited(Occupy(s, p)) = Append(Visited(s), s.buffer[s.buf_tail])
         /\ s.buffer[s.buf_tail] \in Slot \ LiveSlots(s)
         /\ LiveSlots(Occupy(s, p)) = LiveSlots(s) \cup {s.buffer[s.buf_tail]}
         /\ Occupy(s, p).points = [s.points EXCEPT ![s.buffer[s.buf_tail]] = p]
<1> DEFINE index == s.buffer[s.buf_tail]
<1>1. /\ s \in Store /\ index \in Slot /\ s.buf_head \in Slot /\ s.buf_tail \in Slot
      /\ s.live \in 0 .. Capacity
  BY DEF Ring, Store
<1>2. PICK t : t = Occupy(s, p)
  OBVIOUS
<1>3. /\ t.live = s.live + 1
      /\ t.live_bits = [s.live_bits EXCEPT ![index] = TRUE]
      /\ t.points = [s.points EXCEPT ![index] = p]
      /\ t.buffer = s.buffer
      /\ t.buf_head = s.buf_head
  BY <1>1, <1>2 DEF Occupy, Store
<1>4. Ring(t)
  BY <1>2, OccupyRing
<1>5. ~ InWindow(s, s.buf_tail) /\ Place(s, s.live + 1) = s.buf_tail
  BY <1>1, CapacityAssumption DEF InWindow, Place, Slot, Ring, TailClosesWindow
<1>6. index \notin LiveSlots(s)
  BY <1>1, <1>5 DEF Ring, QueueIndexed, LiveSlots
<1>7. LiveSlots(t) = LiveSlots(s) \cup {index}
  BY <1>1, <1>3 DEF LiveSlots, Store
<1>8. Visited(t) = Append(Visited(s), index)
  <2>1. \A k : Place(t, k) = Place(s, k)
    BY <1>3 DEF Place
  <2>2. Visited(t) = [k \in 1 .. s.live + 1 |-> s.buffer[Place(s, k)]]
    BY <1>3, <1>4, <2>1, VisitedValue
  <2>3. /\ Visited(s) = [k \in 1 .. s.live |-> s.buffer[Place(s, k)]]
        /\ Visited(s) \in Seq(Slot) /\ Len(Visited(s)) = s.live
    BY VisitedValue
  <2>4. Append(Visited(s), index)
          = [k \in 1 .. s.live + 1 |-> IF k = s.live + 1 THEN index ELSE Visited(s)[k]]
    BY <1>1, <2>3
  <2>5. \A k \in 1 .. s.live + 1 :
          s.buffer[Place(s, k)] = IF k = s.live + 1 THEN index ELSE Visited(s)[k]
    BY <1>1, <1>5, <2>3
  <2> QED
    BY <2>2, <2>4, <2>5
<1> QED
  BY <1>1, <1>2, <1>3, <1>6, <1>7, <1>8

\* Those that stay when acquire() is called: all but the front of a full queue.
Stay(s) == IF s.live = Capacity THEN Tail(Visited(s)) ELSE Visited(s)

\* The slots in a queue.
Queued(q) == {q[k] : k \in 1 .. Len(q)}

\* acquire(): those that stay, and the newcomer behind them.
LEMMA AcquiredQueue ==
  ASSUME NEW s, Ring(s), NEW p \in Point
  PROVE  /\ Visited(Acquired(s, p)) = Append(Stay(s), AcquiredSlot(s))
         /\ Stay(s) \in Seq(Slot)
         /\ AcquiredSlot(s) \in Slot \ Queued(Stay(s))
         /\ LiveSlots(Acquired(s, p)) = Queued(Stay(s)) \cup {AcquiredSlot(s)}
         /\ Acquired(s, p).points = [s.points EXCEPT ![AcquiredSlot(s)] = p]
         /\ Queued(Stay(s)) \subseteq LiveSlots(s)
<1> DEFINE e == IF s.live = Capacity THEN Evict(s) ELSE s
<1>1. /\ Ring(e) /\ e.live < Capacity /\ Visited(e) = Stay(s)
      /\ e.points = s.points /\ e.buffer[e.buf_tail] = AcquiredSlot(s)
      /\ LiveSlots(e) \subseteq LiveSlots(s)
  <2>1. CASE s.live = Capacity
    BY <2>1, EvictRing, EvictQueue, CapacityAssumption DEF AcquiredSlot, Stay
  <2>2. CASE s.live # Capacity
    <3>1. s.live < Capacity
      BY <2>2, CapacityAssumption DEF Ring, Store
    <3> QED
      BY <2>2, <3>1 DEF AcquiredSlot, Stay
  <2> QED
    BY <2>1, <2>2
<1>2. Acquired(s, p) = Occupy(e, p)
  BY DEF Acquired
<1> HIDE DEF e
<1>3. Stay(s) \in Seq(Slot) /\ LiveSlots(e) = Queued(Stay(s))
  <2>1. Stay(s) \in Seq(Slot) /\ Len(Stay(s)) = e.live
    BY <1>1, VisitedValue
  <2>2. LiveSlots(e) = {Visited(e)[k] : k \in 1 .. e.live}
    BY <1>1, VisitedAll
  <2> QED
    BY <1>1, <2>1, <2>2 DEF Queued
<1> QED
  BY <1>1, <1>2, <1>3, OccupyQueue

\* release(): the last of the queue fills the gap.
LEMMA ReleasedQueue ==
  ASSUME NEW s, Ring(s), NEW i \in Slot, s.live_bits[i]
  PROVE  /\ s.live \in 1 .. Capacity
         /\ Released(s, i).live = s.live - 1
         /\ LiveSlots(Released(s, i)) = LiveSlots(s) \ {i}
         /\ Released(s, i).points = s.points
         /\ \E k \in 1 .. s.live :
              /\ Visited(s)[k] = i
              /\ Visited(Released(s, i))
                   = [j \in 1 .. s.live - 1 |->
                        IF j = k THEN Visited(s)[s.live] ELSE Visited(s)[j]]
<1>1. /\ s \in Store /\ s.buf_head \in Slot /\ s.buf_tail \in Slot
      /\ s.live \in 0 .. Capacity
  BY DEF Ring, Store
<1>2. PICK k \in 1 .. s.live : Visited(s)[k] = i
  BY LiveVisited DEF LiveSlots
<1>3. s.live \in 1 .. Capacity /\ k \in 1 .. Capacity
  BY <1>1, <1>2, CapacityAssumption
<1> DEFINE pos == s.buf_pos[i]
           last == IF s.buf_tail = 0 THEN Capacity - 1 ELSE s.buf_tail - 1
           moved == s.buffer[last]
<1>4. (s.buf_tail + Capacity - 1) % Capacity = last /\ last \in Slot
  BY <1>1, PrevValue, CapacityAssumption DEF Slot
<1>5. pos = Place(s, k) /\ pos \in Slot /\ s.buffer[pos] = i
  BY <1>1, <1>2, <1>3, VisitedLive, PlaceValue DEF Ring, BackPointers, LiveSlots
<1>6. last = Place(s, s.live)
  BY <1>1, <1>3, CapacityAssumption DEF Place, Slot, Ring, TailClosesWindow
<1>7. PICK t : t = Released(s, i)
  OBVIOUS
<1>8. Ring(t)
  BY <1>7, ReleasedRing
<1>9. /\ t.live = s.live - 1 /\ t.buf_head = s.buf_head /\ t.points = s.points
      /\ t.live_bits = [s.live_bits EXCEPT ![i] = FALSE]
  BY <1>1, <1>7 DEF Released, Store
<1>10. \A l \in Slot : t.buffer[l] = IF l = last THEN i
                                     ELSE IF l = pos THEN moved ELSE s.buffer[l]
  <2>1. CASE pos = last
    BY <1>1, <1>4, <1>7, <2>1 DEF Released, Store
  <2>2. CASE pos # last
    BY <1>1, <1>4, <1>5, <1>7, <2>2 DEF Released, Store
  <2> QED
    BY <2>1, <2>2
<1>11. LiveSlots(t) = LiveSlots(s) \ {i}
  BY <1>1, <1>9 DEF LiveSlots, Store
<1>12. Visited(t) = [j \in 1 .. s.live - 1 |->
                       IF j = k THEN Visited(s)[s.live] ELSE Visited(s)[j]]
  <2>1. \A j : Place(t, j) = Place(s, j)
    BY <1>9 DEF Place
  <2>2. Visited(t) = [j \in 1 .. s.live - 1 |-> t.buffer[Place(s, j)]]
    BY <1>8, <1>9, <2>1, VisitedValue
  <2>3. ASSUME NEW j \in 1 .. s.live - 1
        PROVE  t.buffer[Place(s, j)] = IF j = k THEN Visited(s)[s.live] ELSE Visited(s)[j]
    <3>1. j \in 1 .. s.live /\ s.live \in 1 .. s.live /\ j # s.live
      BY <1>3
    <3>2. /\ Place(s, j) \in Slot /\ Place(s, j) # last
          /\ Place(s, j) = pos <=> j = k
      BY <1>1, <1>2, <1>3, <1>5, <1>6, <3>1, PlaceValue, PlaceInWindow
    <3>3. Visited(s)[j] = s.buffer[Place(s, j)] /\ Visited(s)[s.live] = moved
      BY <1>6, <3>1, VisitedValue
    <3> QED
      BY <1>10, <3>2, <3>3
  <2> QED
    BY <2>2, <2>3
<1> QED
  BY <1>2, <1>3, <1>7, <1>9, <1>11, <1>12

-----------------------------------------------------------------------------
(* No call sets a point that stays back.                                   *)

\* acquire() puts nobody ahead of a slot that stays live.
LEMMA AcquiredAhead ==
  ASSUME NEW s, Ring(s), NEW p \in Point, NEW i \in LiveSlots(s), i # AcquiredSlot(s),
         i \in LiveSlots(Acquired(s, p))
  PROVE  Ahead(Acquired(s, p), i) <= Ahead(s, i)
<1> DEFINE stay == Stay(s)
<1>1. stay = IF s.live = Capacity THEN Tail(Visited(s)) ELSE Visited(s)
  BY DEF Stay
<1>2. PICK t : t = Acquired(s, p)
  OBVIOUS
<1>3. /\ Visited(t) = Append(stay, AcquiredSlot(s)) /\ stay \in Seq(Slot)
      /\ LiveSlots(t) = Queued(stay) \cup {AcquiredSlot(s)}
  BY <1>2, AcquiredQueue
<1> HIDE DEF stay
<1>4. Ring(t)
  BY <1>2, AcquiredRing
<1>5. PICK l \in 1 .. Len(stay) : stay[l] = i
  BY <1>2, <1>3 DEF Queued
<1>6. Ahead(t, i) = l - 1
  <2>1. l \in 1 .. t.live /\ Visited(t)[l] = i
    <3>1. Len(Visited(t)) = Len(stay) + 1 /\ Visited(t)[l] = i
      BY <1>3, <1>5, AppendProperties
    <3>2. Len(Visited(t)) = t.live /\ Len(stay) \in Nat
      BY <1>3, <1>4, VisitedValue
    <3> QED
      BY <3>1, <3>2
  <2> QED
    BY <1>4, <2>1, VisitedLive
<1>7. Ahead(s, i) \in {l - 1, l}
  <2>1. Visited(s) \in Seq(Slot) /\ Len(Visited(s)) = s.live /\ s.live \in Nat
    BY VisitedValue
  <2>2. CASE s.live = Capacity
    <3>1. Visited(s) # <<>>
      BY <2>1, <2>2, CapacityAssumption
    <3>2. l \in 1 .. s.live - 1 /\ Visited(s)[l + 1] = i
      BY <1>1, <1>5, <2>1, <2>2, <3>1, HeadTailProperties
    <3>3. l + 1 \in 1 .. s.live
      BY <2>1, <3>2
    <3>4. Ahead(s, i) = (l + 1) - 1
      BY <3>2, <3>3, VisitedLive
    <3> QED
      BY <3>4, <3>2, <2>1
  <2>3. CASE s.live # Capacity
    BY <1>1, <1>5, <2>1, <2>3, VisitedLive
  <2> QED
    BY <2>2, <2>3
<1>8. l \in Nat
  BY <1>3
<1> QED
  BY <1>2, <1>6, <1>7, <1>8

\* Nor does release().
LEMMA ReleasedAhead ==
  ASSUME NEW s, Ring(s), NEW j \in Slot, s.live_bits[j],
         NEW i \in LiveSlots(Released(s, j))
  PROVE  Ahead(Released(s, j), i) <= Ahead(s, i)
<1>1. PICK t : t = Released(s, j)
  OBVIOUS
<1>2. Ring(t) /\ s.live \in 1 .. Capacity /\ t.live = s.live - 1
  BY <1>1, ReleasedRing, ReleasedQueue
<1>3. PICK k \in 1 .. s.live :
        Visited(t) = [l \in 1 .. s.live - 1 |->
                        IF l = k THEN Visited(s)[s.live] ELSE Visited(s)[l]]
  BY <1>1, ReleasedQueue
<1>4. PICK l \in 1 .. s.live - 1 : Visited(t)[l] = i
  BY <1>1, <1>2, LiveVisited
<1>5. Ahead(t, i) = l - 1
  BY <1>2, <1>4, VisitedLive
<1>6. PICK m \in {l, s.live} : Visited(s)[m] = i
  BY <1>3, <1>4
<1>7. m \in 1 .. s.live /\ m >= l
  BY <1>2, <1>4, <1>6, CapacityAssumption
<1>8. Ahead(s, i) = m - 1
  BY <1>6, <1>7, VisitedLive
<1> QED
  BY <1>1, <1>4, <1>5, <1>7, <1>8, <1>2, CapacityAssumption

\* acquire() moves the others up or leaves them, and the swap of release() only ever
\* moves a slot forward: the point that is next to be evicted is never replaced by
\* one that was ahead of it before.
THEOREM NeverSetBackCorrect == Spec => NeverSetBack
<1> DEFINE KeepsPlace ==
      \A i \in Slot :
        /\ store.live_bits[i] /\ store'.live_bits[i]
        /\ store'.generations[i] = store.generations[i]
        => Ahead(store', i) <= Ahead(store, i)
<1>1. RingInv /\ [Next]_store => [KeepsPlace]_store
  <2> SUFFICES ASSUME RingInv, Next,
                      NEW i \in Slot, store.live_bits[i], store'.live_bits[i],
                      store'.generations[i] = store.generations[i]
               PROVE  Ahead(store', i) <= Ahead(store, i)
    OBVIOUS
  <2>1. Ring(store) /\ i \in LiveSlots(store) /\ i \in LiveSlots(store')
    BY DEF RingInv, LiveSlots
  <2>2. ASSUME NEW p \in Point, Acquire(p)
        PROVE  Ahead(store', i) <= Ahead(store, i)
    <3>1. store' = Acquired(store, p) /\ i # AcquiredSlot(store)
      BY <2>1, <2>2, AcquiredFrame DEF Acquire
    <3> QED
      BY <2>1, <3>1, AcquiredAhead
  <2>3. ASSUME NEW j \in Slot, Release(j)
        PROVE  Ahead(store', i) <= Ahead(store, i)
    BY <2>1, <2>3, ReleasedAhead DEF Release, is_live
  <2> QED
    BY <2>2, <2>3 DEF Next
<1> QED
  BY <1>1, RingCorrect, PTL DEF Spec, NeverSetBack

-----------------------------------------------------------------------------
(* The refinement.                                                         *)

\* The point each live handle stands for.
Held(s) == [i \in LiveSlots(s) |-> s.points[i]]

\* The empty store is the empty queue.
LEMMA InitMapsToInit == Init => Abstract!Init
<1> SUFFICES ASSUME store = NewStore
             PROVE  Visited(store) = <<>> /\ Held(store) = <<>>
  BY DEF Init, Abstract!Init, Held
<1>1. Ring(store) /\ store.live = 0 /\ LiveSlots(store) = {}
  BY NewStoreRing DEF NewStore, LiveSlots
<1>2. Visited(store) = <<>>
  BY <1>1, VisitedValue, EmptySeq
<1>3. Held(store) = <<>>
  BY <1>1 DEF Held
<1> QED
  BY <1>2, <1>3

\* acquire() is an arrival.
LEMMA AcquireMapsToArrive ==
  ASSUME Ring(store), NEW p \in Point, Acquire(p)
  PROVE  Abstract!Arrive(p)
<1> DEFINE h == AcquiredSlot(store)
           stay == IF Len(Visited(store)) = Capacity THEN Tail(Visited(store))
                                                     ELSE Visited(store)
<1>1. store' = Acquired(store, p)
  BY DEF Acquire
<1>2. stay = Stay(store)
  BY VisitedValue DEF Stay
<1>3. /\ Visited(store)' = Append(stay, h) /\ stay \in Seq(Slot)
      /\ h \in Slot \ Queued(stay)
      /\ LiveSlots(store)' = Queued(stay) \cup {h}
      /\ store'.points = [store.points EXCEPT ![h] = p]
      /\ Queued(stay) \subseteq LiveSlots(store)
  BY <1>1, <1>2, AcquiredQueue
<1> HIDE DEF stay
<1>4. Abstract!ToSet(stay) = Queued(stay)
  BY <1>3, LenProperties DEF Abstract!ToSet, Queued
<1>5. h \in Abstract!Handle \ Abstract!ToSet(stay)
  BY <1>3, <1>4 DEF Abstract!Handle, Slot
<1>6. Held(store)' = [j \in Abstract!ToSet(stay) \cup {h} |->
                        IF j = h THEN p ELSE Held(store)[j]]
  <2>1. store.points \in [Slot -> Point]
    BY DEF Ring, Store
  <2>2. \A j \in Abstract!ToSet(stay) \cup {h} :
          store'.points[j] = IF j = h THEN p ELSE Held(store)[j]
    BY <1>3, <1>4, <2>1 DEF Held, LiveSlots
  <2> QED
    BY <1>3, <1>4, <2>2 DEF Held
<1> QED
  BY <1>3, <1>5, <1>6 DEF Abstract!Arrive, stay, Held

\* release() lets a point go from the middle of the queue.
LEMMA ReleaseMapsToVacate ==
  ASSUME Ring(store), NEW i \in Slot, Release(i)
  PROVE  \E k \in 1 .. Len(Visited(store)) : Abstract!Vacate(k)
<1>1. store' = Released(store, i) /\ store.live_bits[i]
  BY DEF Release, is_live
<1>2. PICK k \in 1 .. store.live :
        /\ Visited(store)[k] = i
        /\ Visited(store)' = [j \in 1 .. store.live - 1 |->
             IF j = k THEN Visited(store)[store.live] ELSE Visited(store)[j]]
  BY <1>1, ReleasedQueue
<1>3. Len(Visited(store)) = store.live
  BY VisitedValue
<1>4. Held(store)' = [j \in DOMAIN Held(store) \ {i} |-> Held(store)[j]]
  BY <1>1, ReleasedQueue DEF Held
<1>5. Abstract!Vacate(k)
  BY <1>2, <1>3, <1>4 DEF Abstract!Vacate, Abstract!Forget, Abstract!Last, Held
<1> QED
  BY <1>3, <1>5

\* Every acquire() and release() is a step of the eviction queue.
THEOREM StoreImplementsQueue == Spec => ImplementsQueue
<1>1. Init => Abstract!Init
  BY InitMapsToInit
<1>2. RingInv /\ [Next]_store => [Abstract!Next]_(Abstract!vars)
  <2> SUFFICES ASSUME RingInv, [Next]_store
               PROVE  [Abstract!Next]_(Abstract!vars)
    OBVIOUS
  <2>1. ASSUME NEW p \in Point, Acquire(p)
        PROVE  Abstract!Next
    BY <2>1, AcquireMapsToArrive DEF RingInv, Abstract!Next
  <2>2. ASSUME NEW i \in Slot, Release(i)
        PROVE  Abstract!Next
    BY <2>2, ReleaseMapsToVacate DEF RingInv, Abstract!Next
  <2>3. CASE UNCHANGED store
    BY <2>3 DEF Abstract!vars, Visited, LiveSlots
  <2> QED
    BY <2>1, <2>2, <2>3 DEF Next
<1> QED
  BY <1>1, <1>2, RingCorrect, PTL DEF Spec, ImplementsQueue, Abstract!Spec

=============================================================================
