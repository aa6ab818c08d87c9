-------------------------- MODULE PointStoreProofs --------------------------
(***************************************************************************)
(* Proofs about the slot store, for every capacity, point set and          *)
(* generation width.                                                       *)
(***************************************************************************)
EXTENDS PointStoreSpec, TLAPS

(* Arithmetic of the circular buffer, with the modulus gone. *)

LEMMA Next1Value ==
  ASSUME NEW k \in Slot
  PROVE  Next1(k) = IF k + 1 = Capacity THEN 0 ELSE k + 1
BY CapacityAssumption DEF Next1, Slot

LEMMA PrevValue ==
  ASSUME NEW k \in Slot
  PROVE  (k + Capacity - 1) % Capacity = IF k = 0 THEN Capacity - 1 ELSE k - 1
BY CapacityAssumption DEF Slot

LEMMA BumpValue ==
  ASSUME NEW g \in 0 .. (GenMod - 1)
  PROVE  Bump(g) = IF g + 1 = GenMod THEN 0 ELSE g + 1
BY GenModAssumption DEF Bump

(* Each operation keeps the ring. *)

LEMMA NewStoreRing == Ring(NewStore)
BY CapacityAssumption, ZeroPointAssumption, GenModAssumption
   DEF Ring, NewStore, Store, Slot, TailClosesWindow, BufferIsPermutation,
       QueueIndexed, InWindow, BackPointers, LiveSlots, INVALID_POS

\* Evicting from a full ring leaves a ring one slot short of full.
LEMMA EvictRing ==
  ASSUME NEW s, Ring(s), s.live = Capacity
  PROVE  Ring(Evict(s)) /\ Evict(s).live = Capacity - 1
<1> DEFINE victim == s.buffer[s.buf_head]
<1>1. s \in Store /\ victim \in Slot /\ s.buf_head \in Slot
  BY DEF Ring, Store
<1>2. PICK t : t = Evict(s)
  OBVIOUS
<1>3. /\ t.live = Capacity - 1
      /\ t.live_bits = [s.live_bits EXCEPT ![victim] = FALSE]
      /\ t.buffer = s.buffer
      /\ t.buf_pos = [s.buf_pos EXCEPT ![victim] = INVALID_POS]
      /\ t.buf_head = Next1(s.buf_head)
      /\ t.buf_tail = s.buf_tail
  BY <1>1, <1>2 DEF Evict, Store
<1>4. t \in Store
  <2>1. Bump(s.generations[victim]) \in 0 .. (GenMod - 1)
    BY <1>1, BumpValue, GenModAssumption DEF Store
  <2>2. Next1(s.buf_head) \in Slot
    BY <1>1, Next1Value, CapacityAssumption DEF Slot
  <2>3. s.live - 1 \in 0 .. Capacity
    BY CapacityAssumption
  <2> QED
    BY <1>1, <1>2, <2>1, <2>2, <2>3 DEF Store, Evict
<1>5. TailClosesWindow(t)
  <2>1. s.buf_tail = s.buf_head
    BY <1>1, CapacityAssumption DEF Ring, TailClosesWindow, Slot
  <2>2. t.buf_tail = IF t.buf_head = 0 THEN Capacity - 1 ELSE t.buf_head - 1
    BY <1>1, <1>3, <2>1, Next1Value, CapacityAssumption DEF Slot
  <2>3. t.buf_head \in Slot /\ t.live = Capacity - 1
    BY <1>3, <1>4 DEF Store
  <2> QED
    BY <2>2, <2>3, CapacityAssumption DEF TailClosesWindow, Slot
<1>6. BufferIsPermutation(t)
  BY <1>3 DEF Ring, BufferIsPermutation
<1>7. QueueIndexed(t)
  <2> SUFFICES ASSUME NEW k \in Slot
               PROVE  IF InWindow(t, k)
                      THEN t.live_bits[s.buffer[k]] /\ t.buf_pos[s.buffer[k]] = k
                      ELSE /\ ~ t.live_bits[s.buffer[k]]
                           /\ t.buf_pos[s.buffer[k]] = INVALID_POS
    BY <1>3 DEF QueueIndexed
  <2>1. InWindow(s, k)
    BY <1>1, CapacityAssumption DEF InWindow, Slot
  <2>2. s.live_bits[s.buffer[k]] /\ s.buf_pos[s.buffer[k]] = k /\ s.buffer[k] \in Slot
    BY <1>1, <2>1 DEF Ring, QueueIndexed, Store
  <2>3. InWindow(t, k) <=> k # s.buf_head
    BY <1>1, <1>3, Next1Value, CapacityAssumption DEF InWindow, Slot
  <2>4. s.buffer[k] = victim <=> k = s.buf_head
    BY <1>1 DEF Ring, BufferIsPermutation
  <2> QED
    BY <1>1, <1>3, <2>2, <2>3, <2>4 DEF Store
<1>8. BackPointers(t)
  BY <1>1, <1>3 DEF Ring, BackPointers, LiveSlots, Store
<1> QED
  BY <1>2, <1>3, <1>4, <1>5, <1>6, <1>7, <1>8 DEF Ring

\* Occupying a slot of a ring that is not full leaves a ring.
LEMMA OccupyRing ==
  ASSUME NEW s, Ring(s), s.live < Capacity, NEW p \in Point
  PROVE  Ring(Occupy(s, p))
<1> DEFINE index == s.buffer[s.buf_tail]
<1>1. /\ s \in Store /\ index \in Slot /\ s.buf_head \in Slot /\ s.buf_tail \in Slot
      /\ s.live \in 0 .. Capacity
  BY DEF Ring, Store
<1>2. PICK t : t = Occupy(s, p)
  OBVIOUS
<1>3. /\ t.live = s.live + 1
      /\ t.live_bits = [s.live_bits EXCEPT ![index] = TRUE]
      /\ t.buffer = s.buffer
      /\ t.buf_pos = [s.buf_pos EXCEPT ![index] = s.buf_tail]
      /\ t.buf_head = s.buf_head
      /\ t.buf_tail = Next1(s.buf_tail)
  BY <1>1, <1>2 DEF Occupy, Store
<1>4. t \in Store
  <2>1. Bump(s.generations[index]) \in 0 .. (GenMod - 1)
    BY <1>1, BumpValue, GenModAssumption DEF Store
  <2>2. Next1(s.buf_tail) \in Slot
    BY <1>1, Next1Value, CapacityAssumption DEF Slot
  <2>3. s.live + 1 \in 0 .. Capacity
    BY <1>1, CapacityAssumption
  <2> QED
    BY <1>1, <1>2, <2>1, <2>2, <2>3 DEF Store, Occupy
<1>5. TailClosesWindow(t)
  BY <1>1, <1>3, Next1Value, CapacityAssumption DEF Ring, TailClosesWindow, Slot
<1>6. BufferIsPermutation(t)
  BY <1>3 DEF Ring, BufferIsPermutation
<1>7. QueueIndexed(t)
  <2> SUFFICES ASSUME NEW k \in Slot
               PROVE  IF InWindow(t, k)
                      THEN t.live_bits[s.buffer[k]] /\ t.buf_pos[s.buffer[k]] = k
                      ELSE /\ ~ t.live_bits[s.buffer[k]]
                           /\ t.buf_pos[s.buffer[k]] = INVALID_POS
    BY <1>3 DEF QueueIndexed
  <2>1. s.buffer[k] \in Slot
    BY <1>1 DEF Store
  <2>2. IF InWindow(s, k)
        THEN s.live_bits[s.buffer[k]] /\ s.buf_pos[s.buffer[k]] = k
        ELSE ~ s.live_bits[s.buffer[k]] /\ s.buf_pos[s.buffer[k]] = INVALID_POS
    BY DEF Ring, QueueIndexed
  <2>3. InWindow(t, k) <=> InWindow(s, k) \/ k = s.buf_tail
    BY <1>1, <1>3, CapacityAssumption DEF InWindow, Slot, Ring, TailClosesWindow
  <2>4. s.buffer[k] = index <=> k = s.buf_tail
    BY <1>1 DEF Ring, BufferIsPermutation
  <2> QED
    BY <1>1, <1>3, <2>1, <2>2, <2>3, <2>4 DEF Store
<1>8. BackPointers(t)
  BY <1>1, <1>3 DEF Ring, BackPointers, LiveSlots, Store
<1> QED
  BY <1>2, <1>4, <1>5, <1>6, <1>7, <1>8 DEF Ring

\* acquire(), with or without an eviction.
LEMMA AcquiredRing ==
  ASSUME NEW s, Ring(s), NEW p \in Point
  PROVE  Ring(Acquired(s, p))
<1>1. CASE s.live = Capacity
  BY <1>1, EvictRing, OccupyRing, CapacityAssumption DEF Acquired
<1>2. CASE s.live # Capacity
  <2>1. s.live < Capacity
    BY <1>2, CapacityAssumption DEF Ring, Store
  <2> QED
    BY <1>2, <2>1, OccupyRing DEF Acquired
<1> QED
  BY <1>1, <1>2

\* release() of a live slot.
LEMMA ReleasedRing ==
  ASSUME NEW s, Ring(s), NEW i \in Slot, s.live_bits[i]
  PROVE  Ring(Released(s, i))
<1> DEFINE pos   == s.buf_pos[i]
           last  == IF s.buf_tail = 0 THEN Capacity - 1 ELSE s.buf_tail - 1
           moved == s.buffer[last]
<1>1. /\ s \in Store /\ s.buf_head \in Slot /\ s.buf_tail \in Slot
      /\ s.live \in 0 .. Capacity /\ last \in Slot /\ moved \in Slot
  <2>1. /\ s \in Store /\ s.buf_head \in Slot /\ s.buf_tail \in Slot
        /\ s.live \in 0 .. Capacity
    BY DEF Ring, Store
  <2>2. last \in Slot
    BY <2>1, CapacityAssumption DEF Slot
  <2> QED
    BY <2>1, <2>2 DEF Store
<1>2. (s.buf_tail + Capacity - 1) % Capacity = last
  BY <1>1, PrevValue
<1>3. /\ pos \in Slot /\ s.buffer[pos] = i /\ InWindow(s, pos)
      /\ s.live > 0 /\ InWindow(s, last)
      /\ s.live_bits[moved] /\ s.buf_pos[moved] = last
  <2>1. pos \in Slot /\ s.buffer[pos] = i
    BY DEF Ring, BackPointers, LiveSlots
  <2>2. InWindow(s, pos)
    BY <2>1 DEF Ring, QueueIndexed
  <2>3. s.live > 0 /\ InWindow(s, last)
    BY <1>1, <2>1, <2>2, CapacityAssumption DEF InWindow, Slot, Ring, TailClosesWindow
  <2> QED
    BY <1>1, <2>1, <2>2, <2>3 DEF Ring, QueueIndexed
<1>4. PICK u : /\ u \in Store
               /\ Released(s, i) = [u EXCEPT !.buffer[last] = i,
                                             !.buf_pos[i]   = INVALID_POS,
                                             !.live_bits[i] = FALSE,
                                             !.buf_tail     = last,
                                             !.live         = @ - 1]
               /\ u.live = s.live /\ u.buf_head = s.buf_head
               /\ u.live_bits = s.live_bits
               /\ u.buffer = [s.buffer EXCEPT ![pos] = moved]
               /\ u.buf_pos = [s.buf_pos EXCEPT ![moved] = pos]
  <2>1. CASE pos = last
    <3>1. s.buffer = [s.buffer EXCEPT ![pos] = moved]
      BY <1>1, <1>3, <2>1 DEF Store
    <3>2. s.buf_pos = [s.buf_pos EXCEPT ![moved] = pos]
      BY <1>1, <1>3, <2>1 DEF Store
    <3> QED
      BY <1>1, <1>2, <2>1, <3>1, <3>2 DEF Released
  <2>2. CASE pos # last
    <3> DEFINE v == [s EXCEPT !.buffer[pos] = moved, !.buf_pos[moved] = pos]
    <3>1. Released(s, i) = [v EXCEPT !.buffer[last] = i,
                                     !.buf_pos[i]   = INVALID_POS,
                                     !.live_bits[i] = FALSE,
                                     !.buf_tail     = last,
                                     !.live         = @ - 1]
      BY <1>2, <2>2, Zenon DEF Released
    <3>2. /\ v \in Store
          /\ v.live = s.live /\ v.buf_head = s.buf_head
          /\ v.live_bits = s.live_bits
          /\ v.buffer = [s.buffer EXCEPT ![pos] = moved]
          /\ v.buf_pos = [s.buf_pos EXCEPT ![moved] = pos]
      BY <1>1, <1>3 DEF Store
    <3> HIDE DEF v
    <3> QED
      BY <3>1, <3>2
  <2> QED
    BY <2>1, <2>2
<1>5. PICK t : /\ t = Released(s, i) /\ t \in Store
               /\ t.live = s.live - 1
               /\ t.live_bits = [u.live_bits EXCEPT ![i] = FALSE]
               /\ t.buffer = [u.buffer EXCEPT ![last] = i]
               /\ t.buf_pos = [u.buf_pos EXCEPT ![i] = INVALID_POS]
               /\ t.buf_head = s.buf_head
               /\ t.buf_tail = last
  <2>1. s.live - 1 \in 0 .. Capacity
    BY <1>1, <1>3, CapacityAssumption
  <2> DEFINE r == [u EXCEPT !.buffer[last] = i,
                            !.buf_pos[i]   = INVALID_POS,
                            !.live_bits[i] = FALSE,
                            !.buf_tail     = last,
                            !.live         = @ - 1]
  <2>2. /\ r \in Store
        /\ r.live = s.live - 1
        /\ r.live_bits = [u.live_bits EXCEPT ![i] = FALSE]
        /\ r.buffer = [u.buffer EXCEPT ![last] = i]
        /\ r.buf_pos = [u.buf_pos EXCEPT ![i] = INVALID_POS]
        /\ r.buf_head = s.buf_head
        /\ r.buf_tail = last
    BY <1>1, <1>4, <2>1 DEF Store
  <2>3. Released(s, i) = r
    BY <1>4
  <2> HIDE DEF r
  <2> QED
    BY <2>2, <2>3
<1>6. TailClosesWindow(t)
  BY <1>1, <1>3, <1>5, CapacityAssumption DEF Ring, TailClosesWindow, Slot
<1>7. /\ \A k \in Slot : t.buffer[k] = IF k = last THEN i
                                       ELSE IF k = pos THEN moved ELSE s.buffer[k]
      /\ \A j \in Slot : t.buf_pos[j] = IF j = i THEN INVALID_POS
                                        ELSE IF j = moved THEN pos ELSE s.buf_pos[j]
      /\ \A j \in Slot : t.live_bits[j] = IF j = i THEN FALSE ELSE s.live_bits[j]
  <2>1. /\ s.buffer \in [Slot -> Slot] /\ u.buffer \in [Slot -> Slot]
        /\ u.live_bits \in [Slot -> BOOLEAN]
        /\ s.buf_pos \in [Slot -> Slot \cup {INVALID_POS}]
        /\ u.buf_pos \in [Slot -> Slot \cup {INVALID_POS}]
    BY <1>1, <1>4 DEF Store
  <2>2. \A k \in Slot : t.buffer[k] = IF k = last THEN i
                                      ELSE IF k = pos THEN moved ELSE s.buffer[k]
    BY <1>1, <1>3, <1>4, <1>5, <2>1
  <2>3. \A j \in Slot : t.buf_pos[j] = IF j = i THEN INVALID_POS
                                       ELSE IF j = moved THEN pos ELSE s.buf_pos[j]
    <3>1. \A j \in Slot : u.buf_pos[j] = IF j = moved THEN pos ELSE s.buf_pos[j]
      BY <1>1, <1>4, <2>1
    <3>2. \A j \in Slot : t.buf_pos[j] = IF j = i THEN INVALID_POS ELSE u.buf_pos[j]
      BY <1>5, <2>1
    <3> QED
      BY <3>1, <3>2
  <2>4. \A j \in Slot : t.live_bits[j] = IF j = i THEN FALSE ELSE s.live_bits[j]
    <3>1. t.live_bits = [j \in Slot |-> IF j = i THEN FALSE ELSE u.live_bits[j]]
      BY <1>5, <2>1
    <3>2. u.live_bits = s.live_bits
      BY <1>4
    <3> QED
      BY <3>1, <3>2, Zenon
  <2> QED
    BY <2>2, <2>3, <2>4
<1>8. BufferIsPermutation(t)
  BY <1>1, <1>3, <1>7 DEF Ring, BufferIsPermutation
<1>9. ASSUME NEW k \in Slot
      PROVE  InWindow(t, k) <=> InWindow(s, k) /\ k # last
  BY <1>1, <1>3, <1>5, CapacityAssumption DEF InWindow, Slot, Ring, TailClosesWindow
<1>10. QueueIndexed(t)
  <2> SUFFICES ASSUME NEW k \in Slot
               PROVE  IF InWindow(t, k)
                      THEN t.live_bits[t.buffer[k]] /\ t.buf_pos[t.buffer[k]] = k
                      ELSE /\ ~ t.live_bits[t.buffer[k]]
                           /\ t.buf_pos[t.buffer[k]] = INVALID_POS
    BY DEF QueueIndexed
  <2>1. CASE k = last
    BY <1>3, <1>7, <1>9, <2>1
  <2>2. CASE k # last /\ k = pos
    <3>1. moved # i
      BY <1>1, <1>3, <2>2 DEF Ring, BufferIsPermutation
    <3> QED
      BY <1>1, <1>3, <1>7, <1>9, <2>2, <3>1
  <2>3. CASE k # last /\ k # pos
    <3>1. s.buffer[k] \in Slot /\ s.buffer[k] # i /\ s.buffer[k] # moved
      BY <1>1, <1>3, <2>3 DEF Ring, BufferIsPermutation, Store
    <3>2. IF InWindow(s, k)
          THEN s.live_bits[s.buffer[k]] /\ s.buf_pos[s.buffer[k]] = k
          ELSE ~ s.live_bits[s.buffer[k]] /\ s.buf_pos[s.buffer[k]] = INVALID_POS
      BY DEF Ring, QueueIndexed
    <3> QED
      BY <1>7, <1>9, <2>3, <3>1, <3>2
  <2> QED
    BY <2>1, <2>2, <2>3
<1>11. BackPointers(t)
  <2> SUFFICES ASSUME NEW j \in Slot, t.live_bits[j]
               PROVE  t.buf_pos[j] \in Slot /\ t.buffer[t.buf_pos[j]] = j
    BY DEF BackPointers, LiveSlots
  <2>1. j # i /\ s.live_bits[j]
    BY <1>7
  <2>2. s.buf_pos[j] \in Slot /\ s.buffer[s.buf_pos[j]] = j
    BY <2>1 DEF Ring, BackPointers, LiveSlots
  <2>3. CASE j = moved
    BY <1>3, <1>7, <2>1, <2>3
  <2>4. CASE j # moved
    <3>1. s.buf_pos[j] # last /\ s.buf_pos[j] # pos
      BY <1>3, <2>1, <2>2, <2>4
    <3> QED
      BY <1>7, <2>1, <2>2, <2>4, <3>1
  <2> QED
    BY <2>3, <2>4
<1> QED
  BY <1>5, <1>6, <1>8, <1>10, <1>11 DEF Ring

-----------------------------------------------------------------------------
(* What each operation leaves alone.                                       *)

\* Neither one increment nor two bring a stamp back.
LEMMA BumpMoves ==
  ASSUME NEW g \in 0 .. (GenMod - 1)
  PROVE  Bump(g) # g /\ Bump(Bump(g)) # g
<1>1. Bump(g) \in 0 .. (GenMod - 1)
  BY BumpValue, GenModAssumption
<1> QED
  BY <1>1, BumpValue, GenModAssumption

\* acquire() fills and re-stamps one slot; no other slot becomes live or
\* changes its point.
LEMMA AcquiredFrame ==
  ASSUME NEW s, Ring(s), NEW p \in Point
  PROVE  /\ Acquired(s, p).generations[AcquiredSlot(s)] # s.generations[AcquiredSlot(s)]
         /\ \A j \in Slot : j # AcquiredSlot(s) =>
              /\ Acquired(s, p).points[j] = s.points[j]
              /\ Acquired(s, p).live_bits[j] => s.live_bits[j]
<1> DEFINE index == AcquiredSlot(s)
           e == IF s.live = Capacity THEN Evict(s) ELSE s
<1>1. s \in Store /\ s.buf_head \in Slot /\ s.buf_tail \in Slot /\ index \in Slot
  BY DEF Ring, Store, AcquiredSlot
<1>2. /\ e.buffer = s.buffer /\ e.buf_tail = s.buf_tail /\ e.points = s.points
      /\ e \in Store
      /\ \A j \in Slot : e.live_bits[j] => s.live_bits[j]
      /\ e.generations[index] \in {s.generations[index], Bump(s.generations[index])}
  <2>1. CASE s.live = Capacity
    <3>1. e = Evict(s) /\ e \in Store
      BY <2>1, EvictRing DEF Ring
    <3>2. s.buf_tail = s.buf_head
      BY <1>1, <2>1, CapacityAssumption DEF Ring, TailClosesWindow, Slot
    <3>3. /\ e.buffer = s.buffer /\ e.buf_tail = s.buf_tail /\ e.points = s.points
          /\ e.live_bits = [s.live_bits EXCEPT ![index] = FALSE]
          /\ e.generations = [s.generations EXCEPT ![index] = Bump(s.generations[index])]
      BY <1>1, <3>1, <3>2 DEF Evict, Store, AcquiredSlot
    <3>4. \A j \in Slot : e.live_bits[j] => s.live_bits[j]
      BY <1>1, <3>3 DEF Store
    <3>5. e.generations[index] = Bump(s.generations[index])
      BY <1>1, <3>3 DEF Store
    <3> QED
      BY <3>1, <3>3, <3>4, <3>5
  <2>2. CASE s.live # Capacity
    BY <1>1, <2>2
  <2> QED
    BY <2>1, <2>2
<1> HIDE DEF e
<1>3. /\ Occupy(e, p).points = [s.points EXCEPT ![index] = p]
      /\ Occupy(e, p).live_bits = [e.live_bits EXCEPT ![index] = TRUE]
      /\ Occupy(e, p).generations
           = [e.generations EXCEPT ![index] = Bump(e.generations[index])]
  BY <1>1, <1>2 DEF Occupy, Store, AcquiredSlot
<1>4. Occupy(e, p) = Acquired(s, p)
  BY DEF Acquired, e
<1>5. Acquired(s, p).generations[index] # s.generations[index]
  <2>1. s.generations[index] \in 0 .. (GenMod - 1)
    BY <1>1 DEF Store
  <2>2. Acquired(s, p).generations[index] = Bump(e.generations[index])
    BY <1>1, <1>2, <1>3, <1>4 DEF Store
  <2> QED
    BY <1>2, <2>1, <2>2, BumpMoves
<1>6. ASSUME NEW j \in Slot, j # index
      PROVE  /\ Acquired(s, p).points[j] = s.points[j]
             /\ Acquired(s, p).live_bits[j] => s.live_bits[j]
  BY <1>1, <1>2, <1>3, <1>4, <1>6 DEF Store
<1> QED
  BY <1>5, <1>6

\* release() makes no slot live and writes no point.
LEMMA ReleasedFrame ==
  ASSUME NEW s \in Store, NEW i \in Slot, NEW j \in Slot
  PROVE  /\ Released(s, i).points[j] = s.points[j]
         /\ Released(s, i).live_bits[j] => s.live_bits[j]
<1>1. /\ Released(s, i).points = s.points
      /\ Released(s, i).live_bits = [s.live_bits EXCEPT ![i] = FALSE]
  BY DEF Released, Store
<1> QED
  BY <1>1 DEF Store

-----------------------------------------------------------------------------

\* The ring is kept by every sequence of acquire() and release() calls.
THEOREM RingCorrect == Spec => []RingInv
<1>1. Init => RingInv
  BY NewStoreRing DEF Init, RingInv
<1>2. RingInv /\ [Next]_store => RingInv'
  <2> SUFFICES ASSUME RingInv, [Next]_store
               PROVE  RingInv'
    OBVIOUS
  <2>1. CASE \E p \in Point : Acquire(p)
    BY <2>1, AcquiredRing DEF RingInv, Acquire
  <2>2. CASE \E i \in Slot : Release(i)
    BY <2>2, ReleasedRing DEF RingInv, Release, is_live
  <2>3. CASE UNCHANGED store
    BY <2>3 DEF RingInv
  <2> QED
    BY <2>1, <2>2, <2>3 DEF Next
<1> QED
  BY <1>1, <1>2, PTL DEF Spec

\* The fields keep their types: the type invariant is a part of the ring's.
THEOREM TypeCorrect == Spec => []TypeOK
<1>1. RingInv => TypeOK
  BY DEF RingInv, Ring, TypeOK
<1> QED
  BY <1>1, RingCorrect, PTL

\* A slot that comes to hold another live point carries another stamp than the
\* one its previous owner's bucket entry was written with.
THEOREM RestampCorrect == Spec => ReuseRestamps
<1> DEFINE Restamped ==
      \A i \in Slot :
        /\ store'.live_bits[i]
        /\ ~ store.live_bits[i] \/ store'.points[i] # store.points[i]
        => store'.generations[i] # store.generations[i]
<1>1. RingInv /\ [Next]_store => [Restamped]_store
  <2> SUFFICES ASSUME RingInv, Next
               PROVE  Restamped
    OBVIOUS
  <2>1. ASSUME NEW p \in Point, Acquire(p)
        PROVE  Restamped
    <3>1. Ring(store) /\ store' = Acquired(store, p)
      BY <2>1 DEF RingInv, Acquire
    <3> SUFFICES ASSUME NEW i \in Slot, store'.live_bits[i],
                        ~ store.live_bits[i] \/ store'.points[i] # store.points[i]
                 PROVE  store'.generations[i] # store.generations[i]
      OBVIOUS
    <3>2. i = AcquiredSlot(store)
      BY <3>1, AcquiredFrame
    <3> QED
      BY <3>1, <3>2, AcquiredFrame
  <2>2. ASSUME NEW j \in Slot, Release(j)
        PROVE  Restamped
    <3>1. store \in Store /\ store' = Released(store, j)
      BY <2>2 DEF RingInv, Ring, Release
    <3> QED
      BY <3>1, ReleasedFrame
  <2> QED
    BY <2>1, <2>2 DEF Next
<1> QED
  BY <1>1, RingCorrect, PTL DEF Spec, ReuseRestamps

=============================================================================
