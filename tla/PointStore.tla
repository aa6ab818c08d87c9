----------------------------- MODULE PointStore -----------------------------
(***************************************************************************)
(* The slot store of the tree (point_store.hpp, point_store.cpp): a fixed  *)
(* array of Capacity slots, and a circular buffer that is at once the      *)
(* eviction queue and the free list.                                       *)
(*                                                                         *)
(* buffer_ is always a permutation of the slots.  The live_ positions from *)
(* buf_head_ on hold the occupied slots in the order in which they will be *)
(* evicted; the remaining positions, from buf_tail_ on, hold the free      *)
(* slots in the order in which they will be handed out.                    *)
(*                                                                         *)
(* The whole object is one record, and acquire() and release() are         *)
(* operators from stores to stores, so that a component that performs      *)
(* several of them in one call can compose them.  PointStoreSpec turns     *)
(* them into a state machine.                                              *)
(***************************************************************************)
EXTENDS Integers

CONSTANTS
  Capacity,   \* cfg.capacity, the number of slots
  Point,      \* the points a client can store
  ZeroPoint,  \* what points_(capacity) value-initialises every slot to
  GenMod      \* generations_ counts modulo this; 2^32 in the code

ASSUME CapacityAssumption == Capacity \in Nat \ {0}
ASSUME ZeroPointAssumption == ZeroPoint \in Point

\* A slot that is evicted and reused at once is stamped twice (see Acquired).
ASSUME GenModAssumption == GenMod \in Nat /\ GenMod > 2

Slot == 0 .. (Capacity - 1)

\* ~uint32_t{0}: a position no buffer has.
INVALID_POS == -1

\* The constructor: every slot free, buffer_ filled by std::iota.
NewStore ==
  [ live        |-> 0,
    points      |-> [i \in Slot |-> ZeroPoint],
    live_bits   |-> [i \in Slot |-> FALSE],
    generations |-> [i \in Slot |-> 0],
    buffer      |-> [k \in Slot |-> k],
    buf_pos     |-> [i \in Slot |-> INVALID_POS],
    buf_head    |-> 0,
    buf_tail    |-> 0 ]

-----------------------------------------------------------------------------
(* Reading the store.                                                      *)

is_live(s, i) == i \in Slot /\ s.live_bits[i]

LiveSlots(s) == {i \in Slot : s.live_bits[i]}

LivePoints(s) == {s.points[i] : i \in LiveSlots(s)}

-----------------------------------------------------------------------------
(* acquire(point).                                                         *)

\* Fault: the buffer position is not wrapped.
Next1Unwrapped(k) == k + 1

Next1(k) == (k + 1) % Capacity

\* The increment of a std::uint32_t generation.
Bump(g) == (g + 1) % GenMod

\* Fault: an eviction leaves the head where it was.
EvictKeepsHead(s) ==
  LET victim == s.buffer[s.buf_head]
  IN  [s EXCEPT !.generations[victim] = Bump(@),
                !.live_bits[victim]   = FALSE,
                !.buf_pos[victim]     = INVALID_POS,
                !.live                = @ - 1]

\* Fault: the newest slot is evicted, not the one at the head.
EvictNewest(s) ==
  LET last_pos == (s.buf_tail + Capacity - 1) % Capacity
      victim   == s.buffer[last_pos]
  IN  [s EXCEPT !.generations[victim] = Bump(@),
                !.live_bits[victim]   = FALSE,
                !.buf_pos[victim]     = INVALID_POS,
                !.buf_tail            = last_pos,
                !.live                = @ - 1]

\* acquire() on a full store first evicts the slot at the head of the queue.
Evict(s) ==
  LET victim == s.buffer[s.buf_head]
  IN  [s EXCEPT !.generations[victim] = Bump(@),
                !.live_bits[victim]   = FALSE,
                !.buf_pos[victim]     = INVALID_POS,
                !.buf_head            = Next1(@),
                !.live                = @ - 1]

\* Fault: only an eviction stamps the slot.
OccupyUnstamped(s, p) ==
  LET index == s.buffer[s.buf_tail]
  IN  [s EXCEPT !.points[index]    = p,
                !.live_bits[index] = TRUE,
                !.buf_pos[index]   = s.buf_tail,
                !.buf_tail         = Next1(@),
                !.live             = @ + 1]

\* Write the point into the slot at the tail and stamp the slot anew.
Occupy(s, p) ==
  LET index == s.buffer[s.buf_tail]
  IN  [s EXCEPT !.generations[index] = Bump(@),
                !.points[index]      = p,
                !.live_bits[index]   = TRUE,
                !.buf_pos[index]     = s.buf_tail,
                !.buf_tail           = Next1(@),
                !.live               = @ + 1]

Acquired(s, p) == Occupy(IF s.live = Capacity THEN Evict(s) ELSE s, p)

\* The index acquire() returns (an eviction moves neither buffer_ nor buf_tail_).
AcquiredSlot(s) == s.buffer[s.buf_tail]

-----------------------------------------------------------------------------
(* release(index): swap with the last queued slot, then shorten the queue. *)

\* Fault: the slot that fills the gap keeps its old back-pointer.
ReleasedUnindexed(s, index) ==
  LET pos      == s.buf_pos[index]
      last_pos == (s.buf_tail + Capacity - 1) % Capacity
  IN  [s EXCEPT !.buffer    = [@ EXCEPT ![pos] = s.buffer[last_pos], ![last_pos] = index],
                !.buf_pos[index]   = INVALID_POS,
                !.live_bits[index] = FALSE,
                !.buf_tail         = last_pos,
                !.live             = @ - 1]

\* Fault: the gap is filled from the head of the queue, not from its end.
ReleasedFromHead(s, index) ==
  LET pos   == s.buf_pos[index]
      moved == s.buffer[s.buf_head]
  IN  [s EXCEPT !.buffer    = [@ EXCEPT ![pos] = moved, ![s.buf_head] = index],
                !.buf_pos   = [@ EXCEPT ![moved] = pos, ![index] = INVALID_POS],
                !.live_bits[index] = FALSE,
                !.buf_head         = Next1(@),
                !.live             = @ - 1]

Released(s, index) ==
  LET pos      == s.buf_pos[index]
      last_pos == (s.buf_tail + Capacity - 1) % Capacity
      moved    == s.buffer[last_pos]
      swapped  == IF pos = last_pos
                  THEN s
                  ELSE [s EXCEPT !.buffer[pos] = moved, !.buf_pos[moved] = pos]
  IN  [swapped EXCEPT !.buffer[last_pos] = index,
                      !.buf_pos[index]   = INVALID_POS,
                      !.live_bits[index] = FALSE,
                      !.buf_tail         = last_pos,
                      !.live             = @ - 1]

-----------------------------------------------------------------------------
(* for_each_live() visits the queue from buf_head_ on: the k-th slot it    *)
(* visits, k counted from 1.                                               *)

Visited(s) == [k \in 1 .. s.live |-> s.buffer[(s.buf_head + k - 1) % Capacity]]

-----------------------------------------------------------------------------
(* The shape of a store.                                                   *)

Store ==
  [ live        : 0 .. Capacity,
    points      : [Slot -> Point],
    live_bits   : [Slot -> BOOLEAN],
    generations : [Slot -> 0 .. (GenMod - 1)],
    buffer      : [Slot -> Slot],
    buf_pos     : [Slot -> Slot \cup {INVALID_POS}],
    buf_head    : Slot,
    buf_tail    : Slot ]

\* Buffer position k lies in the live window [buf_head, buf_head + live), wrapping.
InWindow(s, k) ==
  \/ s.buf_head <= k /\ k < s.buf_head + s.live
  \/ k < s.buf_head + s.live - Capacity

\* buf_tail_ is where the live window ends.
TailClosesWindow(s) ==
  s.buf_tail = IF s.buf_head + s.live < Capacity
               THEN s.buf_head + s.live
               ELSE s.buf_head + s.live - Capacity

\* No slot is in the circular buffer twice, so none is both queued and free.
BufferIsPermutation(s) ==
  \A k, l \in Slot : s.buffer[k] = s.buffer[l] => k = l

\* A slot is live exactly while the window holds it, and buf_pos_ finds it there.
QueueIndexed(s) ==
  \A k \in Slot :
    LET i == s.buffer[k]
    IN  IF InWindow(s, k)
        THEN s.live_bits[i] /\ s.buf_pos[i] = k
        ELSE ~ s.live_bits[i] /\ s.buf_pos[i] = INVALID_POS

\* The back-pointer of a live slot leads to the position that holds the slot.
BackPointers(s) ==
  \A i \in LiveSlots(s) : s.buf_pos[i] \in Slot /\ s.buffer[s.buf_pos[i]] = i

Ring(s) ==
  /\ s \in Store
  /\ TailClosesWindow(s)
  /\ BufferIsPermutation(s)
  /\ QueueIndexed(s)
  /\ BackPointers(s)

=============================================================================
