--------------------------- MODULE PointStoreSpec ---------------------------
(***************************************************************************)
(* The slot store as a state machine: any sequence of acquire() and        *)
(* release() calls, under an arbitrary client that keeps release()'s       *)
(* documented contract and frees live slots only.                          *)
(***************************************************************************)
EXTENDS PointStore

VARIABLE store

Init == store = NewStore

Acquire(p) == store' = Acquired(store, p)

Release(i) ==
  /\ is_live(store, i)
  /\ store' = Released(store, i)

Next ==
  \/ \E p \in Point : Acquire(p)
  \/ \E i \in Slot : Release(i)

Spec == Init /\ [][Next]_store

\* An acquire() that has to evict.
AcquireFull ==
  /\ store.live = Capacity
  /\ \E p \in Point : Acquire(p)

\* A stream that does not stop: as long as the store is full again and again, it
\* meets another point again and again.  Releases are the client's own choice.
FairSpec == Spec /\ SF_store(AcquireFull)

-----------------------------------------------------------------------------
(* Properties.                                                             *)

\* Every field of the store has the type its declaration gives it.
TypeOK == store \in Store

\* The circular buffer stays at once a queue of the live slots and a list of the
\* free ones, and the live bits and the back-pointers that release() follows
\* unchecked agree with it: acquire() never hands out a slot a live point still
\* occupies, whatever order slots were evicted and released in.
RingInv == Ring(store)

\* A slot that changes owner is re-stamped: whenever a slot comes to hold a
\* live point it did not hold before, freed or evicted in between, its stamp is
\* not the one its previous owner's bucket entry carries.
ReuseRestamps ==
  [][\A i \in Slot :
       /\ store'.live_bits[i]
       /\ ~ store.live_bits[i] \/ store'.points[i] # store.points[i]
       => store'.generations[i] # store.generations[i]]_store

\* How many live slots are to be evicted before slot i.
Ahead(s, i) == (s.buf_pos[i] + Capacity - s.buf_head) % Capacity

\* No call sets a point that stays back in the order of eviction: an acquire()
\* moves the others up, and the swap of release() only ever moves a slot forward.
NeverSetBack ==
  [][\A i \in Slot :
       /\ store.live_bits[i] /\ store'.live_bits[i]
       /\ store'.generations[i] = store.generations[i]
       => Ahead(store', i) <= Ahead(store, i)]_store

\* Slot i holds the point it was stamped g for.
Holds(i, g) == store.live_bits[i] /\ store.generations[i] = g

\* Points "age out" (README.md:4): when a stream keeps filling the store, every
\* point leaves it in the end, whatever is released meanwhile and although
\* release() reorders the queue.
AgesOut ==
  []<>(store.live = Capacity)
    => \A i \in Slot, g \in 0 .. (GenMod - 1) : Holds(i, g) ~> ~ Holds(i, g)

=============================================================================
