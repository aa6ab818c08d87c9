---------------------------- MODULE MCPointStore ----------------------------
(***************************************************************************)
(* TLC instance of the slot store, and the mapping under which it          *)
(* implements the eviction queue.                                          *)
(***************************************************************************)
EXTENDS PointStoreSpec

Abstract ==
  INSTANCE EvictionQueue WITH
    queue <- Visited(store),
    held  <- [i \in LiveSlots(store) |-> store.points[i]]

\* Every acquire() and release() is a step of the eviction queue: the slot
\* acquire() returns is free and joins at the back, the victim of a full store
\* is the front, release() forgets exactly the released slot, and no other live
\* slot changes its point.
ImplementsQueue == Abstract!Spec

\* The comment on buffer_ ("FIFO buffer of occupied indices in arrival order",
\* point_store.hpp:69): releases leave the arrival order of the others alone.
ImplementsFifo == Abstract!FifoSpec

=============================================================================
