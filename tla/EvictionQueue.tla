--------------------------- MODULE EvictionQueue ----------------------------
(***************************************************************************)
(* What the slot store promises its clients: a queue of at most Capacity   *)
(* slot handles, each standing for the point it was acquired for as long   *)
(* as it is queued.  A new handle joins at the back; when the queue is     *)
(* full the handle at the front gives way to it.                           *)
(*                                                                         *)
(* Vacate is what release() of the code does to the order: the newest      *)
(* handle takes the place of the one that leaves.  VacateInOrder is what a *)
(* first-in-first-out queue would do: the others keep their arrival order. *)
(***************************************************************************)
EXTENDS Integers, Sequences, SequencesExt

CONSTANTS Capacity, Point

VARIABLES
  queue,  \* the live handles, the next one to be evicted first
  held    \* the point each live handle stands for

vars == <<queue, held>>

Handle == 0 .. (Capacity - 1)

Init == queue = <<>> /\ held = <<>>

Arrive(p) ==
  LET stay == IF Len(queue) = Capacity THEN Tail(queue) ELSE queue
  IN  \E h \in Handle \ ToSet(stay) :
        /\ queue' = Append(stay, h)
        /\ held' = [j \in ToSet(stay) \cup {h} |-> IF j = h THEN p ELSE held[j]]

Forget(h) == held' = [j \in DOMAIN held \ {h} |-> held[j]]

Vacate(k) ==
  /\ queue' = [j \in 1 .. Len(queue) - 1 |->
                 IF j = k THEN Last(queue) ELSE queue[j]]
  /\ Forget(queue[k])

VacateInOrder(k) ==
  /\ queue' = RemoveAt(queue, k)
  /\ Forget(queue[k])

Next ==
  \/ \E p \in Point : Arrive(p)
  \/ \E k \in 1 .. Len(queue) : Vacate(k)

NextFifo ==
  \/ \E p \in Point : Arrive(p)
  \/ \E k \in 1 .. Len(queue) : VacateInOrder(k)

\* The store as it behaves.
Spec == Init /\ [][Next]_vars

\* The store as its field comment describes it.
FifoSpec == Init /\ [][NextFifo]_vars

=============================================================================
