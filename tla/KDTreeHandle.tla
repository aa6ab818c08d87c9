---------------------------- MODULE KDTreeHandle ----------------------------
(***************************************************************************)
(* KDTree objects (kd_tree.hpp, kd_tree.cpp) and the implementations they  *)
(* own through a unique_ptr: construction with a validated configuration,  *)
(* moves, destruction, and the calls that are handed on.  What a call does *)
(* to the implementation is KDTree's subject; here it may do anything to   *)
(* the points, within the capacity.                                        *)
(*                                                                         *)
(* A call on an object that was moved from follows a null pointer; clients *)
(* that make one are left out.                                             *)
(***************************************************************************)
EXTENDS Floats, FiniteSets

CONSTANTS
  Handle,       \* the objects a client may hold at a time
  Address,      \* where implementations may be allocated
  Point,
  Config,       \* the configurations a client may pass
  Null, Absent, \* the pointer of an object moved from; of no object
  Free          \* what is at an address where nothing is allocated

\* Config of kd_tree.hpp, whatever values its fields have.
ASSUME ConfigAssumption ==
  Config \subseteq [ capacity : Nat, resolution : Float, leaf_bucket_size : Nat,
                     alpha : Float, tombstone_threshold : Float ]

VARIABLES
  impl_,  \* each object's pointer
  heap    \* the implementation at each address

vars == <<impl_, heap>>

Init ==
  /\ impl_ = [h \in Handle |-> Absent]
  /\ heap = [a \in Address |-> Free]

-----------------------------------------------------------------------------
(* Construction.                                                           *)

\* Fault: the conditions are tested the other way round.
RejectedByComparison(cfg) ==
  \/ cfg.capacity = 0
  \/ cfg.resolution \preceq Number(0)
  \/ cfg.leaf_bucket_size = 0
  \/ cfg.alpha \preceq Number(5) \/ Number(10) \preceq cfg.alpha
  \/ cfg.tombstone_threshold \prec Number(0) \/ Number(10) \prec cfg.tombstone_threshold

\* What makes the constructor of KDTreeImpl, or of PointStore within it, throw
\* invalid_argument.
Rejected(cfg) ==
  \/ cfg.capacity = 0
  \/ ~ (Number(0) \prec cfg.resolution)
  \/ cfg.leaf_bucket_size = 0
  \/ ~ (Number(5) \prec cfg.alpha /\ cfg.alpha \prec Number(10))
  \/ ~ (Number(0) \preceq cfg.tombstone_threshold /\ cfg.tombstone_threshold \preceq Number(10))

Implementation == [cfg : Config, points : SUBSET Point]

\* What marks the absence of something is not mistaken for it.
ASSUME MarkAssumption ==
  /\ Null # Absent
  /\ {Null, Absent} \cap Address = {}
  /\ {Null, Absent, Free} \cap Implementation = {}

Fresh(cfg) == {[cfg |-> cfg, points |-> {}]}

\* A constructor that throws leaves neither an object nor an allocation.
Construct(h, cfg) ==
  /\ impl_[h] = Absent
  /\ ~ Rejected(cfg)
  /\ \E a \in Address :
       /\ heap[a] = Free
       /\ \E i \in Fresh(cfg) : heap' = [heap EXCEPT ![a] = i]
       /\ impl_' = [impl_ EXCEPT ![h] = a]

-----------------------------------------------------------------------------
(* Moves and destruction.                                                  *)

Freed(memory, a) == IF a = Null THEN memory ELSE [memory EXCEPT ![a] = Free]

\* Fault: the source keeps its pointer.
MoveConstructShares(h, g) ==
  /\ impl_[h] = Absent
  /\ impl_[g] # Absent
  /\ impl_' = [impl_ EXCEPT ![h] = impl_[g]]
  /\ UNCHANGED heap

MoveConstruct(h, g) ==
  /\ impl_[h] = Absent
  /\ impl_[g] # Absent
  /\ impl_' = [impl_ EXCEPT ![h] = impl_[g], ![g] = Null]
  /\ UNCHANGED heap

\* Fault: the target's implementation is not freed.
MoveAssignLeaks(h, g) ==
  /\ Absent \notin {impl_[h], impl_[g]}
  /\ impl_' = [[impl_ EXCEPT ![g] = Null] EXCEPT ![h] = impl_[g]]
  /\ UNCHANGED heap

\* unique_ptr releases the source before it resets the target.
MoveAssign(h, g) ==
  /\ Absent \notin {impl_[h], impl_[g]}
  /\ LET released == [impl_ EXCEPT ![g] = Null]
     IN  /\ impl_' = [released EXCEPT ![h] = impl_[g]]
         /\ heap' = Freed(heap, released[h])

Destroy(h) ==
  /\ impl_[h] # Absent
  /\ heap' = Freed(heap, impl_[h])
  /\ impl_' = [impl_ EXCEPT ![h] = Absent]

-----------------------------------------------------------------------------
(* insert(), remove(), box_delete(), radius_crop() and rebuild_all() go to *)
(* the object's implementation; so do the searches, which change nothing.  *)

Later(i) == {[i EXCEPT !.points = s] : s \in {t \in SUBSET Point : Cardinality(t) <= i.cfg.capacity}}

Call(h) ==
  /\ impl_[h] \in Address
  /\ \E i \in Later(heap[impl_[h]]) : heap' = [heap EXCEPT ![impl_[h]] = i]
  /\ UNCHANGED impl_

-----------------------------------------------------------------------------

Next ==
  \/ \E h \in Handle, cfg \in Config : Construct(h, cfg)
  \/ \E h, g \in Handle : MoveConstruct(h, g)
  \/ \E h, g \in Handle : MoveAssign(h, g)
  \/ \E h \in Handle : Destroy(h)
  \/ \E h \in Handle : Call(h)

Spec == Init /\ [][Next]_vars

-----------------------------------------------------------------------------
(* Properties.                                                             *)

\* The preconditions of kd_tree.hpp:39-46 as ranges a float may lie in: NaN lies in
\* none.
InRange(cfg) ==
  /\ cfg.capacity > 0 /\ cfg.leaf_bucket_size > 0
  /\ cfg.resolution.kind = "number" /\ cfg.resolution.tenths > 0
  /\ cfg.alpha.kind = "number" /\ cfg.alpha.tenths \in 6 .. 9
  /\ cfg.tombstone_threshold.kind # "nan" /\ cfg.tombstone_threshold.tenths \in 0 .. 10

\* No implementation is lost and none is freed while an object points to it: through
\* any chain of moves, self-moves among them, each has exactly one owner.
OneOwner ==
  /\ \A h, g \in Handle : impl_[h] = impl_[g] /\ impl_[h] \in Address => h = g
  /\ \A a \in Address : heap[a] # Free <=> \E h \in Handle : impl_[h] = a

\* The implementation an object points to, or the mark in its stead.
Held == [h \in Handle |-> IF impl_[h] \in Address THEN heap[impl_[h]] ELSE impl_[h]]

Values == INSTANCE TreeValues WITH Tree <- Implementation, Moved <- Null, value <- Held

\* Objects behave as values: "Distinct instances share no state" (kd_tree.hpp:28), and
\* none is ever made of a configuration that is out of range in any field.
ImplementsValues == Values!Spec

=============================================================================
