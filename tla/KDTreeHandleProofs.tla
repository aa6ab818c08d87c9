------------------------- MODULE KDTreeHandleProofs -------------------------
(***************************************************************************)
(* Proofs about KDTree objects, for any number of objects and addresses:   *)
(* every implementation has one owner, and objects behave as values.       *)
(***************************************************************************)
EXTENDS KDTreeHandle, TLAPS

TypeOK ==
  /\ impl_ \in [Handle -> Address \cup {Null, Absent}]
  /\ heap \in [Address -> Implementation \cup {Free}]

\* OneOwner, with the types it needs to be inductive.
Owned == TypeOK /\ OneOwner

-----------------------------------------------------------------------------
(* The checks of the constructor.                                          *)

\* The constructor, comparing floats of which any may be NaN or a zero of either
\* sign, refuses exactly the configurations with a field out of range.
LEMMA RejectedIffOutOfRange ==
  ASSUME NEW cfg \in Config
  PROVE  Rejected(cfg) <=> ~ InRange(cfg)
<1>1. /\ cfg.capacity \in Nat /\ cfg.leaf_bucket_size \in Nat
      /\ cfg.resolution \in Float /\ cfg.alpha \in Float /\ cfg.tombstone_threshold \in Float
  BY ConfigAssumption
<1>2. ASSUME NEW x \in Float
      PROVE  /\ x.tenths \in Int
             /\ x.kind # "number" => x.tenths = 0
             /\ x # NaN <=> x.kind # "nan"
  <2>1. /\ x \in [kind : {"number", "negative zero", "nan"}, tenths : Int]
        /\ x.kind # "number" => x.tenths = 0
    BY DEF Float
  <2>2. x = [kind |-> x.kind, tenths |-> x.tenths] /\ x.tenths \in Int
    BY <2>1
  <2>3. x.kind = "nan" => x = NaN
    BY <2>1, <2>2 DEF NaN
  <2>4. x = NaN => x.kind = "nan"
    BY DEF NaN
  <2> QED
    BY <2>1, <2>2, <2>3, <2>4
<1>3. ASSUME NEW x \in Float, NEW t \in Int
      PROVE  /\ Number(t) \prec x <=> (x.kind # "nan" /\ t < x.tenths)
             /\ x \prec Number(t) <=> (x.kind # "nan" /\ x.tenths < t)
             /\ Number(t) \preceq x <=> (x.kind # "nan" /\ t <= x.tenths)
             /\ x \preceq Number(t) <=> (x.kind # "nan" /\ x.tenths <= t)
  <2>1. Number(t).tenths = t /\ Number(t) # NaN
    BY DEF Number, NaN
  <2> QED
    BY <1>2, <2>1 DEF \prec, \preceq, Ordered
<1>4. (Number(0) \prec cfg.resolution)
        <=> (cfg.resolution.kind = "number" /\ cfg.resolution.tenths > 0)
  BY <1>1, <1>2, <1>3
<1>5. (Number(5) \prec cfg.alpha /\ cfg.alpha \prec Number(10))
        <=> (cfg.alpha.kind = "number" /\ cfg.alpha.tenths \in 6 .. 9)
  BY <1>1, <1>2, <1>3
<1>6. (Number(0) \preceq cfg.tombstone_threshold /\ cfg.tombstone_threshold \preceq Number(10))
        <=> (cfg.tombstone_threshold.kind # "nan" /\ cfg.tombstone_threshold.tenths \in 0 .. 10)
  BY <1>1, <1>2, <1>3
<1> QED
  BY <1>1, <1>4, <1>5, <1>6 DEF Rejected, InRange

-----------------------------------------------------------------------------
(* Ownership, operation by operation.                                      *)

LEMMA ConstructOwned ==
  ASSUME Owned, NEW h \in Handle, NEW cfg \in Config, Construct(h, cfg)
  PROVE  Owned'
<1>1. PICK a \in Address :
        /\ heap[a] = Free
        /\ \E i \in Fresh(cfg) : heap' = [heap EXCEPT ![a] = i]
        /\ impl_' = [impl_ EXCEPT ![h] = a]
  BY DEF Construct
<1>2. PICK i \in Fresh(cfg) : heap' = [heap EXCEPT ![a] = i]
  BY <1>1
<1>3. i \in Implementation
  BY DEF Fresh, Implementation
<1>4. TypeOK'
  BY <1>1, <1>2, <1>3 DEF Owned, TypeOK
<1>5. \A g \in Handle : impl_[g] # a
  BY <1>1 DEF Owned, OneOwner
<1>6. i # Free
  BY <1>3, MarkAssumption
<1>7. OneOwner'
  <2>1. /\ impl_'[h] = a /\ \A g \in Handle \ {h} : impl_'[g] = impl_[g]
        /\ heap'[a] = i /\ \A b \in Address \ {a} : heap'[b] = heap[b]
    BY <1>1, <1>2 DEF Owned, TypeOK
  <2>2. impl_[h] = Absent /\ Absent \notin Address
    BY MarkAssumption DEF Construct
  <2>3. \A f, g \in Handle : impl_'[f] = impl_'[g] /\ impl_'[f] \in Address => f = g
    BY <1>5, <2>1 DEF Owned, OneOwner
  <2>4. \A b \in Address : heap'[b] # Free <=> \E g \in Handle : impl_'[g] = b
    BY <1>5, <1>6, <2>1, <2>2 DEF Owned, OneOwner
  <2> QED
    BY <2>3, <2>4 DEF OneOwner
<1> QED
  BY <1>4, <1>7 DEF Owned

LEMMA MoveConstructOwned ==
  ASSUME Owned, NEW h \in Handle, NEW g \in Handle, MoveConstruct(h, g)
  PROVE  Owned'
<1>1. /\ impl_[h] = Absent /\ impl_[g] # Absent /\ h # g
      /\ impl_' = [impl_ EXCEPT ![h] = impl_[g], ![g] = Null]
      /\ heap' = heap
  BY DEF MoveConstruct
<1>2. TypeOK'
  BY <1>1 DEF Owned, TypeOK
<1>3. /\ impl_'[h] = impl_[g] /\ impl_'[g] = Null
      /\ \A f \in Handle \ {h, g} : impl_'[f] = impl_[f]
  BY <1>1 DEF Owned, TypeOK
<1>4. OneOwner'
  BY <1>1, <1>3, MarkAssumption DEF Owned, TypeOK, OneOwner
<1> QED
  BY <1>2, <1>4 DEF Owned

LEMMA MoveAssignOwned ==
  ASSUME Owned, NEW h \in Handle, NEW g \in Handle, MoveAssign(h, g)
  PROVE  Owned'
<1>1. impl_[h] # Absent /\ impl_[g] # Absent
  BY DEF MoveAssign
<1>2. CASE h = g
  <2>1. impl_' = impl_ /\ heap' = heap
    BY <1>2 DEF MoveAssign, Freed, Owned, TypeOK
  <2> QED
    BY <2>1 DEF Owned, TypeOK, OneOwner
<1>3. CASE h # g
  <2>1. /\ impl_'[h] = impl_[g] /\ impl_'[g] = Null
        /\ \A f \in Handle \ {h, g} : impl_'[f] = impl_[f]
        /\ heap' = Freed(heap, impl_[h])
    BY <1>3 DEF MoveAssign, Owned, TypeOK
  <2>2. TypeOK'
    BY <1>1 DEF MoveAssign, Freed, Owned, TypeOK
  <2>3. OneOwner'
    <3>1. CASE impl_[h] = Null
      BY <1>3, <2>1, <3>1, MarkAssumption DEF Freed, Owned, TypeOK, OneOwner
    <3>2. CASE impl_[h] # Null
      <4>1. /\ impl_[h] \in Address
            /\ heap' = [heap EXCEPT ![impl_[h]] = Free]
        BY <1>1, <2>1, <3>2 DEF Freed, Owned, TypeOK
      <4>2. \A f \in Handle : f # h => impl_[f] # impl_[h]
        BY <4>1 DEF Owned, OneOwner
      <4> QED
        BY <1>3, <2>1, <4>1, <4>2, MarkAssumption DEF Owned, TypeOK, OneOwner
    <3> QED
      BY <3>1, <3>2
  <2> QED
    BY <2>2, <2>3 DEF Owned
<1> QED
  BY <1>2, <1>3

LEMMA DestroyOwned ==
  ASSUME Owned, NEW h \in Handle, Destroy(h)
  PROVE  Owned'
<1>1. /\ impl_[h] # Absent
      /\ heap' = Freed(heap, impl_[h])
      /\ impl_' = [impl_ EXCEPT ![h] = Absent]
  BY DEF Destroy
<1>2. TypeOK'
  BY <1>1 DEF Freed, Owned, TypeOK
<1>3. impl_'[h] = Absent /\ \A f \in Handle \ {h} : impl_'[f] = impl_[f]
  BY <1>1 DEF Owned, TypeOK
<1>4. CASE impl_[h] = Null
  BY <1>1, <1>2, <1>3, <1>4, MarkAssumption DEF Freed, Owned, TypeOK, OneOwner
<1>5. CASE impl_[h] # Null
  <2>1. /\ impl_[h] \in Address
        /\ heap' = [heap EXCEPT ![impl_[h]] = Free]
    BY <1>1, <1>5 DEF Freed, Owned, TypeOK
  <2>2. \A f \in Handle : f # h => impl_[f] # impl_[h]
    BY <2>1 DEF Owned, OneOwner
  <2>3. OneOwner'
    BY <1>3, <2>1, <2>2, MarkAssumption DEF Owned, TypeOK, OneOwner
  <2> QED
    BY <1>2, <2>3 DEF Owned
<1> QED
  BY <1>4, <1>5

\* A call leaves an implementation where it found one.
LEMMA CallFacts ==
  ASSUME Owned, NEW h \in Handle, Call(h)
  PROVE  /\ impl_[h] \in Address /\ impl_' = impl_
         /\ heap[impl_[h]] \in Implementation
         /\ \E i \in Later(heap[impl_[h]]) :
              i \in Implementation /\ heap' = [heap EXCEPT ![impl_[h]] = i]
<1>1. impl_[h] \in Address /\ impl_' = impl_
  BY DEF Call
<1>2. heap[impl_[h]] \in Implementation
  BY <1>1 DEF Owned, TypeOK, OneOwner
<1>3. PICK i \in Later(heap[impl_[h]]) : heap' = [heap EXCEPT ![impl_[h]] = i]
  BY DEF Call
<1>4. i \in Implementation
  BY <1>2 DEF Later, Implementation
<1> QED
  BY <1>1, <1>2, <1>3, <1>4

LEMMA CallOwned ==
  ASSUME Owned, NEW h \in Handle, Call(h)
  PROVE  Owned'
<1>1. PICK i \in Implementation : heap' = [heap EXCEPT ![impl_[h]] = i]
  BY CallFacts
<1>2. i # Free /\ impl_[h] \in Address /\ impl_' = impl_
  BY CallFacts, MarkAssumption
<1>3. TypeOK'
  BY <1>1, <1>2 DEF Owned, TypeOK
<1>4. OneOwner'
  BY <1>1, <1>2 DEF Owned, TypeOK, OneOwner
<1> QED
  BY <1>3, <1>4 DEF Owned

-----------------------------------------------------------------------------

LEMMA OwnedInvariant == Spec => []Owned
<1>1. Init => Owned
  BY MarkAssumption DEF Init, Owned, TypeOK, OneOwner
<1>2. Owned /\ [Next]_vars => Owned'
  <2> SUFFICES ASSUME Owned, [Next]_vars
               PROVE  Owned'
    OBVIOUS
  <2>1. CASE UNCHANGED vars
    BY <2>1 DEF vars, Owned, TypeOK, OneOwner
  <2>2. CASE Next
    BY <2>2, ConstructOwned, MoveConstructOwned, MoveAssignOwned, DestroyOwned, CallOwned DEF Next
  <2> QED
    BY <2>1, <2>2
<1> QED
  BY <1>1, <1>2, PTL DEF Spec

\* No implementation of a tree is leaked, shared or freed under its owner, however
\* many objects are constructed, moved into each other and destroyed (kd_tree.cpp).
THEOREM OwnerCorrect == Spec => []OneOwner
<1>1. Owned => OneOwner
  BY DEF Owned
<1> QED
  BY <1>1, OwnedInvariant, PTL

-----------------------------------------------------------------------------
(* Objects as values.  Each step changes what the object concerned holds    *)
(* and leaves what all others hold alone.                                   *)

\* An object that owns something holds an implementation.
LEMMA HeldFacts ==
  ASSUME Owned, NEW h \in Handle
  PROVE  /\ impl_[h] \in Address => Held[h] = heap[impl_[h]] /\ Held[h] \in Implementation
         /\ impl_[h] \notin Address => Held[h] = impl_[h]
         /\ Held[h] = Absent <=> impl_[h] = Absent
<1>1. impl_[h] \in Address => heap[impl_[h]] \in Implementation
  BY DEF Owned, TypeOK, OneOwner
<1> QED
  BY <1>1, MarkAssumption DEF Held, Owned, TypeOK

LEMMA ConstructValue ==
  ASSUME Owned, NEW h \in Handle, NEW cfg \in Config, Construct(h, cfg)
  PROVE  Values!Construct(h, cfg)
<1>1. /\ impl_[h] = Absent /\ ~ Rejected(cfg)
      /\ \E a \in Address : heap[a] = Free /\ impl_' = [impl_ EXCEPT ![h] = a]
           /\ \E i \in Fresh(cfg) : heap' = [heap EXCEPT ![a] = i]
  BY DEF Construct
<1>2. PICK a \in Address, i \in Fresh(cfg) :
        /\ heap[a] = Free
        /\ impl_' = [impl_ EXCEPT ![h] = a]
        /\ heap' = [heap EXCEPT ![a] = i]
  BY <1>1
<1>3. \A g \in Handle : impl_[g] # a
  BY <1>2 DEF Owned, OneOwner
<1>4. Held' = [Held EXCEPT ![h] = i]
  BY <1>2, <1>3 DEF Held, Owned, TypeOK
<1>5. Held[h] = Absent
  BY <1>1, HeldFacts
<1>6. InRange(cfg)
  BY <1>1, RejectedIffOutOfRange
<1> QED
  BY <1>4, <1>5, <1>6 DEF Values!Construct

LEMMA MoveConstructValue ==
  ASSUME Owned, NEW h \in Handle, NEW g \in Handle, MoveConstruct(h, g)
  PROVE  Values!MoveConstruct(h, g)
<1>1. /\ impl_[h] = Absent /\ impl_[g] # Absent /\ h # g
      /\ impl_' = [impl_ EXCEPT ![h] = impl_[g], ![g] = Null]
      /\ heap' = heap
  BY DEF MoveConstruct
<1>2. Held' = [Held EXCEPT ![h] = Held[g], ![g] = Null]
  BY <1>1, MarkAssumption DEF Held, Owned, TypeOK
<1>3. Held[h] = Absent /\ Held[g] # Absent
  BY <1>1, HeldFacts
<1> QED
  BY <1>2, <1>3 DEF Values!MoveConstruct

LEMMA MoveAssignValue ==
  ASSUME Owned, NEW h \in Handle, NEW g \in Handle, MoveAssign(h, g)
  PROVE  Values!MoveAssign(h, g)
<1>1. impl_[h] # Absent /\ impl_[g] # Absent
  BY DEF MoveAssign
<1>2. Held[h] # Absent /\ Held[g] # Absent
  BY <1>1, HeldFacts
<1>3. CASE h = g
  <2>1. impl_' = impl_ /\ heap' = heap
    BY <1>3 DEF MoveAssign, Freed, Owned, TypeOK
  <2>2. Held' = Held
    BY <2>1 DEF Held
  <2> QED
    BY <1>2, <1>3, <2>2 DEF Values!MoveAssign
<1>4. CASE h # g
  <2>1. /\ impl_'[h] = impl_[g] /\ impl_'[g] = Null
        /\ \A f \in Handle \ {h, g} : impl_'[f] = impl_[f]
        /\ heap' = Freed(heap, impl_[h])
    BY <1>4 DEF MoveAssign, Owned, TypeOK
  <2>2. ASSUME NEW f \in Handle, impl_[f] \in Address, f # h
        PROVE  heap'[impl_[f]] = heap[impl_[f]]
    BY <2>1, <2>2 DEF Freed, Owned, TypeOK, OneOwner
  <2>3. Held'[h] = Held[g] /\ Held'[g] = Null
    BY <1>4, <2>1, <2>2, MarkAssumption DEF Held
  <2>4. \A f \in Handle \ {h, g} : Held'[f] = Held[f]
    BY <2>1, <2>2 DEF Held
  <2>5. Held' = [Held EXCEPT ![h] = Held[g], ![g] = Null]
    BY <1>4, <2>3, <2>4 DEF Held
  <2> QED
    BY <1>2, <1>4, <2>5 DEF Values!MoveAssign
<1> QED
  BY <1>3, <1>4

LEMMA DestroyValue ==
  ASSUME Owned, NEW h \in Handle, Destroy(h)
  PROVE  Values!Destroy(h)
<1>1. /\ impl_[h] # Absent
      /\ heap' = Freed(heap, impl_[h])
      /\ impl_' = [impl_ EXCEPT ![h] = Absent]
  BY DEF Destroy
<1>2. ASSUME NEW f \in Handle, impl_[f] \in Address, f # h
      PROVE  heap'[impl_[f]] = heap[impl_[f]]
  BY <1>1, <1>2 DEF Freed, Owned, TypeOK, OneOwner
<1>3. Held' = [Held EXCEPT ![h] = Absent]
  BY <1>1, <1>2, MarkAssumption DEF Held, Owned, TypeOK
<1>4. Held[h] # Absent
  BY <1>1, HeldFacts
<1> QED
  BY <1>3, <1>4 DEF Values!Destroy

LEMMA CallValue ==
  ASSUME Owned, NEW h \in Handle, Call(h)
  PROVE  Values!Call(h)
<1>1. Held[h] = heap[impl_[h]] /\ Held[h] \in Implementation
  BY CallFacts, HeldFacts
<1>2. PICK i \in Later(Held[h]) : heap' = [heap EXCEPT ![impl_[h]] = i]
  BY <1>1, CallFacts
<1>3. impl_' = impl_ /\ impl_[h] \in Address
  BY CallFacts
<1>4. \A f \in Handle : f # h => impl_[f] # impl_[h]
  BY <1>3 DEF Owned, OneOwner
<1>5. Held' = [Held EXCEPT ![h] = i]
  BY <1>2, <1>3, <1>4 DEF Held, Owned, TypeOK
<1> QED
  BY <1>1, <1>2, <1>5 DEF Values!Call

\* KDTree objects behave as values: each holds a tree of its own, made of a legal
\* configuration, and no operation on one is felt through another (kd_tree.hpp:28).
THEOREM ValuesCorrect == Spec => ImplementsValues
<1>1. Init => Values!Init
  BY MarkAssumption DEF Init, Values!Init, Held
<1>2. Owned /\ [Next]_vars => [Values!Next]_Held
  <2> SUFFICES ASSUME Owned, [Next]_vars
               PROVE  [Values!Next]_Held
    OBVIOUS
  <2>1. CASE UNCHANGED vars
    BY <2>1 DEF vars, Held
  <2>2. ASSUME NEW h \in Handle, NEW cfg \in Config, Construct(h, cfg)
        PROVE  Values!Next
    BY <2>2, ConstructValue DEF Values!Next
  <2>3. ASSUME NEW h \in Handle, NEW g \in Handle, MoveConstruct(h, g) \/ MoveAssign(h, g)
        PROVE  Values!Next
    BY <2>3, MoveConstructValue, MoveAssignValue DEF Values!Next
  <2>4. ASSUME NEW h \in Handle, Destroy(h) \/ Call(h)
        PROVE  Values!Next
    BY <2>4, DestroyValue, CallValue DEF Values!Next
  <2> QED
    BY <2>1, <2>2, <2>3, <2>4 DEF Next
<1> QED
  BY <1>1, <1>2, OwnedInvariant, PTL DEF Spec, ImplementsValues, Values!Spec

=============================================================================
