--------------------------- MODULE BucketEntries ----------------------------
(***************************************************************************)
(* What a bucket of a leaf holds (leaf_bucket.hpp): entries that name a    *)
(* slot of the store and the stamp it carried when the entry was written.  *)
(***************************************************************************)
EXTENDS PointStore, Geometry

ASSUME PlaneAssumption == Point \subseteq Plane

\* The entry written for slot i: the slot and the stamp it carries now.
Entry(s, i) == [index |-> i, gen |-> s.generations[i]]

\* The test every scan of a bucket makes before it uses an entry.
Valid(s, e) == s.generations[e.index] = e.gen /\ is_live(s, e.index)

\* The live slots a bucket still leads to.
ValidSlots(s, bucket) == {e.index : e \in {f \in bucket : Valid(s, f)}}

=============================================================================
