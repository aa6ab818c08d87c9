--------------------------- MODULE StampedEntries ---------------------------
(***************************************************************************)
(* The discipline that lets the tree forget points without looking for     *)
(* their bucket entries.  A slot carries a stamp; a bucket entry is a slot *)
(* and the stamp the slot had when the entry was written.  A point leaves  *)
(* when its slot is freed or reused, and its entry stays behind until a    *)
(* rebuild happens to drop it; every scan tells the leftovers from the     *)
(* contents by the entry's stamp and the slot's live bit.                  *)
(*                                                                         *)
(* The tree and the order of the slots are left out: which leftovers a     *)
(* rebuild drops, and when, is arbitrary here.                             *)
(***************************************************************************)
EXTENDS PointStore

VARIABLES
  stamp,   \* generations_
  live,    \* the slots whose live bit is set
  entries  \* the bucket entries the tree can reach

vars == <<stamp, live, entries>>

Entry == [index : Slot, gen : 0 .. (GenMod - 1)]

Mark(i, g) == [index |-> i, gen |-> g]

\* The test a scan makes before it uses an entry.
Valid(e) == e.gen = stamp[e.index] /\ e.index \in live

\* Fault: a rebuild that keeps no entry.
EveryEntry == entries

Leftovers == {e \in entries : ~ Valid(e)}

Init ==
  /\ stamp = [i \in Slot |-> 0]
  /\ live = {}
  /\ entries = {}

\* acquire() stamps the slot `steps` times, short of a wrap, and the tree files one entry for it;
\* the leaf it goes to may be split, which drops some leftovers.
File(i, steps) ==
  /\ stamp[i] + steps < GenMod
  /\ stamp' = [stamp EXCEPT ![i] = @ + steps]
  /\ live' = live \cup {i}
  /\ \E dropped \in SUBSET {e \in entries : ~ Valid(e) \/ e.index = i} :
       entries' = (entries \ dropped) \cup {Mark(i, stamp[i] + steps)}

\* Fault: a freed slot is handed out again with the stamp it had.
FillUnstamped(i) == i \notin live /\ File(i, 0)

\* acquire() with a free slot.
Fill(i) == i \notin live /\ File(i, 1)

\* acquire() on a full store: the slot is evicted and occupied in one call.
Replace(i) == i \in live /\ File(i, 2)

\* remove() and the spatial deletes: slots are freed, nothing else changes.
Free(gone) ==
  /\ live' = live \ gone
  /\ UNCHANGED <<stamp, entries>>

\* A rebuild, partial or from scratch.
Drop(dropped) ==
  /\ entries' = entries \ dropped
  /\ UNCHANGED <<stamp, live>>

Next ==
  \/ \E i \in Slot : Fill(i) \/ Replace(i)
  \/ \E gone \in SUBSET live : Free(gone)
  \/ \E dropped \in SUBSET Leftovers : Drop(dropped)

Spec == Init /\ [][Next]_vars

-----------------------------------------------------------------------------
(* Properties.                                                             *)

TypeOK ==
  /\ stamp \in [Slot -> 0 .. (GenMod - 1)]
  /\ live \subseteq Slot
  /\ entries \subseteq Entry

\* No live point is lost: every live slot still has the entry that leads to it.
LiveFindable == \A i \in live : Mark(i, stamp[i]) \in entries

\* No entry was written with a stamp its slot has not had yet.
NoFutureStamp == \A e \in entries : e.gen <= stamp[e.index]

\* The strengthening under which both are inductive.
Discipline == TypeOK /\ LiveFindable /\ NoFutureStamp

\* A leftover never comes back to life: an entry that fails the test fails it for
\* as long as it exists, also when its slot is handed out again.
StaleStaysStale ==
  [][\A e \in entries \cap entries' : ~ Valid(e) => ~ Valid(e)']_vars

=============================================================================
