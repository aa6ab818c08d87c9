------------------------ MODULE StampedEntriesProofs ------------------------
(***************************************************************************)
(* Proofs about the stamps, for every set of slots and every stamp width.  *)
(***************************************************************************)
EXTENDS StampedEntries, TLAPS

\* What filing an entry does, with the types it needs.
LEMMA FileFacts ==
  ASSUME Discipline, NEW i \in Slot, NEW steps \in {1, 2}, File(i, steps)
  PROVE  /\ Discipline'
         /\ \A e \in entries : stamp'[e.index] = stamp[e.index] \/ e.index = i
         /\ \A e \in entries : e.index = i => e.gen < stamp'[i]
<1>1. /\ stamp \in [Slot -> 0 .. (GenMod - 1)] /\ live \subseteq Slot /\ entries \subseteq Entry
      /\ stamp[i] + steps \in 0 .. (GenMod - 1)
      /\ stamp' = [stamp EXCEPT ![i] = stamp[i] + steps]
      /\ live' = live \cup {i}
  BY GenModAssumption DEF Discipline, TypeOK, File
<1>2. PICK dropped \in SUBSET {e \in entries : ~ Valid(e) \/ e.index = i} :
        entries' = (entries \ dropped) \cup {Mark(i, stamp[i] + steps)}
  BY DEF File
<1>3. Mark(i, stamp[i] + steps) \in Entry
  BY <1>1 DEF Mark, Entry
<1>4. TypeOK'
  BY <1>1, <1>2, <1>3 DEF TypeOK
<1>5. stamp'[i] = stamp[i] + steps /\ \A j \in Slot \ {i} : stamp'[j] = stamp[j]
  BY <1>1
<1>6. LiveFindable'
  <2> SUFFICES ASSUME NEW j \in live'
               PROVE  Mark(j, stamp'[j]) \in entries'
    BY DEF LiveFindable
  <2>1. CASE j = i
    BY <1>2, <1>5, <2>1
  <2>2. CASE j # i
    <3>1. j \in live /\ j \in Slot /\ stamp'[j] = stamp[j]
      BY <1>1, <1>5, <2>2
    <3>2. Mark(j, stamp[j]) \in entries
      BY <3>1 DEF Discipline, LiveFindable
    <3>3. Valid(Mark(j, stamp[j])) /\ Mark(j, stamp[j]).index = j
      BY <3>1 DEF Valid, Mark
    <3> QED
      BY <1>2, <2>2, <3>1, <3>2, <3>3
  <2> QED
    BY <2>1, <2>2
<1>7. NoFutureStamp'
  <2> SUFFICES ASSUME NEW e \in entries'
               PROVE  e.gen <= stamp'[e.index]
    BY DEF NoFutureStamp
  <2>1. CASE e \in entries
    <3>1. e.index \in Slot /\ e.gen \in 0 .. (GenMod - 1) /\ e.gen <= stamp[e.index]
      BY <1>1, <2>1 DEF Entry, Discipline, NoFutureStamp
    <3> QED
      BY <1>1, <1>5, <3>1
  <2>2. CASE e = Mark(i, stamp[i] + steps)
    BY <1>1, <1>5, <2>2 DEF Mark
  <2> QED
    BY <1>2, <2>1, <2>2
<1>8. \A e \in entries : stamp'[e.index] = stamp[e.index] \/ e.index = i
  BY <1>1, <1>5 DEF Entry
<1>9. \A e \in entries : e.index = i => e.gen < stamp'[i]
  <2> SUFFICES ASSUME NEW e \in entries, e.index = i
               PROVE  e.gen < stamp'[i]
    OBVIOUS
  <2>1. e.gen \in 0 .. (GenMod - 1) /\ e.gen <= stamp[i] /\ stamp[i] \in 0 .. (GenMod - 1)
    BY <1>1 DEF Entry, Discipline, NoFutureStamp
  <2> QED
    BY <1>5, <2>1
<1> QED
  BY <1>4, <1>6, <1>7, <1>8, <1>9 DEF Discipline

\* Freeing slots keeps the discipline.
LEMMA FreeKeeps ==
  ASSUME Discipline, NEW gone \in SUBSET live, Free(gone)
  PROVE  Discipline'
BY DEF Discipline, TypeOK, LiveFindable, NoFutureStamp, Free, Mark

\* Dropping leftovers keeps the discipline.
LEMMA DropKeeps ==
  ASSUME Discipline, NEW dropped \in SUBSET Leftovers, Drop(dropped)
  PROVE  Discipline'
<1>1. stamp' = stamp /\ live' = live /\ entries' = entries \ dropped
  BY DEF Drop
<1>2. TypeOK' /\ NoFutureStamp'
  BY <1>1 DEF Discipline, TypeOK, NoFutureStamp
<1>3. LiveFindable'
  <2> SUFFICES ASSUME NEW i \in live
               PROVE  Mark(i, stamp[i]) \in entries'
    BY <1>1 DEF LiveFindable
  <2>1. Valid(Mark(i, stamp[i]))
    BY DEF Valid, Mark
  <2> QED
    BY <1>1, <2>1 DEF Discipline, LiveFindable, Leftovers
<1> QED
  BY <1>2, <1>3 DEF Discipline

\* No live point is ever lost and no entry carries a stamp of the future.
THEOREM DisciplineCorrect == Spec => []Discipline
<1>1. Init => Discipline
  BY GenModAssumption
     DEF Init, Discipline, TypeOK, LiveFindable, NoFutureStamp
<1>2. Discipline /\ [Next]_vars => Discipline'
  <2> SUFFICES ASSUME Discipline, [Next]_vars
               PROVE  Discipline'
    OBVIOUS
  <2>1. ASSUME NEW i \in Slot, Fill(i) PROVE Discipline'
    BY <2>1, FileFacts DEF Fill
  <2>2. ASSUME NEW i \in Slot, Replace(i) PROVE Discipline'
    BY <2>2, FileFacts DEF Replace
  <2>3. ASSUME NEW gone \in SUBSET live, Free(gone) PROVE Discipline'
    BY <2>3, FreeKeeps
  <2>4. ASSUME NEW dropped \in SUBSET Leftovers, Drop(dropped) PROVE Discipline'
    BY <2>4, DropKeeps
  <2>5. CASE UNCHANGED vars
    BY <2>5 DEF vars, Discipline, TypeOK, LiveFindable, NoFutureStamp
  <2> QED
    BY <2>1, <2>2, <2>3, <2>4, <2>5 DEF Next
<1> QED
  BY <1>1, <1>2, PTL DEF Spec

\* Every live slot can be found from the tree, whatever was evicted, freed,
\* reused and rebuilt.
THEOREM LiveFindableCorrect == Spec => []LiveFindable
<1>1. Discipline => LiveFindable
  BY DEF Discipline
<1> QED
  BY <1>1, DisciplineCorrect, PTL

\* An entry whose point has left stays dead, although its slot is reused.
THEOREM StaleCorrect == Spec => StaleStaysStale
<1> DEFINE Dead == \A e \in entries \cap entries' : ~ Valid(e) => ~ Valid(e)'
<1>1. Discipline /\ [Next]_vars => [Dead]_vars
  <2> SUFFICES ASSUME Discipline, Next, NEW e \in entries \cap entries', ~ Valid(e)
               PROVE  ~ Valid(e)'
    OBVIOUS
  <2>1. ASSUME NEW i \in Slot, NEW steps \in {1, 2}, File(i, steps)
        PROVE  ~ Valid(e)'
    <3>1. CASE e.index = i
      <4>1. e.gen < stamp'[i]
        BY <2>1, <3>1, FileFacts
      <4>2. e.gen \in Nat /\ stamp'[i] \in Nat
        <5>1. Discipline'
          BY <2>1, FileFacts
        <5> QED
          BY <5>1, GenModAssumption DEF Discipline, TypeOK, Entry
      <4> QED
        BY <3>1, <4>1, <4>2 DEF Valid
    <3>2. CASE e.index # i
      <4>1. stamp'[e.index] = stamp[e.index]
        BY <2>1, <3>2, FileFacts
      <4>2. e.index \in live' <=> e.index \in live
        BY <2>1, <3>2 DEF File
      <4> QED
        BY <4>1, <4>2 DEF Valid
    <3> QED
      BY <3>1, <3>2
  <2>2. ASSUME NEW gone \in SUBSET live, Free(gone)
        PROVE  ~ Valid(e)'
    BY <2>2 DEF Free, Valid
  <2>3. ASSUME NEW dropped \in SUBSET Leftovers, Drop(dropped)
        PROVE  ~ Valid(e)'
    BY <2>3 DEF Drop, Valid
  <2> QED
    BY <2>1, <2>2, <2>3 DEF Next, Fill, Replace
<1> QED
  BY <1>1, DisciplineCorrect, PTL DEF Spec, StaleStaysStale

=============================================================================
