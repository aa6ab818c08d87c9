----------------------------- MODULE TreeValues -----------------------------
(***************************************************************************)
(* KDTree as its client thinks of it: each object holds a tree of its own, *)
(* a move takes the tree from one object to another, and no call on one    *)
(* object is felt through another.                                         *)
(***************************************************************************)
CONSTANTS
  Handle,         \* the objects
  Tree,           \* the trees an object may hold, each with its configuration
  Fresh(_),       \* the trees the constructor may return for a configuration
  Later(_),       \* the trees a mutating call may turn a tree into
  Config, InRange(_),  \* configurations, and those that meet the preconditions
  Absent, Moved   \* no object here; an object whose tree was moved away

VARIABLE value    \* what each object holds

Init == value = [h \in Handle |-> Absent]

\* A configuration out of range is refused; any may fail for lack of memory.
Construct(h, cfg) ==
  /\ value[h] = Absent
  /\ InRange(cfg)
  /\ \E t \in Fresh(cfg) : value' = [value EXCEPT ![h] = t]

MoveConstruct(h, g) ==
  /\ value[h] = Absent
  /\ value[g] # Absent
  /\ value' = [value EXCEPT ![h] = value[g], ![g] = Moved]

\* An object assigned to itself keeps its tree.
MoveAssign(h, g) ==
  /\ Absent \notin {value[h], value[g]}
  /\ value' = IF h = g THEN value ELSE [value EXCEPT ![h] = value[g], ![g] = Moved]

Destroy(h) ==
  /\ value[h] # Absent
  /\ value' = [value EXCEPT ![h] = Absent]

Call(h) ==
  /\ value[h] \in Tree
  /\ \E t \in Later(value[h]) : value' = [value EXCEPT ![h] = t]

Next ==
  \/ \E h \in Handle, cfg \in Config : Construct(h, cfg)
  \/ \E h, g \in Handle : MoveConstruct(h, g) \/ MoveAssign(h, g)
  \/ \E h \in Handle : Destroy(h) \/ Call(h)

Spec == Init /\ [][Next]_value

=============================================================================
