----------------------------- MODULE FlatTrees ------------------------------
(***************************************************************************)
(* A tree of TreeBuilder, a value with its children inside it, as the      *)
(* searches of SearchSteps look at one: nodes by name, here their paths,   *)
(* that name their children.                                               *)
(***************************************************************************)
EXTENDS TreeBuilder, Neighbors

RECURSIVE NodeAt(_, _)
NodeAt(n, path) ==
  IF path = <<>> THEN n
  ELSE NodeAt(IF Head(path) = "left" THEN n.left ELSE n.right, Tail(path))

Flat(n, path) ==
  IF n.is_leaf
  THEN [is_leaf |-> TRUE, bucket |-> n.bucket]
  ELSE [is_leaf |-> FALSE, split_dim |-> n.split_dim, split_value |-> n.split_value,
        left |-> Append(path, "left"), right |-> Append(path, "right")]

FlatTree(s, n) ==
  LET paths == Paths(n, <<>>)
  IN  [ store |-> s,
        nodes |-> [x \in paths |-> Flat(NodeAt(n, x), x)],
        root  |-> <<>>,
        below |-> [x \in paths |-> LiveIndices(s, NodeAt(n, x))] ]

\* A store that no tree has been built for.
NoTree(s, no_root) == [store |-> s, nodes |-> <<>>, root |-> no_root, below |-> <<>>]

=============================================================================
