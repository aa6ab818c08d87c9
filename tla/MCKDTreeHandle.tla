--------------------------- MODULE MCKDTreeHandle ---------------------------
(***************************************************************************)
(* TLC instances of KDTreeHandle.                                          *)
(***************************************************************************)
EXTENDS KDTreeHandle

\* Both sides of every bound, both zeros, and NaN in each float.
SomeConfigs ==
  [ capacity            : {0, 1},
    resolution          : {Number(-1), NegativeZero, Number(0), Number(1), NaN},
    leaf_bucket_size    : {0, 5},
    alpha               : {Number(5), Number(7), Number(10), NaN},
    tombstone_threshold : {Number(-1), NegativeZero, Number(10), Number(11), NaN} ]

=============================================================================
