SPECIFICATION Spec
CONSTANTS
  Capacity = 6
  Point <- Row6
  ZeroPoint <- Origin
  GenMod = 1000000
  Far = 100
  leaf_bucket_size = 1
  alpha <- Alpha
  tombstone_threshold <- Quarter
  CountMod = 1024
  BucketMod = 65536
  INVALID = INVALID
  Batches <- SomeBatches
  Trees <- SomeTrees
  Queries <- SomeQueries
  Ks = {0, 1, 2, 9}
  Radii = {2, 10, 32, 800}
INVARIANTS SearchInv Exact
PROPERTY NoneTwice
