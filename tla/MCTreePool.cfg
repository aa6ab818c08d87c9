SPECIFICATION Spec
CONSTANTS
  Capacity = 2
  Point <- Tie4
  ZeroPoint <- Origin
  GenMod = 1000000
  Far = 100
  leaf_bucket_size = 1
  alpha <- Alpha
  tombstone_threshold <- Quarter
  CountMod = 1024
  BucketMod = 65536
  sq_resolution = 2
  Boxes = {}
  Balls <- KeepAll
  MaxBatch = 1
  MaxTotal = 6
  INVALID = INVALID
  Queries <- SomeQueries
  Radii = {1, 2, 4, 30}
  Ks = {1, 2, 9}
INVARIANTS LiveCountsExact PoolStaysFlat
